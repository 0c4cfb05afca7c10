-------------------------------- MODULE Tftp --------------------------------
(***************************************************************************)
(* The TFTP client of cmd/net/tftp.c: getfile() and putfile() over UDP, with  *)
(* packets lost, duplicated, delayed and reordered, and a server that opens   *)
(* one transfer (one port) for every request packet that reaches it.          *)
(*                                                                          *)
(* The file is the blocks 1 .. nblocks, of which the last is shorter than     *)
(* BLKSIZE.  The client blocks in readpkt() between two steps; what it does   *)
(* with a packet up to its next readpkt() is one action.  A packet that is    *)
(* lost is one that stays in flight.                                         *)
(***************************************************************************)
EXTENDS Integers, Sequences

CONSTANTS
  nblocks,
  BlkMod,      \* 2^16 in the packet header
  NRETRIES,
  Sess,        \* the transfers the server may have open
  ShortReads,  \* whether read(0) may return less than BLKSIZE before the end
  MaxDup,      \* bound: packets delivered and still in flight
  MaxResend    \* bound: timeouts of the server

ASSUME TftpAssumption ==
  /\ nblocks \in Nat \ {0} /\ BlkMod \in Nat \ {0, 1} /\ NRETRIES \in Nat \ {0}
  /\ 0 \notin Sess /\ ShortReads \in BOOLEAN
  /\ MaxDup \in Nat /\ MaxResend \in Nat

Block == 1 .. nblocks

Running == -1

VARIABLES
  fn,         \* "get" or "put"
  exit,       \* the exit status, or Running
  state,      \* RRQ or WWQ until a packet has come, then the operation to repeat
  to,         \* where the last packet came from, 0 for the server's well-known port
  timeout, blkno, nextblkno, done,
  out,        \* getfile(): written to standard output
  rest,       \* putfile(): first block not read from standard input yet
  outbuf,     \* putfile(): the data packet in outbuf
  toServer, toClient,
  open, cur, got,  \* the server: transfers, block last sent, blocks received
  fin,             \* the server: transfers it has completed
  dup, resent

client == <<fn, exit, state, to, timeout, blkno, nextblkno, done, out, rest, outbuf>>
server == <<open, cur, got, fin, resent>>
net == <<toServer, toClient, dup>>
tftpVars == <<client, server, net>>

Wire(n) == n % BlkMod

Msg(port, op, n, id, last) ==
  [port |-> port, op |-> op, blk |-> n, id |-> id, last |-> last]

Request(op) == Msg(0, op, 0, 0, FALSE)

(* writepkt(): to the address of the last packet received                    *)
writepkt(port, m) == toServer' = toServer \cup {Msg(port, m.op, m.blk, m.id, m.last)}

packack(n) == Msg(0, "ACK", Wire(n), 0, FALSE)

packdata(n, id, last) == Msg(0, "DATA", Wire(n), id, last)

TftpInit ==
  /\ fn \in {"get", "put"}
  /\ exit = Running
  /\ state = IF fn = "get" THEN "RRQ" ELSE "WWQ"
  /\ to = 0 /\ timeout = 0 /\ blkno = 0 /\ done = FALSE
  /\ nextblkno = IF fn = "get" THEN 1 ELSE 0
  /\ out = <<>> /\ rest = 1
  /\ outbuf = Request("WWQ")
  /\ toServer = {Request(state)} /\ toClient = {}
  /\ open = {} /\ cur = [s \in Sess |-> 0] /\ got = [s \in Sess |-> <<>>] /\ fin = {}
  /\ dup = 0 /\ resent = 0

-----------------------------------------------------------------------------
(* The client.                                                               *)

(* recvfrom() in readpkt(); the network may keep a copy for later.           *)
Receive(m) ==
  /\ exit = Running /\ m \in toClient
  /\ \/ toClient' = toClient \ {m} /\ dup' = dup
     \/ toClient' = toClient /\ dup < MaxDup /\ dup' = dup + 1
  /\ to' = m.port
  /\ timeout' = 0
  /\ UNCHANGED <<server, fn>>

Mut_WriteAny(n) == TRUE

Expected(n) == n = nextblkno

(* getfile(), case DATA and case ACK.  nextblkno is an int and is compared    *)
(* with the 16 bits of the header.                                           *)
GetData(m) ==
  /\ fn = "get" /\ m.op = "DATA"
  /\ Receive(m)
  /\ blkno' = m.blk
  /\ IF Expected(m.blk)
       THEN nextblkno' = nextblkno + 1 /\ out' = Append(out, m.id)
       ELSE UNCHANGED <<nextblkno, out>>
  /\ done' = (done \/ m.last)
  /\ state' = "ACK"
  /\ writepkt(m.port, packack(m.blk))
  /\ exit' = IF done' THEN 0 ELSE exit
  /\ UNCHANGED <<rest, outbuf>>

(* read(0, ..., BLKSIZE): a short count is taken for the end of the file.    *)
ReadInput ==
  \E short \in IF ShortReads THEN BOOLEAN ELSE {FALSE} :
    /\ done' = (rest >= nblocks \/ short)
    /\ outbuf' = packdata(nextblkno + 1, rest, done')
    /\ rest' = rest + 1

Mut_AnyAckEnds(n) == done

Finished(n) == n = nextblkno /\ done

Advances(n) == n = nextblkno

(* putfile(), case ACK and case DATA: the next block, or the last one again.  *)
PutAck(m) ==
  /\ fn = "put" /\ m.op = "ACK"
  /\ Receive(m)
  /\ blkno' = m.blk
  /\ state' = "DATA"
  /\ IF Finished(m.blk)
       THEN exit' = 0 /\ UNCHANGED <<nextblkno, done, rest, outbuf, toServer>>
       ELSE /\ IF Advances(m.blk)
                 THEN ReadInput /\ nextblkno' = nextblkno + 1
                 ELSE UNCHANGED <<nextblkno, done, rest, outbuf>>
            /\ writepkt(m.port, outbuf')
            /\ UNCHANGED exit
  /\ UNCHANGED out

(* case ERR, or an opcode that has no business here: eprintf()               *)
Refused(m) ==
  /\ m.op # (IF fn = "get" THEN "DATA" ELSE "ACK")
  /\ Receive(m)
  /\ exit' = 1
  /\ UNCHANGED <<state, blkno, nextblkno, done, out, rest, outbuf, toServer>>

Mut_NeverGivesUp(t) == FALSE

GivesUp(t) == t = NRETRIES

(* recvfrom() fails after TIMEOUT_SEC; the loop repeats the case it is in.   *)
Timeout ==
  /\ exit = Running
  /\ timeout' = IF timeout < NRETRIES THEN timeout + 1 ELSE timeout
  /\ IF GivesUp(timeout')
       THEN exit' = 1 /\ UNCHANGED toServer
       ELSE /\ writepkt(to, CASE state = "RRQ" -> Request("RRQ")
                              [] state = "ACK" -> packack(blkno)
                              [] OTHER -> outbuf)
            /\ UNCHANGED exit
  /\ UNCHANGED <<fn, state, to, blkno, nextblkno, done, out, rest, outbuf, toClient, dup,
                 server>>

-----------------------------------------------------------------------------
(* The server, as RFC 1350 has it, as long as there is a client.             *)

Arrive(m) ==
  /\ exit = Running /\ m \in toServer
  /\ toServer' = toServer \ {m}
  /\ UNCHANGED <<client, dup, resent>>

Reply(m) == toClient' = toClient \cup {m}

DataOf(s, n) == Msg(s, "DATA", Wire(n), n, n = nblocks)

AckOf(s, n) == Msg(s, "ACK", Wire(n), 0, FALSE)

Accept(s, m) ==
  /\ m.op \in {"RRQ", "WWQ"} /\ s \notin open
  /\ Arrive(m)
  /\ open' = open \cup {s}
  /\ IF m.op = "RRQ" THEN cur' = [cur EXCEPT ![s] = 1] /\ Reply(DataOf(s, 1))
     ELSE cur' = cur /\ Reply(AckOf(s, 0))
  /\ UNCHANGED <<got, fin>>

Reject(s, m) ==
  /\ m.op \in {"RRQ", "WWQ"} /\ s \notin open
  /\ Arrive(m)
  /\ Reply(Msg(s, "ERR", 0, 0, FALSE))
  /\ UNCHANGED <<open, cur, got, fin>>

SendNext(s, m) ==
  /\ m.op = "ACK" /\ m.port = s /\ s \in open \ fin
  /\ Arrive(m)
  /\ IF m.blk # Wire(cur[s]) THEN UNCHANGED <<cur, fin, toClient>>
     ELSE IF cur[s] = nblocks THEN fin' = fin \cup {s} /\ UNCHANGED <<cur, toClient>>
     ELSE cur' = [cur EXCEPT ![s] = @ + 1] /\ Reply(DataOf(s, cur[s] + 1)) /\ fin' = fin
  /\ UNCHANGED <<open, got>>

(* A block that continues the file is stored and acknowledged, the one before *)
(* it acknowledged again, any other ignored.                                 *)
Store(s, m) ==
  /\ m.op = "DATA" /\ m.port = s /\ s \in open
  /\ Arrive(m)
  /\ \/ /\ m.blk = Wire(Len(got[s]) + 1) /\ s \notin fin
        /\ got' = [got EXCEPT ![s] = Append(@, m.id)]
        /\ fin' = IF m.last THEN fin \cup {s} ELSE fin
        /\ Reply(AckOf(s, Len(got'[s])))
     \/ /\ m.blk = Wire(Len(got[s]))
        /\ Reply(AckOf(s, Len(got[s])))
        /\ UNCHANGED <<got, fin>>
     \/ /\ m.blk \notin {Wire(Len(got[s])), Wire(Len(got[s]) + 1)}
        /\ UNCHANGED <<got, fin, toClient>>
  /\ UNCHANGED <<open, cur>>

ServerTimeout(s) ==
  /\ exit = Running /\ s \in open \ fin /\ resent < MaxResend
  /\ resent' = resent + 1
  /\ Reply(IF fn = "get" THEN DataOf(s, cur[s]) ELSE AckOf(s, Len(got[s])))
  /\ UNCHANGED <<client, toServer, dup, open, cur, got, fin>>

Client ==
  \/ \E m \in toClient : GetData(m) \/ PutAck(m) \/ Refused(m)
  \/ Timeout

Server == \E s \in Sess :
  \/ \E m \in toServer : Accept(s, m) \/ Reject(s, m) \/ SendNext(s, m) \/ Store(s, m)
  \/ ServerTimeout(s)

TftpNext == Client \/ Server

TftpSpec == TftpInit /\ [][TftpNext]_tftpVars

(* The client is scheduled, and recvfrom() returns after TIMEOUT_SEC.        *)
TftpFairSpec == TftpSpec /\ WF_tftpVars(Client)

-----------------------------------------------------------------------------

WholeFile == [n \in Block |-> n]

IsPrefixOf(q, f) == Len(q) <= Len(f) /\ \A n \in DOMAIN q : q[n] = f[n]

(* getfile() and putfile() keep their variables within bounds: the retries, the *)
(* number on the wire, the port that is written to.                          *)
TftpTypeOK ==
  /\ exit \in {Running, 0, 1}
  /\ state \in {"RRQ", "WWQ", "ACK", "DATA"}
  /\ to \in Sess \cup {0} /\ timeout \in 0 .. NRETRIES
  /\ blkno \in 0 .. BlkMod - 1 /\ nextblkno \in 0 .. nblocks + 1
  /\ open \subseteq Sess /\ fin \subseteq open
  /\ rest \in 1 .. nblocks + 1

(* Whatever the network does, what getfile() has written so far is the        *)
(* beginning of the file: no block twice, none left out, none out of order.   *)
GetInOrder == fn = "get" => IsPrefixOf(out, WholeFile)

(* "transfer files ... from a remote tftp server": getfile() returns only     *)
(* when all of the file has been written; of a file of fewer blocks than the   *)
(* header can number.                                                        *)
GetComplete == fn = "get" /\ exit = 0 => out = WholeFile

(* "transfer files to ... a remote tftp server": putfile() returns only when  *)
(* one transfer of the server holds all of the file, however many the         *)
(* repeated requests have opened; when every read but the last fills a block.  *)
PutComplete == fn = "put" /\ exit = 0 => \E s \in Sess : got[s] = WholeFile

(* No transfer of the server is ever given a block out of order.             *)
PutInOrder == fn = "put" => \A s \in Sess : IsPrefixOf(got[s], WholeFile)

UpTo(n) == [k \in 1 .. n |-> k]

(* What makes getfile() right: nobody is ahead of the first block the client  *)
(* still waits for.  The server sends a block after the one before it was     *)
(* acknowledged, and the client acknowledges only what it has written.       *)
GetInv ==
  /\ nextblkno \in 1 .. nblocks + 1 /\ blkno \in 0 .. nextblkno - 1
  /\ state \in {"RRQ", "ACK"}
  /\ out = UpTo(nextblkno - 1)
  /\ exit = Running => ~done
  /\ exit = 0 => nextblkno = nblocks + 1
  /\ \A m \in toClient :
       /\ m.port \in Sess /\ m.op \in {"DATA", "ERR"}
       /\ m.op = "DATA" => /\ m.id \in Block /\ m.id <= nextblkno /\ m.blk = m.id
                           /\ (m.last <=> (m.id = nblocks))
  /\ \A m \in toServer :
       m.op \in {"RRQ", "ACK"} /\ (m.op = "ACK" => m.blk \in 0 .. nextblkno - 1)
  /\ cur \in [Sess -> 0 .. nblocks]
  /\ \A s \in open : cur[s] \in Block /\ cur[s] <= nextblkno

(* What makes putfile() right: the packet in outbuf is the block the client   *)
(* waits to see acknowledged, every transfer of the server holds a beginning  *)
(* of the file, and no acknowledgement is ahead of its transfer.             *)
PutInv ==
  /\ nextblkno \in 0 .. nblocks /\ rest = nextblkno + 1
  /\ state \in {"WWQ", "DATA"}
  /\ done <=> (nextblkno = nblocks)
  /\ outbuf.op = IF nextblkno = 0 THEN "WWQ" ELSE "DATA"
  /\ outbuf.op = "DATA" => /\ outbuf.blk = nextblkno /\ outbuf.id = nextblkno
                           /\ (outbuf.last <=> done)
  /\ got \in [Sess -> Seq(Block)]
  /\ \A s \in Sess : got[s] = UpTo(Len(got[s])) /\ Len(got[s]) <= nblocks
  /\ \A m \in toClient :
       /\ m.port \in Sess /\ m.op \in {"ACK", "ERR"}
       /\ m.op = "ACK" => m.blk \in 0 .. Len(got[m.port])
  /\ \A m \in toServer :
       /\ m.op \in {"WWQ", "DATA"}
       /\ m.op = "DATA" => /\ m.id \in 1 .. nextblkno /\ m.blk = m.id
                           /\ (m.last <=> (m.id = nblocks))
  /\ exit = 0 => \E s \in Sess : Len(got[s]) = nblocks

(* The inductive invariant behind the four properties above, for a file of    *)
(* fewer than 2^16 blocks read in whole blocks.                              *)
TransferInv ==
  /\ fn \in {"get", "put"} /\ exit \in {Running, 0, 1} /\ open \subseteq Sess
  /\ fn = "get" => GetInv
  /\ fn = "put" => PutInv

(* The client comes to an end, with the file or with an error: after          *)
(* NRETRIES silent timeouts it gives up.                                     *)
ClientEnds == <>(exit # Running)
=============================================================================
