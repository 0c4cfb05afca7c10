--------------------------- MODULE CronTftpProofs ---------------------------
(***************************************************************************)
(* Theorems about the cron daemon (Cron), for every set of commands, pids     *)
(* and crontabs and every clock; about the fields of a crontab entry          *)
(* (CronMatch), for every number a field can hold, every list and every year; *)
(* and about tftp (Tftp), where both directions of a transfer are right for   *)
(* every file of fewer than 2^16 blocks, every number of retries and of       *)
(* server transfers, and every way of losing, repeating and reordering        *)
(* packets.                                                                  *)
(***************************************************************************)
EXTENDS Cron, CronMatch, Tftp, TLAPS

(* tftp.                                                                    *)

(* The header holds every block number of such a file.                       *)
LEMMA WireSmall ==
  ASSUME nblocks < BlkMod, NEW n \in Int, 0 <= n, n <= nblocks
  PROVE  Wire(n) = n
BY TftpAssumption DEF Wire

(* The number after the last one of the file is not one of the file.         *)
LEMMA WireNext ==
  ASSUME nblocks < BlkMod
  PROVE  Wire(nblocks + 1) \notin 1 .. nblocks
<1>1. CASE nblocks + 1 = BlkMod
  BY <1>1, TftpAssumption DEF Wire
<1>2. CASE nblocks + 1 < BlkMod
  BY <1>2, TftpAssumption DEF Wire
<1> QED
  BY <1>1, <1>2, TftpAssumption

(* What a data packet of the server says                                     *)
LEMMA DataFields ==
  ASSUME nblocks < BlkMod, NEW s \in Sess, NEW n \in Block
  PROVE  LET d == DataOf(s, n)
         IN  d.port = s /\ d.op = "DATA" /\ d.blk = n /\ d.id = n /\ (d.last <=> (n = nblocks))
<1>1. Wire(n) = n
  BY WireSmall, TftpAssumption DEF Block
<1>2. DataOf(s, n).port = s /\ DataOf(s, n).op = "DATA" /\ DataOf(s, n).blk = n
      /\ DataOf(s, n).id = n
  BY Zenon, <1>1 DEF DataOf, Msg
<1>3. DataOf(s, n).last <=> (n = nblocks)
  BY Zenon DEF DataOf, Msg
<1> QED
  BY Zenon, <1>2, <1>3

(* A request is answered and its answer is right before anything else.       *)
LEMMA InitInv == TftpInit => TransferInv
<1> SUFFICES ASSUME TftpInit PROVE TransferInv
  BY Zenon
<1>1. CASE fn = "get"
  BY <1>1, TftpAssumption DEF TftpInit, TransferInv, GetInv, UpTo, Request, Msg, Running
<1>2. CASE fn = "put"
  <2>1. \A s \in Sess : got[s] = UpTo(Len(got[s])) /\ Len(got[s]) <= nblocks
    BY SMTT(30), <1>2, TftpAssumption DEF TftpInit, UpTo
  <2>2. PutInv
    BY <1>2, <2>1, TftpAssumption DEF TftpInit, PutInv, Request, Msg, Running, Block
  <2> QED
    BY Zenon, <1>2, <2>2 DEF TftpInit, TransferInv
<1> QED
  BY Zenon, <1>1, <1>2 DEF TftpInit

-----------------------------------------------------------------------------
(* getfile()                                                                 *)

(* Every step of a download keeps TransferInv.                               *)
LEMMA GetStep ==
  ASSUME nblocks < BlkMod, TransferInv, fn = "get", [TftpNext]_tftpVars
  PROVE  TransferInv'
<1>0. GetInv /\ open \subseteq Sess /\ exit \in {Running, 0, 1}
  BY Zenon DEF TransferInv
<1>1. ASSUME NEW m \in toClient, GetData(m) PROVE TransferInv'
  <2>1. m.id \in Block /\ m.id <= nextblkno /\ m.blk = m.id /\ m.port \in Sess
        /\ (m.last <=> (m.id = nblocks))
    BY Zenon, <1>0, <1>1 DEF GetInv, GetData
  <2>2. fn' = "get" /\ open' = open /\ cur' = cur /\ toClient' \subseteq toClient
        /\ exit = Running
    BY Zenon, <1>1 DEF GetData, Receive, server
  <2>3. /\ nextblkno' = IF m.id = nextblkno THEN nextblkno + 1 ELSE nextblkno
        /\ out' = UpTo(nextblkno' - 1)
    <3>1. CASE m.id = nextblkno
      BY <1>0, <1>1, <2>1, <3>1, TftpAssumption, SMTT(30)
      DEF GetData, Expected, GetInv, UpTo, Block
    <3>2. CASE m.id # nextblkno
      BY Zenon, <1>0, <1>1, <2>1, <3>2 DEF GetData, Expected, GetInv
    <3> QED
      BY Zenon, <3>1, <3>2
  <2>4. Wire(m.blk) = m.id
    BY <2>1, WireSmall DEF Block
  <2>5. \A k \in toServer' : k \in toServer \/ (k.op = "ACK" /\ k.blk = m.id)
    BY <1>1, <2>4 DEF GetData, writepkt, packack, Msg
  <2>6. exit' = IF m.last THEN 0 ELSE Running
    BY Zenon, <1>0, <1>1, <2>2 DEF GetData, GetInv
  <2>7. exit' = Running => ~done'
    BY <1>0, <1>1, <2>2 DEF GetData, GetInv, Running
  <2>8. GetInv'
    BY SMTT(30), <1>0, <1>1, <2>1, <2>2, <2>3, <2>5, <2>6, <2>7, TftpAssumption
    DEF GetInv, GetData, Block, Running
  <2> QED
    BY Zenon, <1>0, <2>2, <2>6, <2>8 DEF TransferInv
<1>2. ASSUME NEW m \in toClient, PutAck(m) PROVE TransferInv'
  BY Zenon, <1>2 DEF PutAck
<1>3. ASSUME NEW m \in toClient, Refused(m) PROVE TransferInv'
  <2>1. GetInv'
    BY <1>0, <1>3 DEF Refused, Receive, GetInv, server, Running
  <2> QED
    BY Zenon, <1>0, <1>3, <2>1 DEF Refused, Receive, TransferInv, server
<1>4. CASE Timeout
  <2>1. \A k \in toServer' :
          k \in toServer \/ k.op = "RRQ" \/ (k.op = "ACK" /\ k.blk = Wire(blkno))
    <3>1. CASE state = "RRQ"
      BY <1>4, <3>1 DEF Timeout, GivesUp, writepkt, Request, Msg
    <3>2. CASE state = "ACK"
      BY <1>4, <3>2 DEF Timeout, GivesUp, writepkt, packack, Msg
    <3> QED
      BY Zenon, <1>0, <3>1, <3>2 DEF GetInv
  <2>2. Wire(blkno) = blkno
    BY <1>0, WireSmall, TftpAssumption DEF GetInv
  <2>3. GetInv'
    BY SMTT(30), <1>0, <1>4, <2>1, <2>2 DEF GetInv, Timeout, server, Running
  <2> QED
    BY Zenon, <1>0, <1>4, <2>3 DEF Timeout, TransferInv, server
<1>5. ASSUME NEW s \in Sess, NEW m \in toServer, Accept(s, m) PROVE TransferInv'
  <2>1. m.op = "RRQ"
    BY Zenon, <1>0, <1>5 DEF GetInv, Accept
  <2>2. 1 \in Block
    BY TftpAssumption DEF Block
  <2>3. \A k \in toClient' : k \in toClient \/ k = DataOf(s, 1)
    BY Zenon, <1>5, <2>1 DEF Accept, Reply
  <2>4. GetInv'
    BY SMTT(30), <1>0, <1>5, <2>1, <2>2, <2>3, DataFields, TftpAssumption
    DEF GetInv, Accept, Arrive, client, Block
  <2> QED
    BY Zenon, <1>0, <1>5, <2>4 DEF Accept, Arrive, TransferInv, client
<1>6. ASSUME NEW s \in Sess, NEW m \in toServer, Reject(s, m) PROVE TransferInv'
  <2>1. \A k \in toClient' : k \in toClient \/ (k.port = s /\ k.op = "ERR")
    BY <1>6 DEF Reject, Reply, Msg
  <2>2. GetInv'
    BY Zenon, <1>0, <1>6, <2>1 DEF GetInv, Reject, Arrive, client
  <2> QED
    BY Zenon, <1>0, <1>6, <2>2 DEF Reject, Arrive, TransferInv, client
<1>7. ASSUME NEW s \in Sess, NEW m \in toServer, SendNext(s, m) PROVE TransferInv'
  <2>1. /\ m.blk \in 0 .. nextblkno - 1 /\ cur[s] \in Block /\ cur[s] <= nextblkno
        /\ open' = open
    BY Zenon, <1>0, <1>7 DEF GetInv, SendNext
  <2>2. CASE m.blk = Wire(cur[s]) /\ cur[s] # nblocks
    <3>1. cur[s] + 1 \in Block /\ cur[s] + 1 <= nextblkno
      BY SMTT(30), <1>0, <2>1, <2>2, WireSmall, TftpAssumption DEF GetInv, Block
    <3>3. \A k \in toClient' : k \in toClient \/ k = DataOf(s, cur[s] + 1)
      BY Zenon, <1>7, <2>2 DEF SendNext, Reply
    <3>4. /\ cur' \in [Sess -> 0 .. nblocks]
          /\ \A t \in open : cur'[t] = cur[t] \/ cur'[t] = cur[s] + 1
      BY SMTT(30), <1>0, <1>7, <2>2, <3>1, TftpAssumption DEF SendNext, GetInv, Block
    <3>5. GetInv'
      BY SMTT(30), <1>0, <1>7, <2>1, <3>1, <3>3, <3>4, DataFields DEF GetInv, SendNext, Arrive, client
    <3> QED
      BY Zenon, <1>0, <1>7, <2>1, <3>5 DEF SendNext, Arrive, TransferInv, client
  <2>3. CASE ~(m.blk = Wire(cur[s]) /\ cur[s] # nblocks)
    <3>1. cur' = cur /\ toClient' = toClient
      BY Zenon, <1>7, <2>3 DEF SendNext
    <3>2. GetInv'
      BY Zenon, <1>0, <1>7, <2>1, <3>1 DEF GetInv, SendNext, Arrive, client
    <3> QED
      BY Zenon, <1>0, <1>7, <2>1, <3>2 DEF SendNext, Arrive, TransferInv, client
  <2> QED
    BY Zenon, <2>2, <2>3
<1>8. ASSUME NEW s \in Sess, NEW m \in toServer, Store(s, m) PROVE TransferInv'
  BY Zenon, <1>0, <1>8 DEF Store, GetInv
<1>9. ASSUME NEW s \in Sess, ServerTimeout(s) PROVE TransferInv'
  <2>1. cur[s] \in Block /\ cur[s] <= nextblkno
    BY Zenon, <1>0, <1>9 DEF GetInv, ServerTimeout
  <2>3. \A k \in toClient' : k \in toClient \/ k = DataOf(s, cur[s])
    BY Zenon, <1>9 DEF ServerTimeout, Reply
  <2>4. GetInv'
    BY SMTT(30), <1>0, <1>9, <2>1, <2>3, DataFields DEF GetInv, ServerTimeout, client
  <2> QED
    BY Zenon, <1>0, <1>9, <2>4 DEF ServerTimeout, TransferInv, client
<1>10. CASE UNCHANGED tftpVars
  <2>1. GetInv'
    BY Zenon, <1>0, <1>10 DEF GetInv, tftpVars, client, server, net
  <2> QED
    BY Zenon, <1>0, <1>10, <2>1 DEF TransferInv, tftpVars, client, server, net
<1> QED
  BY Zenon, <1>1, <1>2, <1>3, <1>4, <1>5, <1>6, <1>7, <1>8, <1>9, <1>10 DEF TftpNext, Client, Server

-----------------------------------------------------------------------------
(* putfile()                                                                 *)

(* Every step of an upload keeps TransferInv.                                *)
LEMMA PutStep ==
  ASSUME nblocks < BlkMod, ~ShortReads, TransferInv, fn = "put", [TftpNext]_tftpVars
  PROVE  TransferInv'
<1>0. PutInv /\ open \subseteq Sess /\ exit \in {Running, 0, 1}
  BY Zenon DEF TransferInv
<1>1. ASSUME NEW m \in toClient, GetData(m) PROVE TransferInv'
  BY Zenon, <1>1 DEF GetData
<1>2. ASSUME NEW m \in toClient, PutAck(m) PROVE TransferInv'
  <2>1. m.port \in Sess /\ m.blk \in 0 .. Len(got[m.port])
    BY Zenon, <1>0, <1>2 DEF PutInv, PutAck
  <2>2. /\ fn' = "put" /\ open' = open /\ got' = got /\ toClient' \subseteq toClient
        /\ state' = "DATA" /\ exit = Running
    BY Zenon, <1>2 DEF PutAck, Receive, server
  <2>3. CASE Finished(m.blk)
    <3>1. /\ exit' = 0 /\ nextblkno' = nextblkno /\ done' = done /\ rest' = rest
          /\ outbuf' = outbuf /\ toServer' = toServer
      BY Zenon, <1>2, <2>3 DEF PutAck
    <3>2. Len(got[m.port]) = nblocks
      BY SMTT(30), <1>0, <2>1, <2>3, TftpAssumption DEF PutInv, Finished
    <3>3. PutInv'
      BY Zenon, <1>0, <2>1, <2>2, <3>1, <3>2 DEF PutInv
    <3> QED
      BY Zenon, <1>0, <2>2, <3>1, <3>3 DEF TransferInv
  <2>4. CASE ~Finished(m.blk) /\ Advances(m.blk)
    <3>1. nextblkno < nblocks
      BY SMTT(30), <1>0, <2>4, TftpAssumption DEF PutInv, Finished, Advances
    <3>2. /\ nextblkno' = nextblkno + 1 /\ rest' = rest + 1 /\ exit' = Running
          /\ (done' <=> (rest >= nblocks))
          /\ outbuf' = packdata(nextblkno + 1, rest, done')
          /\ toServer' = toServer \cup
               {Msg(m.port, outbuf'.op, outbuf'.blk, outbuf'.id, outbuf'.last)}
      BY Zenon, <1>2, <2>2, <2>4 DEF PutAck, ReadInput, writepkt
    <3>3. /\ outbuf'.op = "DATA" /\ outbuf'.blk = nextblkno + 1 /\ outbuf'.id = nextblkno + 1
      <4>1. Wire(nextblkno + 1) = nextblkno + 1 /\ rest = nextblkno + 1
        BY <1>0, <3>1, WireSmall, TftpAssumption DEF PutInv
      <4> QED
        BY Zenon, <3>2, <4>1 DEF packdata, Msg
    <3>4. outbuf'.last <=> done'
      BY <3>2, Zenon DEF packdata, Msg
    <3>5. \A k \in toServer' : k \in toServer \/
            (k.op = "DATA" /\ k.blk = nextblkno + 1 /\ k.id = nextblkno + 1)
      BY <3>2, <3>3 DEF Msg
    <3>6. \A k \in toServer' : k \in toServer \/ (k.last <=> done')
      <4>1. \A k \in toServer' : k \in toServer \/ k.last = outbuf'.last
        BY SMTT(30), <3>2 DEF Msg
      <4> QED
        BY <3>4, <4>1, Zenon
    <3>7. PutInv'
      BY SMTT(30), <1>0, <2>2, <3>1, <3>2, <3>3, <3>4, <3>5, <3>6, TftpAssumption
      DEF PutInv, Running
    <3> QED
      BY Zenon, <1>0, <2>2, <3>2, <3>7 DEF TransferInv
  <2>5. CASE ~Finished(m.blk) /\ ~Advances(m.blk)
    <3>1. /\ nextblkno' = nextblkno /\ done' = done /\ rest' = rest /\ exit' = Running
          /\ outbuf' = outbuf
          /\ toServer' = toServer \cup
               {Msg(m.port, outbuf.op, outbuf.blk, outbuf.id, outbuf.last)}
      BY Zenon, <1>2, <2>2, <2>5 DEF PutAck, writepkt
    <3>2. \A k \in toServer' : k \in toServer \/
            (k.op = outbuf.op /\ k.blk = outbuf.blk /\ k.id = outbuf.id /\ k.last = outbuf.last)
      BY <3>1 DEF Msg
    <3>3. PutInv'
      BY SMTT(30), <1>0, <2>2, <3>1, <3>2, TftpAssumption DEF PutInv, Running
    <3> QED
      BY Zenon, <1>0, <2>2, <3>1, <3>3 DEF TransferInv
  <2> QED
    BY Zenon, <2>3, <2>4, <2>5
<1>3. ASSUME NEW m \in toClient, Refused(m) PROVE TransferInv'
  <2>1. PutInv'
    BY <1>0, <1>3 DEF Refused, Receive, PutInv, server, Running
  <2> QED
    BY Zenon, <1>0, <1>3, <2>1 DEF Refused, Receive, TransferInv, server
<1>4. CASE Timeout
  <2>1. toServer' \subseteq toServer \cup
          {Msg(to, outbuf.op, outbuf.blk, outbuf.id, outbuf.last)}
    BY Zenon, <1>0, <1>4 DEF PutInv, Timeout, GivesUp, writepkt
  <2>2. \A k \in toServer' : k \in toServer \/
          (k.op = outbuf.op /\ k.blk = outbuf.blk /\ k.id = outbuf.id /\ k.last = outbuf.last)
    BY <2>1 DEF Msg
  <2>3. PutInv'
    BY SMTT(30), <1>0, <1>4, <2>2, TftpAssumption DEF PutInv, Timeout, server, Running
  <2> QED
    BY Zenon, <1>0, <1>4, <2>3 DEF Timeout, TransferInv, server
<1>5. ASSUME NEW s \in Sess, NEW m \in toServer, Accept(s, m) PROVE TransferInv'
  <2>1. m.op = "WWQ"
    BY Zenon, <1>0, <1>5 DEF PutInv, Accept
  <2>2. \A k \in toClient' : k \in toClient \/ (k.port = s /\ k.op = "ACK" /\ k.blk = 0)
    BY SMTT(30), <1>5, <2>1, WireSmall, TftpAssumption DEF Accept, Reply, AckOf, Msg
  <2>3. PutInv'
    BY SMTT(30), <1>0, <1>5, <2>2 DEF PutInv, Accept, Arrive, client
  <2> QED
    BY Zenon, <1>0, <1>5, <2>3 DEF Accept, Arrive, TransferInv, client
<1>6. ASSUME NEW s \in Sess, NEW m \in toServer, Reject(s, m) PROVE TransferInv'
  <2>1. \A k \in toClient' : k \in toClient \/ (k.port = s /\ k.op = "ERR")
    BY <1>6 DEF Reject, Reply, Msg
  <2>2. PutInv'
    BY Zenon, <1>0, <1>6, <2>1 DEF PutInv, Reject, Arrive, client
  <2> QED
    BY Zenon, <1>0, <1>6, <2>2 DEF Reject, Arrive, TransferInv, client
<1>7. ASSUME NEW s \in Sess, NEW m \in toServer, SendNext(s, m) PROVE TransferInv'
  BY Zenon, <1>0, <1>7 DEF SendNext, PutInv
<1>8. ASSUME NEW s \in Sess, NEW m \in toServer, Store(s, m) PROVE TransferInv'
  <2>0. /\ m.id \in 1 .. nextblkno /\ m.blk = m.id /\ nextblkno \in 0 .. nblocks
        /\ got[s] \in Seq(Block) /\ got[s] = UpTo(Len(got[s])) /\ Len(got[s]) \in 0 .. nblocks
    BY SMTT(30), <1>0, <1>8, TftpAssumption DEF Store, PutInv
  <2>1. CASE /\ m.blk = Wire(Len(got[s]) + 1)
             /\ got' = [got EXCEPT ![s] = Append(@, m.id)]
             /\ Reply(AckOf(s, Len(got'[s])))
    <3>1. m.id = Len(got[s]) + 1
      <4>1. CASE Len(got[s]) < nblocks
        BY <2>0, <2>1, <4>1, WireSmall, TftpAssumption
      <4>2. CASE Len(got[s]) = nblocks
        BY <2>0, <2>1, <4>2, WireNext, TftpAssumption
      <4> QED
        BY <2>0, <4>1, <4>2, TftpAssumption
    <3>2. /\ got' \in [Sess -> Seq(Block)]
          /\ Len(got'[s]) = Len(got[s]) + 1 /\ got'[s] = UpTo(Len(got[s]) + 1)
          /\ \A t \in Sess : t # s => got'[t] = got[t]
      <4>1. m.id \in Block
        BY SMTT(30), <2>0, TftpAssumption DEF Block
      <4>2. /\ got' \in [Sess -> Seq(Block)] /\ got'[s] = Append(got[s], m.id)
            /\ \A t \in Sess : t # s => got'[t] = got[t]
        BY <1>0, <2>1, <4>1 DEF PutInv
      <4>3. Append(UpTo(Len(got[s])), Len(got[s]) + 1) = UpTo(Len(got[s]) + 1)
        BY <2>0 DEF UpTo
      <4>4. Len(Append(got[s], m.id)) = Len(got[s]) + 1
        BY <2>0
      <4> QED
        BY Zenon, <2>0, <3>1, <4>2, <4>3, <4>4
    <3>3. Wire(Len(got'[s])) = Len(got'[s])
      BY SMTT(30), <2>0, <3>1, <3>2, WireSmall, TftpAssumption
    <3>4. \A k \in toClient' : k \in toClient \/
            (k.port = s /\ k.op = "ACK" /\ k.blk = Len(got'[s]))
      BY SMTT(30), <2>1, <3>3 DEF Reply, AckOf, Msg
    <3>5. PutInv'
      <4>1. \A t \in Sess :
              /\ got'[t] = UpTo(Len(got'[t])) /\ Len(got'[t]) <= nblocks
              /\ Len(got[t]) <= Len(got'[t]) /\ Len(got[t]) \in Nat /\ Len(got'[t]) \in Nat
        <5>1. \A t \in Sess : Len(got[t]) \in Nat /\ Len(got'[t]) \in Nat
          BY SMTT(30), <1>0, <3>2 DEF PutInv
        <5> QED
          BY SMTT(30), <1>0, <2>0, <3>1, <3>2, <5>1, TftpAssumption DEF PutInv
      <4>2. \A k \in toClient' :
              /\ k.port \in Sess /\ k.op \in {"ACK", "ERR"}
              /\ k.op = "ACK" => k.blk \in 0 .. Len(got'[k.port])
        BY SMTT(30), <1>0, <3>4, <4>1 DEF PutInv
      <4>3. toServer' \subseteq toServer /\ exit' = exit /\ exit = Running
        BY Zenon, <1>8 DEF Store, Arrive, client
      <4> QED
        BY <1>0, <1>8, <3>2, <4>1, <4>2, <4>3, SMTT(30) DEF PutInv, Store, Arrive, client, Running
    <3> QED
      BY Zenon, <1>0, <1>8, <3>5 DEF Store, Arrive, TransferInv, client
  <2>2. CASE m.blk = Wire(Len(got[s])) /\ Reply(AckOf(s, Len(got[s]))) /\ UNCHANGED got
    <3>1. Wire(Len(got[s])) = Len(got[s])
      BY SMTT(30), <2>0, WireSmall, TftpAssumption
    <3>2. \A k \in toClient' : k \in toClient \/
            (k.port = s /\ k.op = "ACK" /\ k.blk = Len(got[s]))
      BY SMTT(30), <2>2, <3>1 DEF Reply, AckOf, Msg
    <3>3. PutInv'
      BY <1>0, <1>8, <2>0, <2>2, <3>2, SMTT(30) DEF PutInv, Store, Arrive, client
    <3> QED
      BY Zenon, <1>0, <1>8, <3>3 DEF Store, Arrive, TransferInv, client
  <2>3. CASE UNCHANGED <<got, toClient>>
    <3>1. PutInv'
      BY Zenon, <1>0, <1>8, <2>3 DEF PutInv, Store, Arrive, client
    <3> QED
      BY Zenon, <1>0, <1>8, <3>1 DEF Store, Arrive, TransferInv, client
  <2> QED
    BY Zenon, <1>8, <2>1, <2>2, <2>3 DEF Store
<1>9. ASSUME NEW s \in Sess, ServerTimeout(s) PROVE TransferInv'
  <2>1. Wire(Len(got[s])) = Len(got[s])
    BY SMTT(30), <1>0, WireSmall, TftpAssumption DEF PutInv
  <2>2. \A k \in toClient' : k \in toClient \/
          (k.port = s /\ k.op = "ACK" /\ k.blk = Len(got[s]))
    BY SMTT(30), <1>9, <2>1 DEF ServerTimeout, Reply, AckOf, Msg
  <2>3. PutInv'
    BY <1>0, <1>9, <2>2, SMTT(30) DEF PutInv, ServerTimeout, client
  <2> QED
    BY Zenon, <1>0, <1>9, <2>3 DEF ServerTimeout, TransferInv, client
<1>10. CASE UNCHANGED tftpVars
  <2>1. PutInv'
    BY Zenon, <1>0, <1>10 DEF PutInv, tftpVars, client, server, net
  <2> QED
    BY Zenon, <1>0, <1>10, <2>1 DEF TransferInv, tftpVars, client, server, net
<1> QED
  BY Zenon, <1>1, <1>2, <1>3, <1>4, <1>5, <1>6, <1>7, <1>8, <1>9, <1>10 DEF TftpNext, Client, Server

-----------------------------------------------------------------------------

(* The beginning UpTo(n) of the file is a prefix of it, and all of it when n   *)
(* is nblocks.                                                               *)
LEMMA UpToPrefix ==
  ASSUME NEW n \in 0 .. nblocks
  PROVE  IsPrefixOf(UpTo(n), WholeFile) /\ (n = nblocks => UpTo(n) = WholeFile)
<1>1. UpTo(n) \in Seq(Nat) /\ Len(UpTo(n)) = n /\ DOMAIN UpTo(n) = 1 .. n
  BY TftpAssumption DEF UpTo
<1>2. WholeFile \in Seq(Nat) /\ Len(WholeFile) = nblocks
  BY TftpAssumption DEF WholeFile, Block
<1>3. \A k \in 1 .. n : UpTo(n)[k] = WholeFile[k]
  BY TftpAssumption DEF UpTo, WholeFile, Block
<1>4. n = nblocks => UpTo(n) = WholeFile
  BY Zenon DEF UpTo, WholeFile, Block
<1> QED
  BY <1>1, <1>2, <1>3, <1>4, TftpAssumption DEF IsPrefixOf

(* Every step of client, server and network keeps what the transfer rests on. *)
THEOREM TransferInvariance ==
  ASSUME nblocks < BlkMod, ~ShortReads
  PROVE  TftpSpec => []TransferInv
<1>1. TransferInv /\ [TftpNext]_tftpVars => TransferInv'
  BY Zenon, GetStep, PutStep DEF TransferInv
<1> QED
  BY InitInv, <1>1, PTL DEF TftpSpec

(* getfile() writes the blocks of the file in order, each once, and exits     *)
(* with 0 only after the last one.                                           *)
THEOREM GetDelivers ==
  ASSUME nblocks < BlkMod, ~ShortReads
  PROVE  TftpSpec => [](GetInOrder /\ GetComplete)
<1>1. TransferInv => GetInOrder /\ GetComplete
  <2> SUFFICES ASSUME TransferInv, fn = "get"
               PROVE  GetInOrder /\ GetComplete
    BY Zenon DEF GetInOrder, GetComplete
  <2>1. nextblkno - 1 \in 0 .. nblocks /\ out = UpTo(nextblkno - 1)
    BY SMTT(30), TftpAssumption DEF TransferInv, GetInv
  <2>2. exit = 0 => nextblkno - 1 = nblocks
    BY TftpAssumption DEF TransferInv, GetInv
  <2> QED
    BY Zenon, <2>1, <2>2, UpToPrefix DEF GetInOrder, GetComplete
<1> QED
  BY TransferInvariance, <1>1, PTL

(* putfile() exits with 0 only when the server holds the whole file, and      *)
(* never gives it a block out of order.                                      *)
THEOREM PutDelivers ==
  ASSUME nblocks < BlkMod, ~ShortReads
  PROVE  TftpSpec => [](PutInOrder /\ PutComplete)
<1>1. TransferInv => PutInOrder /\ PutComplete
  <2> SUFFICES ASSUME TransferInv, fn = "put"
               PROVE  PutInOrder /\ PutComplete
    BY Zenon DEF PutInOrder, PutComplete
  <2>1. \A s \in Sess : Len(got[s]) \in 0 .. nblocks /\ got[s] = UpTo(Len(got[s]))
    BY SMTT(30), TftpAssumption DEF TransferInv, PutInv
  <2>2. exit = 0 => \E s \in Sess : Len(got[s]) = nblocks
    BY Zenon DEF TransferInv, PutInv
  <2> QED
    BY Zenon, <2>1, <2>2, UpToPrefix DEF PutInOrder, PutComplete
<1> QED
  BY TransferInvariance, <1>1, PTL

-----------------------------------------------------------------------------
(* cron.                                                                     *)

(* What loadentries() leaves in ctabhead is a list of entries.               *)
LEMMA LoadType ==
  ASSUME NEW f \in Crontabs \cup {Unusable}
  PROVE  loadentries(f) \in Seq(Entries)
<1>1. <<>> \in Seq(Entries)
  BY SMTT(30)
<1> QED
  BY Zenon, <1>1, CronAssumption DEF loadentries

FileOK == file \in Crontabs \cup {Unusable}

States == {"running", "stopped", "reported", "zombie"}

(* The variables keep their types.                                           *)
LEMMA TypeStep ==
  ASSUME CronTypeOK, FileOK, [Next]_cronVars
  PROVE  CronTypeOK' /\ FileOK'
<1> USE DEF CronTypeOK, FileOK
<1>1. CASE Sleep \/ WakeUp \/ Child \/ WaitDone \/ PassDone
  BY Zenon, <1>1 DEF Sleep, WakeUp, Child, WaitDone, PassDone, Goto, flags, history, AfterSignal
<1>2. CASE Check
  <2>0. <<>> \in Seq(Entries)
    OBVIOUS
  <2>1. ctab' \in Seq(Entries) /\ todo' \in Seq(Entries)
    BY Zenon, <1>2, <2>0 DEF Check
  <2>2. pc' \in {"exit", "reload", "jobs"}
    BY Zenon, <1>2 DEF Check, Goto
  <2> QED
    BY Zenon, <1>2, <2>1, <2>2 DEF Check, flags
<1>3. CASE Reload
  BY Zenon, <1>3, LoadType DEF Reload, Goto, flags, history
<1>4. CASE ClearReload \/ ClearChild
  BY Zenon, <1>4 DEF ClearReload, ClearChild, Goto, history, AfterSignal
<1>5. ASSUME NEW p \in Pid, WaitJob(p)
      PROVE  CronTypeOK' /\ FileOK'
  BY <1>5 DEF WaitJob, Forget, Reportable, flags, history, NoProc
<1>6. CASE Entry
  <2>1. Head(todo) \in Entries /\ Tail(todo) \in Seq(Entries)
    BY <1>6 DEF Entry
  <2>2. Head(todo).cmd \in Cmd
    BY Zenon, <2>1 DEF Entries
  <2>3. jobs' \subseteq [cmd : Cmd, pid : Pid] /\ started' \subseteq Cmd
    BY <1>6, <2>2 DEF Entry, RunJob, Fork
  <2>4. proc' \in [Pid -> {NoProc} \cup [st : States, cmd : Cmd]]
    BY <1>6, <2>2 DEF Entry, RunJob, Fork, States
  <2> QED
    BY Zenon, <1>6, <2>1, <2>3, <2>4 DEF Entry, flags, States
<1>7. ASSUME NEW p \in Pid, JobExit(p) \/ JobStop(p) \/ JobContinue(p)
      PROVE  CronTypeOK' /\ FileOK'
  <2>1. PICK st \in States : proc' = [proc EXCEPT ![p].st = st]
    BY Zenon, <1>7 DEF JobExit, JobStop, JobContinue, States
  <2>2. proc[p] \in [st : States, cmd : Cmd]
    BY <1>7 DEF JobExit, JobStop, JobContinue, Alive, NoProc, States
  <2>3. proc' \in [Pid -> {NoProc} \cup [st : States, cmd : Cmd]]
    BY Zenon, <2>1, <2>2 DEF States
  <2> QED
    BY Zenon, <1>7, <2>3 DEF JobExit, JobStop, JobContinue, Chld, Interrupt, history, States
<1>8. CASE Hup \/ Term
  BY Zenon, <1>8 DEF Hup, Term, Interrupt, history
<1>9. ASSUME NEW f \in Crontabs \cup {Unusable}, Edit(f)
      PROVE  CronTypeOK' /\ FileOK'
  BY Zenon, <1>9 DEF Edit, daemon, flags, history
<1>10. CASE Tick
  <2>1. minute' \in 0 .. Minutes - 1
    BY <1>10, CronAssumption DEF Tick
  <2>2. due' \in BOOLEAN
    BY <1>10, Zenon DEF Tick
  <2> QED
    BY Zenon, <1>10, <2>1, <2>2 DEF Tick, daemon, flags
<1>11. CASE UNCHANGED cronVars
  BY Zenon, <1>11 DEF cronVars, daemon, flags, history
<1> QED
  BY Zenon, <1>1, <1>2, <1>3, <1>4, <1>5, <1>6, <1>7, <1>8, <1>9, <1>10, <1>11
  DEF Next, Daemon, Environment

(* The variables always have their types.                                    *)
THEOREM CronTypes == Spec => [](CronTypeOK /\ FileOK)
<1>1. Init => CronTypeOK /\ FileOK
  <2> SUFFICES ASSUME Init PROVE CronTypeOK /\ FileOK
    BY Zenon
  <2>1. due \in BOOLEAN /\ chldreap \in BOOLEAN
        /\ reload \in BOOLEAN /\ quit \in BOOLEAN
    BY Zenon DEF Init
  <2>2. ctab \in Seq(Entries) /\ todo \in Seq(Entries)
    BY SMTT(30), LoadType DEF Init
  <2> QED
    BY <2>1, <2>2, CronAssumption DEF Init, CronTypeOK, FileOK
<1> QED
  BY <1>1, TypeStep, PTL DEF Spec

(* A pass starts with nothing started in its minute, and what it starts stays  *)
(* in jobhead until it is over.                                               *)
LEMMA PassStep ==
  ASSUME CronTypeOK, PassInv, [Next]_cronVars
  PROVE  PassInv'
<1> USE DEF PassInv, AlreadyRunning
<1>1. CASE Sleep \/ WakeUp \/ Child \/ WaitDone \/ PassDone
  BY Zenon, <1>1 DEF Sleep, WakeUp, Child, WaitDone, PassDone, Goto, flags, history, AfterSignal
<1>2. CASE Check
  BY Zenon, <1>2 DEF Check, Goto, flags
<1>3. CASE Reload \/ ClearReload \/ ClearChild
  BY Zenon, <1>3 DEF Reload, ClearReload, ClearChild, Goto, flags, history, AfterSignal
<1>4. ASSUME NEW p \in Pid, WaitJob(p)
      PROVE  PassInv'
  BY Zenon, <1>4 DEF WaitJob, flags, history
<1>5. CASE Entry
  <2>1. CASE jobs' = jobs /\ started' = started
    BY Zenon, <1>5, <2>1 DEF Entry
  <2>2. ASSUME NEW p \in Pid, Fork(Head(todo).cmd, p)
        PROVE  PassInv'
    <3> DEFINE c == Head(todo).cmd
    <3>1. jobs' = jobs \cup {[cmd |-> c, pid |-> p]} /\ started' = started \cup {c}
      BY Zenon, <2>2 DEF Fork
    <3>2. [cmd |-> c, pid |-> p].cmd = c
      BY Zenon
    <3>3. pc' = "jobs" /\ pc = "jobs"
      BY Zenon, <1>5 DEF Entry
    <3> HIDE DEF c
    <3> QED
      BY Zenon, <3>1, <3>2, <3>3
  <2> QED
    BY Zenon, <1>5, <2>1, <2>2 DEF Entry, RunJob
<1>6. ASSUME NEW p \in Pid, JobExit(p) \/ JobStop(p) \/ JobContinue(p)
      PROVE  PassInv'
  BY Zenon, <1>6 DEF JobExit, JobStop, JobContinue, Chld, Interrupt, history
<1>7. CASE Hup \/ Term
  BY Zenon, <1>7 DEF Hup, Term, Interrupt, history
<1>8. ASSUME NEW f \in Crontabs \cup {Unusable}, Edit(f)
      PROVE  PassInv'
  BY Zenon, <1>8 DEF Edit, daemon, flags, history
<1>9. CASE Tick
  BY Zenon, <1>9 DEF Tick, daemon, flags
<1>10. CASE UNCHANGED cronVars
  BY Zenon, <1>10 DEF cronVars, daemon, flags, history
<1> QED
  BY Zenon, <1>1, <1>2, <1>3, <1>4, <1>5, <1>6, <1>7, <1>8, <1>9, <1>10
  DEF Next, Daemon, Environment

(* An entry of jobhead names a child that is there and runs its command.      *)
JobsNamed ==
  \A j \in jobs : proc[j.pid].st # "none" /\ proc[j.pid].cmd = j.cmd

(* Every step keeps it.                                                      *)
LEMMA NamedStep ==
  ASSUME CronTypeOK, JobsNamed, [Next]_cronVars
  PROVE  JobsNamed'
<1> USE DEF JobsNamed
<1>1. CASE UNCHANGED <<jobs, proc>>
  BY Zenon, <1>1
<1>2. ASSUME NEW p \in Pid, WaitJob(p)
      PROVE  JobsNamed'
  BY Zenon, <1>2 DEF WaitJob, Forget, CronTypeOK
<1>3. CASE Entry
  BY <1>3 DEF Entry, RunJob, Fork, Children, CronTypeOK
<1>4. ASSUME NEW p \in Pid, JobExit(p) \/ JobStop(p) \/ JobContinue(p)
      PROVE  JobsNamed'
  <2>1. PICK st \in States : proc' = [proc EXCEPT ![p].st = st]
    BY Zenon, <1>4 DEF JobExit, JobStop, JobContinue, States
  <2>2. proc[p] \in [st : States, cmd : Cmd]
    BY <1>4 DEF JobExit, JobStop, JobContinue, Alive, NoProc, States, CronTypeOK
  <2>3. jobs' = jobs
    BY Zenon, <1>4 DEF JobExit, JobStop, JobContinue
  <2>4. \A q \in Pid : /\ q # p => proc'[q] = proc[q]
                       /\ proc'[p].st = st /\ proc'[p].cmd = proc[p].cmd
    BY Zenon, <2>1, <2>2 DEF CronTypeOK
  <2> QED
    BY Zenon, <2>3, <2>4 DEF CronTypeOK, States
<1> QED
  BY Zenon, <1>1, <1>2, <1>3, <1>4
  DEF Next, Daemon, Environment, Sleep, WakeUp, Check, Reload, ClearReload, Child, WaitDone,
      ClearChild, PassDone, Hup, Term, Edit, Tick, cronVars, daemon

(* An entry of jobhead never outlives its process.                            *)
LEMMA JobsAreChildren == Spec => []JobsNamed
<1>1. Init => JobsNamed
  BY Zenon DEF Init, JobsNamed
<1> QED
  BY <1>1, CronTypes, NamedStep, PTL DEF Spec

(* Whatever the signals, no command is started twice in one minute.           *)
THEOREM StartsOncePerMinute == Spec => OncePerMinute
<1>1. Init => PassInv
  BY Zenon DEF Init, PassInv
<1>2. Spec => []PassInv
  BY <1>1, CronTypes, PassStep, PTL DEF Spec
<1>3. CronTypeOK /\ PassInv /\ [Next]_cronVars
        => [\A c \in Cmd : StartsIn(c) => c \notin started]_cronVars
  <2> SUFFICES ASSUME CronTypeOK, PassInv, Next, NEW c \in Cmd, StartsIn(c)
               PROVE  c \notin started
    BY Zenon
  <2>1. PICK p \in Pid : proc[p].st = "none" /\ proc'[p] = [st |-> "running", cmd |-> c]
    BY Zenon DEF StartsIn
  <2>2. proc'[p].st = "running" /\ proc'[p].cmd = c
    BY SMTT(30), <2>1
  <2>3. Entry
    BY Zenon, <2>1, <2>2
    DEF Next, Daemon, Environment, Sleep, WakeUp, Check, Reload, ClearReload, Child, WaitDone,
        ClearChild, PassDone, Hup, Term, Edit, Tick, WaitJob, Reportable, JobExit, JobStop,
        JobContinue, Alive, NoProc, CronTypeOK
  <2>4. ~AlreadyRunning(c)
    BY SMTT(30), <2>1, <2>2, <2>3 DEF Entry, RunJob, Fork, CronTypeOK
  <2> QED
    BY Zenon, <2>3, <2>4 DEF PassInv, Entry
<1> QED
  BY <1>2, <1>3, CronTypes, PTL DEF Spec, OncePerMinute

(* A child is in jobhead exactly until waitpid() reports it; what has been      *)
(* reported as stopped is a child still; no command is in jobhead twice.       *)
Tracked ==
  /\ dropped \subseteq Children
  /\ \A j \in jobs : j.pid \notin dropped
  /\ \A p \in Children \ dropped : [cmd |-> proc[p].cmd, pid |-> p] \in jobs
  /\ \A i, j \in jobs : i.cmd = j.cmd => i = j

(* Every step keeps it.                                                      *)
LEMMA TrackedStep ==
  ASSUME CronTypeOK, JobsNamed, Tracked, [Next]_cronVars
  PROVE  Tracked'
<1>1. CASE UNCHANGED <<jobs, proc, dropped>>
  BY Zenon, <1>1 DEF Tracked, Children
<1>2. ASSUME NEW p \in Pid, WaitJob(p)
      PROVE  Tracked'
  <2>1. jobs' = {j \in jobs : j.pid # p}
    BY Zenon, <1>2 DEF WaitJob, Forget
  <2>2. \A q \in Pid : q # p => proc'[q] = proc[q]
    BY Zenon, <1>2 DEF WaitJob, CronTypeOK
  <2>3. \A i, j \in jobs' : i.cmd = j.cmd => i = j
    BY Zenon, <2>1 DEF Tracked
  <2>4. \A q \in dropped : q # p => q \in Children'
    BY Zenon, <2>2 DEF Tracked, Children
  <2>5. dropped' \subseteq Children'
    <3>1. CASE proc[p].st = "zombie"
      BY Zenon, <1>2, <2>4, <3>1 DEF WaitJob
    <3>2. CASE proc[p].st = "stopped"
      <4>1. proc'[p].st = "reported"
        BY <1>2, <3>2 DEF WaitJob, CronTypeOK, NoProc
      <4> QED
        BY Zenon, <1>2, <2>4, <3>2, <4>1 DEF WaitJob, Children
    <3> QED
      BY Zenon, <1>2, <3>1, <3>2 DEF WaitJob, Reportable
  <2>6. \A j \in jobs' : j.pid \notin dropped'
    BY Zenon, <1>2, <2>1 DEF WaitJob, Tracked
  <2>7. \A q \in Children' \ dropped' : q # p /\ q \in Children \ dropped
    <3>1. CASE proc[p].st = "zombie"
      <4>1. proc'[p].st = "none"
        BY Zenon, <1>2, <3>1 DEF WaitJob, CronTypeOK, NoProc
      <4> QED
        BY Zenon, <1>2, <2>2, <3>1, <4>1 DEF WaitJob, Children
    <3>2. CASE proc[p].st # "zombie"
      BY Zenon, <1>2, <2>2, <3>2 DEF WaitJob, Children
    <3> QED
      BY Zenon, <3>1, <3>2
  <2>8. \A q \in Children' \ dropped' : [cmd |-> proc'[q].cmd, pid |-> q] \in jobs'
    <3> TAKE q \in Children' \ dropped'
    <3>1. [cmd |-> proc[q].cmd, pid |-> q] \in jobs /\ q # p
      BY Zenon, <2>7 DEF Tracked
    <3>2. proc'[q] = proc[q]
      BY Zenon, <2>2, <3>1 DEF Children
    <3>3. [cmd |-> proc[q].cmd, pid |-> q].pid = q
      BY Zenon
    <3> QED
      BY Zenon, <2>1, <3>1, <3>2, <3>3
  <2> QED
    BY Zenon, <2>3, <2>5, <2>6, <2>8 DEF Tracked
<1>3. CASE Entry
  <2> DEFINE c == Head(todo).cmd
  <2>0. dropped' = dropped
    BY Zenon, <1>3 DEF Entry
  <2>1. ASSUME NEW p \in Pid, Fork(c, p), ~AlreadyRunning(c)
        PROVE  Tracked'
    <3>1. /\ proc' = [proc EXCEPT ![p] = [st |-> "running", cmd |-> c]]
          /\ jobs' = jobs \cup {[cmd |-> c, pid |-> p]}
          /\ p \notin Children
      BY Zenon, <2>1 DEF Fork
    <3>2. \A q \in Pid : proc'[q] = IF q = p THEN [st |-> "running", cmd |-> c] ELSE proc[q]
      BY Zenon, <3>1 DEF CronTypeOK
    <3>3. p \notin dropped
      BY Zenon, <3>1 DEF Tracked
    <3>4. \A q \in Children' \ dropped' : [cmd |-> proc'[q].cmd, pid |-> q] \in jobs'
      BY <2>0, <3>1, <3>2 DEF Tracked, Children
    <3>5. \A i \in jobs : i.cmd # c
      BY Zenon, <2>1 DEF AlreadyRunning
    <3>6. [cmd |-> c, pid |-> p].cmd = c /\ [cmd |-> c, pid |-> p].pid = p
      BY Zenon
    <3>7. \A i, j \in jobs' : i.cmd = j.cmd => i = j
      <4> HIDE DEF c
      <4> QED
        BY Zenon, <3>1, <3>5, <3>6 DEF Tracked
    <3>8. \A j \in jobs' : j.pid \notin dropped'
      <4> HIDE DEF c
      <4> QED
        BY Zenon, <2>0, <3>1, <3>3, <3>6 DEF Tracked
    <3>9. dropped' \subseteq Children'
      BY Zenon, <2>0, <3>2, <3>3 DEF Tracked, Children
    <3> QED
      BY Zenon, <3>4, <3>7, <3>8, <3>9 DEF Tracked
  <2> QED
    BY Zenon, <1>1, <1>3, <2>0, <2>1 DEF Entry, RunJob
<1>4. ASSUME NEW p \in Pid, JobExit(p) \/ JobStop(p) \/ JobContinue(p)
      PROVE  Tracked'
  <2>1. PICK st \in States : proc' = [proc EXCEPT ![p].st = st]
    BY Zenon, <1>4 DEF JobExit, JobStop, JobContinue, States
  <2>2. jobs' = jobs /\ dropped' = dropped /\ p \in Children
    BY Zenon, <1>4 DEF JobExit, JobStop, JobContinue, Children, Alive, history
  <2>3. proc[p] \in [st : States, cmd : Cmd]
    BY <2>2 DEF Children, NoProc, States, CronTypeOK
  <2>4. \A q \in Pid : /\ q # p => proc'[q] = proc[q]
                       /\ proc'[p].st = st /\ proc'[p].cmd = proc[p].cmd
    BY Zenon, <2>1, <2>3 DEF CronTypeOK
  <2>5. Children' = Children
    BY Zenon, <2>2, <2>4 DEF Children, States
  <2>6. \A q \in Children' : proc'[q].cmd = proc[q].cmd
    BY Zenon, <2>4 DEF Children
  <2> QED
    BY Zenon, <2>2, <2>5, <2>6 DEF Tracked
<1> QED
  BY Zenon, <1>1, <1>2, <1>3, <1>4
  DEF Next, Daemon, Environment, Sleep, WakeUp, Check, Reload, ClearReload, Child, WaitDone,
      ClearChild, PassDone, Hup, Term, Edit, Tick, cronVars, daemon, history

(* The bookkeeping of every reachable state                                   *)
LEMMA AlwaysTracked == Spec => []Tracked
<1>1. Init => Tracked
  BY DEF Init, Tracked, Children, NoProc
<1> QED
  BY <1>1, CronTypes, JobsAreChildren, TrackedStep, PTL DEF Spec

(* jobhead holds exactly the children that have neither ended and been waited  *)
(* for nor been reported as stopped, each under its own command (runjob() and   *)
(* waitjob()).                                                               *)
THEOREM JobheadExact == Spec => []JobsExact
<1>1. CronTypeOK /\ JobsNamed /\ Tracked => JobsExact
  <2> SUFFICES ASSUME CronTypeOK, JobsNamed, Tracked
               PROVE  jobs = {[cmd |-> proc[p].cmd, pid |-> p] : p \in Children \ dropped}
    BY Zenon DEF JobsExact
  <2>1. \A j \in jobs : /\ j.pid \in Children \ dropped
                        /\ j = [cmd |-> proc[j.pid].cmd, pid |-> j.pid]
    BY DEF CronTypeOK, JobsNamed, Children, Tracked
  <2> QED
    BY Zenon, <2>1 DEF Tracked
<1> QED
  BY <1>1, AlwaysTracked, CronTypes, JobsAreChildren, PTL

(* No command that has not been stopped ever runs twice at a time: "if command  *)
(* is already running, skip it".                                              *)
THEOREM NoCommandOverlaps == Spec => []NoOverlap
<1>1. Tracked => NoOverlap
  <2> SUFFICES ASSUME Tracked, NEW p \in Pid \ dropped, NEW q \in Pid \ dropped,
                      Alive(p), Alive(q), proc[p].cmd = proc[q].cmd
               PROVE  p = q
    BY Zenon DEF NoOverlap
  <2> DEFINE jp == [cmd |-> proc[p].cmd, pid |-> p]
  <2> DEFINE jq == [cmd |-> proc[q].cmd, pid |-> q]
  <2>1. jp \in jobs /\ jq \in jobs
    BY Zenon DEF Tracked, Alive, Children
  <2>2. jp.cmd = jq.cmd /\ jp.pid = p /\ jq.pid = q
    BY Zenon
  <2>3. jp = jq
    <3> HIDE DEF jp, jq
    <3> QED
      BY Zenon, <2>1, <2>2 DEF Tracked
  <2> QED
    BY Zenon, <2>2, <2>3
<1> QED
  BY <1>1, AlwaysTracked, PTL

-----------------------------------------------------------------------------
(* The fields of an entry.  Multiples first.                                 *)

(* Division with remainder, as the % of matchentry() leaves it.              *)
LEMMA Remainder ==
  ASSUME NEW n \in Nat \ {0}, NEW x \in Nat
  PROVE  /\ x % n \in 0 .. n - 1
         /\ x \div n \in Int
         /\ x = n * (x \div n) + (x % n)
OBVIOUS

(* A positive multiple of the step is at least the step.                     *)
LEMMA MultipleLarge ==
  ASSUME NEW n \in Nat \ {0}, NEW x \in Nat \ {0}, x % n = 0
  PROVE  x >= n
BY x < n => x % n = x

(* Less than one step after a multiple of the step there is no other.        *)
LEMMA MultiplesApart ==
  ASSUME NEW n \in Nat \ {0}, NEW x \in Nat, NEW s \in 1 .. n - 1, x % n = 0
  PROVE  (x + s) % n # 0
<1> DEFINE y == x + s
           p == x \div n
           q == y \div n
<1>1. SUFFICES ASSUME (x + s) % n = 0 PROVE FALSE
  BY Zenon
<1>2. p \in Int /\ x = n * p
  BY Remainder
<1>3. q \in Int /\ x + s = n * q
  <2>1. y \in Nat /\ y % n = 0
    BY <1>1
  <2> HIDE DEF y
  <2>2. q \in Int /\ y = n * q
    BY <2>1, Remainder
  <2>3. QED
    BY Zenon, <2>2 DEF y
<1> HIDE DEF p, q
<1>4. n * (q - p) = s
  BY <1>2, <1>3
<1>5. CASE q - p <= 0
  <2>1. n * (q - p) <= 0
    BY <1>2, <1>3, <1>5
  <2>2. QED
    BY <1>4, <2>1
<1>6. CASE q - p >= 1
  <2>1. n * (q - p) >= n
    BY <1>2, <1>3, <1>6
  <2>2. QED
    BY <1>4, <2>1
<1>7. QED
  BY <1>2, <1>3, <1>5, <1>6

-----------------------------------------------------------------------------
(* The field and the part of the time it is matched with.                    *)

(* Every month has 28 to 31 days.                                            *)
LEMMA MonthLength ==
  ASSUME NEW m \in 0 .. 11, NEW y \in Nat
  PROVE  daysinmon(m, y) \in 28 .. 31
<1> DEFINE yr == IF y < 1900 THEN y + 1900 ELSE y
           feb == IF isleap(yr) THEN 29 ELSE 28
           days == <<31, feb, 31, 30, 31, 30, 31, 31, 30, 31, 30, 31>>
<1>1. feb \in 28 .. 31
  OBVIOUS
<1> HIDE DEF feb
<1>2. m + 1 \in 1 .. 12
  OBVIOUS
<1>3. \A k \in 1 .. 12 : days[k] \in 28 .. 31
  BY <1>1
<1>4. daysinmon(m, y) = days[m + 1]
  BY Zenon DEF daysinmon, feb
<1>5. QED
  BY Zenon, <1>2, <1>3, <1>4

(* The entry was read without an error, and the part of struct tm is one of  *)
(* its values; the days of a month are those of the month at hand.           *)
TimeInv ==
  /\ field \in Fields /\ tok \in Toks
  /\ Parsed.type # "ERROR"
  /\ year \in Nat /\ mon \in 0 .. 11
  /\ v \in First(field) .. First(field) + len(field) - 1
  /\ since \in 0 .. Cap

(* How many values each part of struct tm has.                               *)
LEMMA Lengths ==
  ASSUME field \in Fields, year \in Nat, mon \in 0 .. 11
  PROVE  /\ len(field) \in 7 .. 60
         /\ field = "mday" => First(field) = 1 /\ len(field) \in 28 .. 31
                                /\ low(field) = 1 /\ high(field) = 31
         /\ field # "mday" => First(field) = 0
         /\ field \notin {"mday", "mon"} =>
              low(field) = 0 /\ high(field) = len(field) - 1
         /\ low(field) \in 0 .. 1 /\ high(field) \in 6 .. 59
<1>1. daysinmon(mon, year) \in 28 .. 31
  BY Zenon, MonthLength
<1>2. CASE field = "min"
  BY <1>2 DEF len, First, low, high
<1>3. CASE field = "hour"
  BY <1>3 DEF len, First, low, high
<1>4. CASE field = "mday"
  BY <1>1, <1>4 DEF len, First, low, high
<1>5. CASE field = "mon"
  BY <1>5 DEF len, First, low, high
<1>6. CASE field = "wday"
  BY SMTT(30), <1>6 DEF len, First, low, high
<1>7. QED
  BY Zenon, <1>2, <1>3, <1>4, <1>5, <1>6 DEF Fields

(* parsefield() accepts five forms, and only numbers within the limits.      *)
LEMMA ParsedMeaning ==
  ASSUME TimeInv
  PROVE  /\ tok.form \in {"*", "step", "number", "range", "list"}
         /\ tok.form = "*" => Parsed.type = "WILDCARD"
         /\ tok.form # "*" =>
              /\ Parsed.val = tok.nums
              /\ tok.nums \in Seq(Int)
              /\ \A k \in DOMAIN tok.nums : tok.nums[k] \in low(field) .. high(field)
         /\ tok.form = "step" =>
              Parsed.type = "REPEAT" /\ tok.nums[1] \in 1 .. high(field)
         /\ tok.form = "number" => Parsed.type = "NUMBER" /\ DOMAIN tok.nums = {1}
         /\ tok.form = "range" => Parsed.type = "RANGE" /\ DOMAIN tok.nums = {1, 2}
         /\ tok.form = "list" => Parsed.type = "LIST"
<1> DEFINE lo == low(field)
           hi == high(field)
<1>1. Parsed = parsefield(tok, lo, hi) /\ Parsed.type # "ERROR"
  BY Zenon DEF Parsed, TimeInv
<1>2. /\ tok.nums \in Seq(Int)
      /\ tok.form \in {"step", "number"} => Len(tok.nums) = 1
      /\ tok.form = "range" => Len(tok.nums) = 2
  BY Zenon, ToksAssumption DEF TimeInv
<1>3. lo \in 0 .. 1 /\ hi \in 6 .. 59
  BY Zenon, Lengths DEF TimeInv
<1> HIDE DEF lo, hi
<1>4. CASE tok.form = "*"
  BY Zenon, <1>1, <1>4 DEF parsefield
<1>5. CASE tok.form # "*"
  <2>1. /\ tok.form \in {"step", "number", "range", "list"}
        /\ ~(tok.form = "step" /\ tok.nums[1] = 0)
        /\ InRange(tok.nums, lo, hi)
    BY Zenon, <1>1, <1>5 DEF parsefield, Error
  <2>2. Parsed = [type |-> CASE tok.form = "step" -> "REPEAT"
                             [] tok.form = "number" -> "NUMBER"
                             [] tok.form = "range" -> "RANGE"
                             [] tok.form = "list" -> "LIST",
                  val |-> tok.nums]
    BY Zenon, <1>1, <1>5, <2>1 DEF parsefield
  <2>3. \A k \in DOMAIN tok.nums : tok.nums[k] \in lo .. hi
    BY Zenon, <2>1 DEF InRange
  <2>4. DOMAIN tok.nums = 1 .. Len(tok.nums)
    BY <1>2
  <2>5. CASE tok.form = "step"
    <3>1. 1 \in DOMAIN tok.nums
      <4>1. Len(tok.nums) = 1
        BY Zenon, <1>2, <2>5
      <4>2. QED
        BY <2>4, <4>1
    <3>2. tok.nums[1] \in 1 .. hi
      BY <1>3, <2>1, <2>3, <2>5, <3>1
    <3>3. QED
      BY Zenon, <1>2, <2>2, <2>3, <2>5, <3>2 DEF lo, hi
  <2>6. CASE tok.form = "number"
    BY <1>2, <2>2, <2>3, <2>4, <2>6 DEF lo, hi
  <2>7. CASE tok.form = "range"
    <3>1. Len(tok.nums) = 2
      BY Zenon, <1>2, <2>7
    <3>2. DOMAIN tok.nums = {1, 2}
      BY <2>4, <3>1
    <3>3. QED
      BY Zenon, <1>2, <2>2, <2>3, <2>7, <3>2 DEF lo, hi
  <2>8. CASE tok.form = "list"
    BY Zenon, <1>2, <2>2, <2>3, <2>8 DEF lo, hi
  <2>9. QED
    BY Zenon, <2>1, <2>5, <2>6, <2>7, <2>8
<1>6. QED
  BY Zenon, <1>4, <1>5

(* The time starts at the first value of the field.                          *)
LEMMA TimeInit == MatchInit => TimeInv
<1> SUFFICES ASSUME MatchInit PROVE TimeInv
  OBVIOUS
<1>1. field \in Fields /\ year \in Nat /\ mon \in 0 .. 11
  BY YearsAssumption DEF MatchInit
<1>2. len(field) \in 7 .. 60 /\ First(field) \in 0 .. 1
  BY <1>1, Lengths
<1>3. QED
  BY <1>1, <1>2 DEF MatchInit, TimeInv, Cap

(* The time goes through the values of the field and starts again; the       *)
(* length only changes where a month ends.                                   *)
LEMMA TimeNext == TimeInv /\ [Advance]_matchVars => TimeInv'
<1> SUFFICES ASSUME TimeInv, [Advance]_matchVars PROVE TimeInv'
  BY Zenon
<1>1. CASE UNCHANGED matchVars
  BY Zenon, <1>1 DEF TimeInv, matchVars, Parsed, len
<1>2. CASE Advance
  <2>1. field' = field /\ tok' = tok /\ year' = year
    BY Zenon, <1>2 DEF Advance
  <2>2. Parsed' = Parsed
    BY Zenon, <2>1 DEF Parsed
  <2>3. mon' \in 0 .. 11
    BY <1>2 DEF Advance, TimeInv
  <2>4. len(field) \in 7 .. 60 /\ First(field) \in 0 .. 1
    BY Lengths DEF TimeInv
  <2>5. len(field)' \in 7 .. 60
    <3>1. daysinmon(mon, year)' \in 28 .. 31
      BY Zenon, <2>1, <2>3, MonthLength DEF TimeInv
    <3>2. CASE field = "mday"
      BY <2>1, <3>1, <3>2 DEF len
    <3>3. CASE field # "mday"
      <4>1. len(field)' = len(field)
        BY Zenon, <2>1, <3>3 DEF len, TimeInv, Fields
      <4>2. QED
        BY Zenon, <2>4, <4>1
    <3>4. QED
      BY Zenon, <3>2, <3>3
  <2>6. First(field)' = First(field)
    BY Zenon, <2>1 DEF First
  <2>7. v' \in First(field)' .. First(field)' + len(field)' - 1
    <3> DEFINE last == First(field) + len(field) - 1
    <3>1. CASE v < last /\ v' = v + 1 /\ UNCHANGED mon
      <4>1. len(field)' = len(field)
        BY Zenon, <2>1, <3>1 DEF len
      <4>2. QED
        BY <2>4, <2>6, <3>1, <4>1 DEF TimeInv
    <3>2. CASE v = last /\ v' = First(field)
      BY <2>4, <2>5, <2>6, <3>2
    <3>3. QED
      BY Zenon, <1>2, <3>1, <3>2 DEF Advance
  <2>8. since' \in 0 .. Cap
    BY <1>2 DEF Advance, TimeInv, Cap
  <2>9. QED
    BY Zenon, <2>1, <2>2, <2>3, <2>7, <2>8 DEF TimeInv
<1>3. QED
  BY Zenon, <1>1, <1>2

(* The time stays one that struct tm has.                                    *)
LEMMA TimeInvariance == MatchSpec => []TimeInv
BY TimeInit, TimeNext, PTL DEF MatchSpec

(* Minutes, hours, days and weekdays match exactly the values the field      *)
(* denotes, for every number, range and list that parsefield() accepts.      *)
THEOREM MatchesWhatItDenotes == MatchSpec => []MatchMeaning
<1>1. TimeInv => MatchMeaning
  <2> SUFFICES ASSUME TimeInv, field # "mon", tok.form # "step"
               PROVE  Due <=> v \in Denotes(tok, low(field), high(field))
    BY Zenon DEF MatchMeaning
  <2> DEFINE lo == low(field)
             hi == high(field)
  <2>1. v \in lo .. hi /\ v \in Int
    <3>1. CASE field = "mday"
      BY <3>1, Lengths DEF TimeInv
    <3>2. CASE field # "mday"
      BY <3>2, Lengths DEF TimeInv
    <3>3. QED
      BY Zenon, <3>1, <3>2
  <2>2. Due <=> matchentry(Parsed, v, len(field))
    BY Zenon DEF Due
  <2> HIDE DEF lo, hi
  <2>3. CASE tok.form = "*"
    <3>1. Denotes(tok, lo, hi) = lo .. hi
      BY Zenon, <2>3 DEF Denotes
    <3>2. Due
      BY Zenon, <2>2, <2>3, ParsedMeaning DEF matchentry
    <3>3. QED
      BY Zenon, <2>1, <3>1, <3>2 DEF lo, hi
  <2>4. CASE tok.form = "number"
    <3>1. Denotes(tok, lo, hi) = {tok.nums[k] : k \in DOMAIN tok.nums}
      BY Zenon, <2>4 DEF Denotes
    <3>2. Parsed.type = "NUMBER" /\ Parsed.val = tok.nums /\ DOMAIN tok.nums = {1}
      BY Zenon, <2>4, ParsedMeaning
    <3>3. Due <=> tok.nums[1] = v
      BY Zenon, <2>2, <3>2 DEF matchentry
    <3>4. QED
      BY Zenon, <3>1, <3>2, <3>3 DEF lo, hi
  <2>5. CASE tok.form = "range"
    <3>1. Denotes(tok, lo, hi) = tok.nums[1] .. tok.nums[2]
      BY Zenon, <2>5 DEF Denotes
    <3>2. /\ Parsed.type = "RANGE" /\ Parsed.val = tok.nums
          /\ tok.nums[1] \in Int /\ tok.nums[2] \in Int
      BY <2>5, ParsedMeaning
    <3>3. Due <=> tok.nums[1] <= v /\ v <= tok.nums[2]
      BY Zenon, <2>2, <3>2 DEF matchentry, MatchRange
    <3>4. QED
      BY <2>1, <3>1, <3>2, <3>3 DEF lo, hi
  <2>6. CASE tok.form = "list"
    <3>1. Denotes(tok, lo, hi) = {tok.nums[k] : k \in DOMAIN tok.nums}
      BY Zenon, <2>6 DEF Denotes
    <3>2. Parsed.type = "LIST" /\ Parsed.val = tok.nums
      BY Zenon, <2>6, ParsedMeaning
    <3>3. Due <=> \E k \in DOMAIN tok.nums : tok.nums[k] = v
      BY Zenon, <2>2, <3>2 DEF matchentry
    <3>4. QED
      BY Zenon, <3>1, <3>3 DEF lo, hi
  <2>7. QED
    BY Zenon, <2>3, <2>4, <2>5, <2>6, ParsedMeaning
<1>2. QED
  BY <1>1, TimeInvariance, PTL

-----------------------------------------------------------------------------
(* Steps.                                                                    *)

Step == tok.nums[1]

(* As long as fewer units than the step have passed since the last match, it  *)
(* was a multiple of the step: of this round, or of the one before it.  Days  *)
(* start at 1, so that in a new month no day before the step is a multiple;   *)
(* the others start at 0, which counts as the length of the round.            *)
SpacedInv ==
  tok.form = "step" /\ field # "mon" /\ since \in 1 .. Step - 1 =>
    \/ since <= v /\ (v - since) % Step = 0
    \/ field = "mday" /\ v <= since
    \/ /\ field # "mday" /\ v < since
       /\ len(field) + v - since \in Nat
       /\ (len(field) + v - since) % Step = 0

(* What a step is, and when it matches.                                      *)
LEMMA StepMeaning ==
  ASSUME TimeInv, tok.form = "step", field # "mon"
  PROVE  /\ Step \in 1 .. high(field) /\ Step \in Nat \ {0} /\ Step <= 59
         /\ field # "mday" => Step < len(field)
         /\ v \in Nat /\ len(field) \in Nat \ {0} /\ since \in 0 .. Cap
         /\ field = "mday" => v > 0
         /\ Due <=> IF v > 0 THEN v % Step = 0 ELSE len(field) % Step = 0
<1>1. /\ Step \in 1 .. high(field)
      /\ Parsed.type = "REPEAT" /\ Parsed.val = tok.nums
  BY Zenon, ParsedMeaning DEF Step
<1>2. Due <=> IF v > 0 THEN v % Step = 0 ELSE len(field) % Step = 0
  BY Zenon, <1>1 DEF Due, matchentry, MatchRepeat, Step
<1>3. /\ high(field) \in 6 .. 59 /\ len(field) \in 7 .. 60
      /\ field = "mday" => First(field) = 1
      /\ field # "mday" => First(field) = 0 /\ high(field) = len(field) - 1
  BY Zenon, Lengths DEF TimeInv
<1> HIDE DEF Step
<1>4. Step \in Nat \ {0} /\ Step <= 59
  BY <1>1, <1>3
<1>5. field # "mday" => Step < len(field)
  BY <1>1, <1>3
<1>6. v \in Nat /\ len(field) \in Nat \ {0} /\ (field = "mday" => v > 0)
  BY <1>3 DEF TimeInv
<1>7. QED
  BY Zenon, <1>1, <1>2, <1>4, <1>5, <1>6 DEF TimeInv

(* With less than a step passed, the field does not match.                   *)
LEMMA NotDueEarly ==
  ASSUME TimeInv, SpacedInv, tok.form = "step", field # "mon",
         since \in 1 .. Step - 1
  PROVE  ~Due
<1> SUFFICES ASSUME Due PROVE FALSE
  BY Zenon
<1> DEFINE n == Step
           L == len(field)
<1>1. /\ n \in Nat \ {0} /\ v \in Nat /\ L \in Nat \ {0}
      /\ (field = "mday" => v > 0)
      /\ IF v > 0 THEN v % n = 0 ELSE L % n = 0
      /\ since \in 1 .. n - 1
  BY Zenon, StepMeaning
<1>2. \/ since <= v /\ (v - since) % n = 0
      \/ field = "mday" /\ v <= since
      \/ /\ field # "mday" /\ v < since
         /\ L + v - since \in Nat /\ (L + v - since) % n = 0
  BY Zenon DEF SpacedInv
<1> HIDE DEF n, L
<1>3. CASE since <= v /\ (v - since) % n = 0
  <2> DEFINE x == v - since
  <2>1. x \in Nat /\ x % n = 0 /\ x + since = v /\ v % n = 0
    BY <1>1, <1>3
  <2> HIDE DEF x
  <2>2. (x + since) % n # 0
    BY Zenon, <1>1, <2>1, MultiplesApart
  <2>3. QED
    BY Zenon, <2>1, <2>2
<1>4. CASE v > 0 /\ v <= since
  <2>1. v >= n
    BY <1>1, <1>4, MultipleLarge
  <2>2. QED
    BY <1>1, <1>4, <2>1
<1>5. CASE v = 0 /\ L + v - since \in Nat /\ (L + v - since) % n = 0
  <2> DEFINE x == L - since
  <2>1. x \in Nat /\ x % n = 0 /\ x + since = L /\ L % n = 0
    <3>1. L + v - since = x
      BY <1>1, <1>5
    <3>2. QED
      BY <1>1, <1>5, <3>1
  <2> HIDE DEF x
  <2>2. (x + since) % n # 0
    BY Zenon, <1>1, <2>1, MultiplesApart
  <2>3. QED
    BY Zenon, <2>1, <2>2
<1>6. QED
  BY <1>1, <1>2, <1>3, <1>4, <1>5

(* A match, or one more unit, keeps the distance to the last match right.     *)
LEMMA SpacedNext == TimeInv /\ SpacedInv /\ [Advance]_matchVars => SpacedInv'
<1> SUFFICES ASSUME TimeInv, SpacedInv, [Advance]_matchVars PROVE SpacedInv'
  BY Zenon
<1>1. CASE UNCHANGED matchVars
  BY Zenon, <1>1 DEF SpacedInv, matchVars, Step, len
<1>2. CASE Advance
  <2>1. field' = field /\ tok' = tok /\ year' = year /\ Step' = Step
    BY Zenon, <1>2 DEF Advance, Step
  <2>2. SUFFICES ASSUME tok.form = "step", field # "mon", since' \in 1 .. Step - 1
                 PROVE \/ since' <= v' /\ (v' - since') % Step = 0
                       \/ field = "mday" /\ v' <= since'
                       \/ /\ field # "mday" /\ v' < since'
                          /\ len(field)' + v' - since' \in Nat
                          /\ (len(field)' + v' - since') % Step = 0
    BY Zenon, <2>1 DEF SpacedInv
  <2> DEFINE n == Step
             L == len(field)
  <2>3. /\ n \in Nat \ {0} /\ n <= 59 /\ v \in Nat /\ L \in Nat \ {0}
        /\ since \in 0 .. Cap
        /\ (field = "mday" => v > 0)
        /\ (field # "mday" => n < L)
        /\ Due <=> IF v > 0 THEN v % n = 0 ELSE L % n = 0
    BY Zenon, <2>2, StepMeaning
  <2>4. field # "mday" => len(field)' = L
    BY Zenon, <2>1 DEF len, TimeInv, Fields
  <2>5. \/ v' = v + 1
        \/ field = "mday" /\ v' = 1
        \/ field # "mday" /\ v = L - 1 /\ v' = 0
    <3>1. First(field) = IF field = "mday" THEN 1 ELSE 0
      BY Zenon DEF First
    <3>2. QED
      BY <1>2, <2>3, <3>1 DEF Advance
  <2>6. since' = IF Due THEN 1 ELSE IF since \in 1 .. Cap - 1 THEN since + 1 ELSE since
    BY Zenon, <1>2 DEF Advance
  <2>7. SUFFICES \/ since' <= v' /\ (v' - since') % n = 0
                 \/ field = "mday" /\ v' <= since'
                 \/ /\ field # "mday" /\ v' < since'
                    /\ L + v' - since' \in Nat
                    /\ (L + v' - since') % n = 0
    BY Zenon, <2>4
  <2>8. since' \in 1 .. n - 1
    BY Zenon, <2>2
  <2>9. field = "mday" /\ v' = 1 => v' <= since'
    BY <2>8
  <2>10. CASE Due
    <3>1. since' = 1
      BY Zenon, <2>6, <2>10
    <3>2. v % n = 0
      <4>1. 0 % n = 0
        BY <2>3
      <4>2. QED
        BY <2>3, <2>10, <4>1
    <3> HIDE DEF n, L
    <3>3. CASE v' = v + 1
      <4>1. v' - since' = v /\ since' <= v'
        BY <2>3, <3>1, <3>3
      <4>2. QED
        BY Zenon, <3>2, <4>1
    <3>4. CASE field # "mday" /\ v = L - 1 /\ v' = 0
      <4>1. L + v' - since' = v /\ v' < since'
        BY <2>3, <3>1, <3>4
      <4>2. QED
        BY Zenon, <2>3, <3>2, <3>4, <4>1
    <3>5. QED
      BY Zenon, <2>5, <2>9, <3>3, <3>4
  <2>11. CASE ~Due
    <3>1. since \in 1 .. n - 1 /\ since' = since + 1
      BY <2>3, <2>6, <2>8, <2>11 DEF Cap
    <3>2. \/ since <= v /\ (v - since) % n = 0
          \/ field = "mday" /\ v <= since
          \/ /\ field # "mday" /\ v < since
             /\ L + v - since \in Nat /\ (L + v - since) % n = 0
      BY Zenon, <2>2, <3>1 DEF SpacedInv
    <3> HIDE DEF n, L
    <3>3. CASE v' = v + 1
      <4>1. v' - since' = v - since /\ L + v' - since' = L + v - since
        BY <2>3, <3>1, <3>3
      <4>2. /\ (since <= v => since' <= v') /\ (v <= since => v' <= since')
            /\ (v < since => v' < since')
        BY <2>3, <3>1, <3>3
      <4>3. QED
        BY Zenon, <3>2, <4>1, <4>2
    <3>4. CASE field # "mday" /\ v = L - 1 /\ v' = 0
      <4>1. since <= v
        BY <2>3, <3>1, <3>4
      <4>2. (v - since) % n = 0
        BY <2>3, <3>1, <3>2, <3>4, <4>1
      <4>3. L + v' - since' = v - since /\ v - since \in Nat /\ v' < since'
        BY <2>3, <3>1, <3>4, <4>1
      <4>4. QED
        BY Zenon, <3>4, <4>2, <4>3
    <3>5. QED
      BY <2>5, <2>9, <3>3, <3>4
  <2>12. QED
    BY Zenon, <2>10, <2>11
<1>3. QED
  BY Zenon, <1>1, <1>2

(* Between two matches of a field with a step of n there are at least n       *)
(* units, for every step parsefield() accepts, across the end of the hour,    *)
(* the day, the week and every month of every year.                           *)
THEOREM StepsSpaced == MatchSpec => []RepeatSpaced
<1>1. MatchInit => SpacedInv
  BY DEF MatchInit, SpacedInv
<1>2. TimeInv /\ SpacedInv => RepeatSpaced
  <2> SUFFICES ASSUME TimeInv, SpacedInv, tok.form = "step", field # "mon", Due, since > 0
               PROVE  since >= Step
    BY Zenon DEF RepeatSpaced, Step
  <2>1. since \in Nat /\ Step \in Nat
    BY StepMeaning DEF Cap
  <2>2. since \notin 1 .. Step - 1
    BY Zenon, NotDueEarly
  <2>3. QED
    BY <2>1, <2>2
<1>3. QED
  BY <1>1, <1>2, SpacedNext, TimeInvariance, PTL DEF MatchSpec

=============================================================================
