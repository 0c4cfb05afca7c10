-------------------------------- MODULE Sdhcp -------------------------------
(***************************************************************************)
(* The DHCP client of cmd/net/sdhcp.c: run()'s state machine over dhcprecv()  *)
(* with its three timers, for the clients of one network segment and the      *)
(* servers on it.  Clients set F_BROADCAST, so that an answer of a server     *)
(* reaches every client; none of them looks at xid or chaddr.                 *)
(*                                                                          *)
(* What a client does from one dhcprecv() to the next is one action.  A timer *)
(* counts ticks down to 0 and stays there, readable, until it is read.        *)
(***************************************************************************)
EXTENDS Integers, FiniteSets

CONSTANTS
  Clients, Servers,
  Addr, Owner,           \* the addresses and the server that owns each
  None,
  Discover,              \* the timeout in Selecting
  FirstTry, LastTry,     \* timeouts of Requesting, doubled from try to try
  MinRetry,              \* least timeout in Renewing and Rebinding
  T1, T2, Lease,         \* the times a server grants
  Optional, Unset,       \* whether it leaves T1 and T2 out; what the client then reads
  Late,                  \* whether time passes while packets or timers wait, and
                         \* packets are duplicated
  MaxFaults              \* bound: packets lost and leases refused without need

ASSUME SdhcpAssumption ==
  /\ Owner \in [Addr -> Servers] /\ None \notin Addr \cup Servers \cup Clients
  /\ {Discover, FirstTry, LastTry, MinRetry, T1, T2, Lease} \subseteq Nat \ {0}
  /\ Unset \subseteq Nat /\ MaxFaults \in Nat
  /\ Optional \in BOOLEAN /\ Late \in BOOLEAN

VARIABLES
  pc,               \* the label of run() whose dhcprecv() the client waits in
  client, server,   \* address and server of the last offer taken
  t,                \* the timeout of the current try in Requesting
  timer, forked,
  ip,               \* the address setip() has given to the interface
  toServer, toClient,
  lease,            \* of the servers: who holds an address, and for how long
  faults

local == <<pc, client, server, t, timer, forked, ip>>
sdhcpVars == <<local, toServer, toClient, lease, faults>>

Off == -1

Holding == {"Bound", "Renewing", "Rebinding"}

Free == [who |-> None, left |-> 0]

ToServer(c, type, dsts) ==
  {[src |-> c, dst |-> s, type |-> type, addr |-> client'[c], sid |-> server'[c]] : s \in dsts}

(* dhcpsend(); BROADCAST reaches every server, UNICAST the one of the offer   *)
dhcpsend(c, type, dsts) == toServer' = toServer \cup ToServer(c, type, dsts)

Unicast(c) == Servers \cap {server'[c]}

Init ==
  /\ pc = [c \in Clients |-> "Selecting"]
  /\ client = [c \in Clients |-> None] /\ server = [c \in Clients |-> None]
  /\ t = [c \in Clients |-> FirstTry]
  /\ timer = [c \in Clients |-> [i \in 0 .. 2 |-> IF i = 0 THEN Discover ELSE Off]]
  /\ forked = [c \in Clients |-> FALSE]
  /\ ip = [c \in Clients |-> None]
  /\ toServer = {[src |-> c, dst |-> s, type |-> "DISCOVER", addr |-> None, sid |-> None] :
                   c \in Clients, s \in Servers}
  /\ toClient = {}
  /\ lease = [a \in Addr |-> Free]
  /\ faults = 0

-----------------------------------------------------------------------------
(* The labels of run().  tm is what reading timers has left of them.          *)

Goto(c, label) == pc' = [pc EXCEPT ![c] = label]

SetTimer(c, tm) == timer' = [timer EXCEPT ![c] = tm]

GotoInit(c, tm) ==
  /\ Goto(c, "Selecting")
  /\ SetTimer(c, [tm EXCEPT ![0] = Discover])
  /\ UNCHANGED <<client, server, t, forked, ip>>
  /\ dhcpsend(c, "DISCOVER", Servers)

Mut_NoTimeout(c, n, tm) ==
  /\ Goto(c, "Requesting")
  /\ t' = [t EXCEPT ![c] = n]
  /\ SetTimer(c, tm)
  /\ UNCHANGED <<forked, ip>>
  /\ dhcpsend(c, "REQUEST", Servers)

(* One try of the loop over t                                                *)
Try(c, n, tm) ==
  /\ Goto(c, "Requesting")
  /\ t' = [t EXCEPT ![c] = n]
  /\ SetTimer(c, [tm EXCEPT ![0] = n])
  /\ UNCHANGED <<forked, ip>>
  /\ dhcpsend(c, "REQUEST", Servers)

(* settimeout(): a time of 0 disarms the timer                               *)
Armed(n) == IF n = 0 THEN Off ELSE n

Mut_Swapped(tm, t1, t2) ==
  [tm EXCEPT ![0] = Armed(Lease), ![1] = Armed(t2), ![2] = Armed(t1)]

BoundTimers(tm, t1, t2) ==
  [tm EXCEPT ![0] = Armed(t1), ![1] = Armed(t2), ![2] = Armed(Lease)]

(* acceptlease(), the fork of the first lease, and the times of the ACK in bp. *)
(* renewaltime and rebindingtime are not initialised where it has none.       *)
GotoBound(c, tm) ==
  \E t1 \in IF Optional THEN Unset ELSE {T1}, t2 \in IF Optional THEN Unset ELSE {T2} :
    /\ Goto(c, "Bound")
    /\ SetTimer(c, BoundTimers(tm, t1, t2))
    /\ ip' = [ip EXCEPT ![c] = client[c]]
    /\ forked' = [forked EXCEPT ![c] = TRUE]
    /\ UNCHANGED <<client, server, t, toServer>>

(* Half of what is left of timer i, at least MinRetry                        *)
calctimeout(tm, i) ==
  LET left == IF tm[i] > 0 THEN tm[i] ELSE 0
  IN  {IF h < MinRetry THEN MinRetry ELSE h : h \in {left \div 2, (left + 1) \div 2}}

GotoRenewing(c, tm) ==
  \E h \in calctimeout(tm, 1) :
    /\ Goto(c, "Renewing")
    /\ SetTimer(c, [tm EXCEPT ![0] = h])
    /\ UNCHANGED <<client, server, t, forked, ip>>
    /\ dhcpsend(c, "REQUEST", Unicast(c))

GotoRebinding(c, tm) ==
  \E h \in calctimeout(tm, 2) :
    /\ Goto(c, "Rebinding")
    /\ SetTimer(c, [tm EXCEPT ![0] = h])
    /\ UNCHANGED <<client, server, t, forked, ip>>
    /\ dhcpsend(c, "REQUEST", Servers)

Ignore(c, tm) ==
  /\ SetTimer(c, tm)
  /\ UNCHANGED <<pc, client, server, t, forked, ip, toServer>>

-----------------------------------------------------------------------------
(* dhcprecv() returns a packet, ...                                          *)

Receive(c, m) ==
  /\ m \in toClient /\ m.dst = c /\ pc[c] # "exit"
  /\ toClient' = toClient \ {m} \/ (Late /\ toClient' = toClient)
  /\ UNCHANGED <<lease, faults>>

Mut_AnyOffer(c, m) ==
  /\ pc[c] \in {"Selecting", "Requesting"} /\ m.type = "OFFER"
  /\ Receive(c, m)
  /\ client' = [client EXCEPT ![c] = m.yiaddr]
  /\ server' = [server EXCEPT ![c] = m.sid]
  /\ Try(c, FirstTry, timer[c])

TakeOffer(c, m) ==
  /\ pc[c] = "Selecting" /\ m.type = "OFFER"
  /\ Receive(c, m)
  /\ client' = [client EXCEPT ![c] = m.yiaddr]
  /\ server' = [server EXCEPT ![c] = m.sid]
  /\ Try(c, FirstTry, timer[c])

TakeAck(c, m) ==
  /\ pc[c] \in {"Requesting", "Renewing", "Rebinding"} /\ m.type = "ACK"
  /\ Receive(c, m)
  /\ GotoBound(c, timer[c])

TakeNak(c, m) ==
  /\ pc[c] \in {"Requesting", "Renewing", "Rebinding"} /\ m.type = "NAK"
  /\ Receive(c, m)
  /\ GotoInit(c, timer[c])

IgnorePacket(c, m) ==
  /\ \/ pc[c] = "Selecting" /\ m.type # "OFFER"
     \/ pc[c] \in {"Requesting", "Renewing", "Rebinding"} /\ m.type = "OFFER"
     \/ pc[c] = "Bound"
  /\ Receive(c, m)
  /\ Ignore(c, timer[c])

(* ... or reads all the timers that have expired and returns the last one.    *)
Expired(c) == {i \in 0 .. 2 : timer[c][i] = 0}

Read(c) == [i \in 0 .. 2 |-> IF timer[c][i] = 0 THEN Off ELSE timer[c][i]]

Mut_FirstExpired(c) == CHOOSE i \in Expired(c) : \A j \in Expired(c) : i <= j

Returned(c) == CHOOSE i \in Expired(c) : \A j \in Expired(c) : j <= i

(* t *= 2                                                                    *)
NextTry(c) ==
  \/ 2 * t[c] <= LastTry /\ UNCHANGED <<client, server>> /\ Try(c, 2 * t[c], Read(c))
  \/ 2 * t[c] > LastTry /\ GotoInit(c, Read(c))

(* The timeouts that the switch of a label has no case for                   *)
NoCase(label, i) ==
  \/ label \in {"Selecting", "Requesting"} /\ i # 0
  \/ label = "Rebinding" /\ i = 1

Timeout(c) ==
  /\ pc[c] # "exit" /\ Expired(c) # {}
  /\ LET i == Returned(c) IN
     \/ pc[c] = "Selecting" /\ i = 0 /\ GotoInit(c, Read(c))
     \/ pc[c] = "Requesting" /\ i = 0 /\ NextTry(c)
     \/ pc[c] \in {"Bound", "Renewing"} /\ i = 0 /\ GotoRenewing(c, Read(c))
     \/ pc[c] \in {"Bound", "Renewing"} /\ i = 1 /\ GotoRebinding(c, Read(c))
     \/ pc[c] = "Rebinding" /\ i = 0 /\ GotoRebinding(c, Read(c))
     \/ pc[c] \in Holding /\ i = 2 /\ GotoInit(c, Read(c))
     \/ NoCase(pc[c], i) /\ Ignore(c, Read(c))
  /\ UNCHANGED <<toClient, lease, faults>>

(* cleanexit()                                                               *)
Terminate(c) ==
  /\ pc[c] # "exit"
  /\ Goto(c, "exit")
  /\ UNCHANGED <<client, server, t, timer, forked, ip, toClient, lease, faults>>
  /\ dhcpsend(c, "RELEASE", Unicast(c))

-----------------------------------------------------------------------------
(* The servers, as RFC 2131 has them; an answer is broadcast.                 *)

Answer(type, a, s) ==
  toClient' = toClient \cup
    {[dst |-> d, type |-> type, yiaddr |-> a, sid |-> s] : d \in {e \in Clients : pc[e] # "exit"}}

Serve(m) ==
  /\ m \in toServer
  /\ toServer' = toServer \ {m} \/ (Late /\ toServer' = toServer)
  /\ UNCHANGED local

(* An address that c may have from s: its own, or a free one                  *)
Available(c, s) ==
  LET own == {a \in Addr : Owner[a] = s /\ lease[a].who = c}
  IN  IF own # {} THEN own ELSE {a \in Addr : Owner[a] = s /\ lease[a].who = None}

Offer(m) ==
  /\ m.type = "DISCOVER"
  /\ Serve(m)
  /\ \/ \E a \in Available(m.src, m.dst) : Answer("OFFER", a, m.dst)
     \/ Available(m.src, m.dst) = {} /\ UNCHANGED toClient
  /\ UNCHANGED <<lease, faults>>

Grant(m) ==
  /\ m.type = "REQUEST" /\ m.sid = m.dst /\ lease[m.addr].who \in {None, m.src}
  /\ Serve(m)
  /\ lease' = [lease EXCEPT ![m.addr] = [who |-> m.src, left |-> Lease]]
  /\ Answer("ACK", m.addr, m.dst)
  /\ UNCHANGED faults

(* The address is another client's, or the server has its reasons.            *)
Refuse(m) ==
  /\ m.type = "REQUEST" /\ m.sid = m.dst
  /\ \/ lease[m.addr].who \notin {None, m.src} /\ UNCHANGED faults
     \/ lease[m.addr].who \in {None, m.src} /\ faults < MaxFaults /\ faults' = faults + 1
  /\ Serve(m)
  /\ Answer("NAK", None, m.dst)
  /\ UNCHANGED lease

(* A request that another server was chosen for, a release                   *)
Note(m) ==
  /\ \/ m.type = "REQUEST" /\ m.sid # m.dst /\ UNCHANGED lease
     \/ /\ m.type = "RELEASE"
        /\ lease' = [a \in Addr |-> IF a = m.addr /\ lease[a].who = m.src THEN Free ELSE lease[a]]
  /\ Serve(m)
  /\ UNCHANGED <<toClient, faults>>

(* The network loses a packet.                                               *)
Lose ==
  /\ faults < MaxFaults /\ faults' = faults + 1
  /\ \/ \E m \in toServer : toServer' = toServer \ {m} /\ UNCHANGED toClient
     \/ \E m \in toClient : toClient' = toClient \ {m} /\ UNCHANGED toServer
  /\ UNCHANGED <<local, lease>>

Down(n) == IF n > 0 THEN n - 1 ELSE n

Waiting == \E c \in Clients : pc[c] # "exit" /\ Expired(c) # {}

(* Without Late packets are delivered or lost, and expired timers seen, before *)
(* the next tick.                                                            *)
Tick ==
  /\ Late \/ (toServer = {} /\ toClient = {} /\ ~Waiting)
  /\ timer' = [c \in Clients |-> [i \in 0 .. 2 |-> Down(timer[c][i])]]
  /\ lease' = [a \in Addr |-> IF lease[a].left <= 1 THEN Free
                              ELSE [lease[a] EXCEPT !.left = @ - 1]]
  /\ UNCHANGED <<pc, client, server, t, forked, ip, toServer, toClient, faults>>

Packet(c) == \E m \in toClient :
  TakeOffer(c, m) \/ TakeAck(c, m) \/ TakeNak(c, m) \/ IgnorePacket(c, m)

Server == \E m \in toServer : Offer(m) \/ Grant(m) \/ Refuse(m) \/ Note(m)

Next ==
  \/ \E c \in Clients : Packet(c) \/ Timeout(c) \/ Terminate(c)
  \/ Server \/ Lose \/ Tick

Spec == Init /\ [][Next]_sdhcpVars

(* Time passes and poll() returns: a client has only finitely many packets      *)
(* between two timers.                                                       *)
SilentSpec == Spec /\ WF_sdhcpVars(Tick) /\ \A c \in Clients : WF_sdhcpVars(Timeout(c))

(* The servers answer, too.                                                  *)
FairSpec ==
  SilentSpec /\ WF_sdhcpVars(Server) /\ \A c \in Clients : WF_sdhcpVars(Packet(c))

-----------------------------------------------------------------------------

(* A client that requests or holds a lease has an address, and timers and leases *)
(* keep their types.                                                         *)
SdhcpTypeOK ==
  /\ pc \in [Clients -> {"Selecting", "Requesting", "exit"} \cup Holding]
  /\ client \in [Clients -> Addr \cup {None}] /\ server \in [Clients -> Servers \cup {None}]
  /\ \A c \in Clients : pc[c] \in {"Requesting"} \cup Holding => client[c] # None
  /\ ip \in [Clients -> Addr \cup {None}]
  /\ timer \in [Clients -> [0 .. 2 -> Nat \cup {Off}]]
  /\ \A a \in Addr : lease[a].left \in 0 .. Lease
  /\ faults \in 0 .. MaxFaults

(* A lease has an end: in every state that holds one a timer that leaves it is  *)
(* running or waits to be read, whatever timers expired together before.       *)
TimersRun ==
  \A c \in Clients :
    /\ pc[c] \in Holding => timer[c][2] # Off
    /\ pc[c] \in {"Bound", "Renewing"} => timer[c][1] # Off
    /\ pc[c] = "Bound" => timer[c][0] # Off

(* Up to its first lease the client is never left without a timeout that makes *)
(* it ask again.                                                             *)
FirstLeaseAlive ==
  \A c \in Clients :
    ~forked[c] => /\ timer[c][1] = Off /\ timer[c][2] = Off
                  /\ pc[c] \in {"Selecting", "Requesting"} => timer[c][0] # Off

(* As long as the client's lease timer runs, the server holds the address for  *)
(* it, and at least as long: when no ACK is late, since the client counts      *)
(* from its arrival and the server from its sending.                          *)
LeaseCovered ==
  \A c \in Clients : pc[c] \in Holding /\ timer[c][2] > 0 =>
    lease[client[c]].who = c /\ lease[client[c]].left >= timer[c][2]

(* "t1: enter renewing", "t2: enter rebinding": a lease is not given up before  *)
(* a renewal has been tried.                                                 *)
TriesBeforeLosing ==
  [][\A c \in Clients : pc[c] = "Bound" => pc'[c] # "Selecting"]_sdhcpVars

(* A renewal comes to an end, with or without an answer: the lease is renewed    *)
(* or, when its timer says so, given up.                                      *)
RenewalSettles ==
  \A c \in Clients : (pc[c] \in {"Renewing", "Rebinding"}) ~> (pc[c] \notin {"Renewing", "Rebinding"})

(* "obtain an IPv4 lease via DHCP": with finitely many faults the first lease   *)
(* is obtained.                                                              *)
Acquires == \A c \in Clients : <>(pc[c] \in {"Bound", "exit"})

(* "block on poll; return DHCP message type or a TIMEOUT* sentinel": a client   *)
(* without a lease always has a timeout coming that makes it ask again.        *)
NeverDeaf ==
  \A c \in Clients : pc[c] \in {"Selecting", "Requesting"} => timer[c][0] # Off

(* "lease expired": the interface has an address only as long as the server     *)
(* holds it for the client.                                                  *)
AddressUnderLease ==
  \A c \in Clients : ip[c] # None /\ pc[c] \notin Holding \cup {"exit"} => lease[ip[c]].who = c

(* "obtain an IPv4 lease": no two clients hold the same address.              *)
NoSharedAddress ==
  \A c, d \in Clients :
    c # d /\ pc[c] \in Holding /\ pc[d] \in Holding => client[c] # client[d]
=============================================================================
