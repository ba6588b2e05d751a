----------------------------- MODULE RelayProofs -----------------------------
(***************************************************************************)
(* The relay's forwarding core for every number of connections, devices,   *)
(* flows and packets and every capacity.                                   *)
(***************************************************************************)
EXTENDS Relay, Lemmas, SequenceTheorems, TLAPS

Places == {"idle", "route", "try", "push", "after", "udp", "udpWait",
           "icmp", "icmpWait"}
ReaderState == [at : Places, pkt : Packet \cup {None}, snap : Seq(Conn),
                to : Conn \cup {None}, fallback : Conn \cup {None}, bound : BOOLEAN]

Types ==
    /\ state \in [Conn -> {"new", "registered", "gone"}]
    /\ closed \in [Conn -> BOOLEAN]
    /\ vipMap \in [Device -> Seq(Conn)]
    /\ queue \in [Conn -> Seq(Packet)]
    /\ \A c \in Conn : Len(queue[c]) <= Cap
    /\ tcpFlows \in [TcpFlow -> Conn \cup {None}]
    /\ reader \in [Conn -> ReaderState]
    /\ sent \in [Flow -> 0..MaxPacket]
    /\ arrived \in [Flow -> Seq(Nat)]
    /\ finished \subseteq TcpFlow

\* A reader at work has a packet it carries, and a target where it needs one.
Works(r) ==
    LET w == reader[r] IN
    /\ w.at # "idle" => w.pkt \in Packet /\ w.pkt.flow \in Carries[r]
    /\ w.at \in {"route", "try", "push", "after"} => w.pkt.flow \in TcpFlow
    /\ w.at \in {"udp", "udpWait", "icmp", "icmpWait"} => w.pkt.flow \notin TcpFlow
    /\ w.at \in {"try", "push", "after", "udpWait", "icmpWait"} => w.to \in Conn
    /\ w.at = "try" => w.fallback \in Conn

IInv == Types /\ \A r \in Conn : Works(r)

-----------------------------------------------------------------------------
(* Lists.                                                                  *)

\* removeConn takes the first occurrence out.
LEMMA FirstRemoved ==
    ASSUME NEW S, NEW s \in Seq(S), NEW e, NEW i \in 1..Len(s), s[i] = e
    PROVE  \E k \in 1..Len(s) : s[k] = e /\ RemoveFirst(s, e) = RemoveAt(s, k)
<1>. DEFINE I == {j \in 1..Len(s) : s[j] = e}
<1>1. I \in SUBSET (1..Len(s)) /\ I # {} /\ Len(s) \in Nat
  OBVIOUS
<1>2. Min(I) \in I
  BY <1>1, FirstIndex
<1>3. SelectInSeq(s, LAMBDA v : v = e) = Min(I)
  BY <1>1 DEF SelectInSeq
<1>4. RemoveFirst(s, e) = RemoveAt(s, Min(I))
  BY <1>3 DEF RemoveFirst
<1>. QED  BY <1>2, <1>4

\* What remains when one position is taken out.
LEMMA RemainsAt ==
    ASSUME NEW S, NEW s \in Seq(S), NEW k \in 1..Len(s)
    PROVE  LET t == RemoveAt(s, k) IN
           /\ t \in Seq(S)
           /\ Len(t) = Len(s) - 1
           /\ \A i \in 1..Len(t) : t[i] = IF i < k THEN s[i] ELSE s[i + 1]
<1>. DEFINE a == SubSeq(s, 1, k - 1)
            b == SubSeq(s, k + 1, Len(s))
<1>1. Len(s) \in Nat /\ k \in Nat /\ 1 <= k /\ k <= Len(s)
  OBVIOUS
<1>2. /\ a \in Seq(S) /\ Len(a) = k - 1
      /\ \A i \in 1..(k - 1) : a[i] = s[i]
  BY <1>1, SubSeqProperties
<1>3. /\ b \in Seq(S) /\ Len(b) = Len(s) - k
      /\ \A i \in 1..(Len(s) - k) : b[i] = s[k + i]
  BY <1>1, SubSeqProperties
<1>. HIDE DEF a, b
<1>4. /\ a \o b \in Seq(S) /\ Len(a \o b) = Len(a) + Len(b)
      /\ \A i \in 1..(Len(a) + Len(b)) :
           (a \o b)[i] = IF i <= Len(a) THEN a[i] ELSE b[i - Len(a)]
  BY <1>2, <1>3, ConcatProperties
<1>5. Len(a) + Len(b) = Len(s) - 1
  BY <1>1, <1>2, <1>3
<1>6. ASSUME NEW i \in 1..(Len(s) - 1)
      PROVE  (a \o b)[i] = IF i < k THEN s[i] ELSE s[i + 1]
  <2>1. CASE i < k
    <3>1. i <= Len(a) /\ i \in 1..(k - 1)
      BY <1>1, <1>2, <2>1
    <3>. QED  BY <1>2, <1>4, <1>5, <2>1, <3>1
  <2>2. CASE ~ (i < k)
    <3>1. ~ (i <= Len(a)) /\ i - Len(a) \in 1..(Len(s) - k) /\ k + (i - Len(a)) = i + 1
      BY <1>1, <1>2, <2>2
    <3>. QED  BY <1>3, <1>4, <1>5, <2>2, <3>1
  <2>. QED  BY <2>1, <2>2
<1>. QED  BY <1>4, <1>5, <1>6 DEF RemoveAt, a, b

\* The open connections that are chosen are of the snapshot.
LEMMA Chosen ==
    ASSUME IInv, NEW conns \in Seq(Conn)
    PROVE  /\ Primary(conns) \in Conn \cup {None}
           /\ \A p : BestStandby(conns, p) \in Conn \cup {None}
<1>1. Primary(conns) \in Conn \cup {None}
  <2>. DEFINE open == {i \in DOMAIN conns : ~closed[conns[i]]}
  <2>1. open \in SUBSET (1..Len(conns)) /\ Len(conns) \in Nat
    OBVIOUS
  <2>2. CASE open = {}
    BY <2>2 DEF Primary
  <2>3. CASE open # {}
    <3>1. \A i, j \in open : (i <= j) <=> (i =< j)
      OBVIOUS
    <3>2. Min(open) = CHOOSE i \in open : \A j \in open : i <= j
      BY DEF Min
    <3>3. Min(open) \in open
      BY <2>1, <2>3, FirstIndex
    <3>4. Primary(conns) = conns[Min(open)]
      BY <2>3, <3>2 DEF Primary
    <3>. QED  BY <2>1, <3>3, <3>4
  <2>. QED  BY <2>2, <2>3
<1>2. ASSUME NEW p
      PROVE  BestStandby(conns, p) \in Conn \cup {None}
  <2>. DEFINE open == {i \in DOMAIN conns : ~closed[conns[i]] /\ conns[i] # p}
              best == {i \in open : \A j \in open :
                         Len(queue[conns[i]]) <= Len(queue[conns[j]])}
  <2>1. open \in SUBSET (1..Len(conns)) /\ Len(conns) \in Nat
    OBVIOUS
  <2>2. CASE open = {}
    BY <2>2 DEF BestStandby
  <2>3. CASE open # {}
    <3>1. best # {}
      <4>1. \A i \in open : Len(queue[conns[i]]) \in Nat
        BY <2>1 DEF IInv, Types
      <4>. DEFINE f == [i \in open |-> queue[conns[i]]]
      <4>2. \A i \in open : Len(f[i]) \in Nat
        BY <4>1
      <4>3. PICK i \in open : \A j \in open : Len(f[i]) <= Len(f[j])
        BY <2>3, <4>2, LeastOf
      <4>. QED  BY <4>3
    <3>2. Min(best) = CHOOSE i \in best : \A j \in best : i <= j
      BY DEF Min
    <3>3. Min(best) \in best
      BY <2>1, <3>1, FirstIndex
    <3>4. BestStandby(conns, p) = conns[Min(best)]
      BY <2>3, <3>2 DEF BestStandby
    <3>. QED  BY <2>1, <3>3, <3>4
  <2>. QED  BY <2>2, <2>3
<1>. QED  BY <1>1, <1>2

-----------------------------------------------------------------------------
(* Types, and what a reader has in hand.                                   *)

\* A reader's next state; the packet and the snapshot stay until it is done.
Moves(r, at, to, bound) ==
    /\ reader' \in [Conn -> ReaderState]
    /\ \A s \in Conn \ {r} : reader'[s] = reader[s]
    /\ reader'[r].at = at
    /\ at # "idle" =>
         /\ reader'[r].to = to /\ reader'[r].bound = bound
         /\ reader'[r].pkt = reader[r].pkt /\ reader'[r].snap = reader[r].snap
    /\ at = "try" => reader'[r].fallback \in Conn

\* A reader goes on with its packet,
LEMMA GoesOn ==
    ASSUME Types, NEW r \in Conn, NEW at \in Places, NEW to \in Conn \cup {None},
           NEW fallback \in Conn \cup {None}, NEW bound \in BOOLEAN,
           at = "try" => fallback \in Conn,
           \/ /\ reader' = [reader EXCEPT ![r].at = at]
              /\ to = reader[r].to /\ bound = reader[r].bound
              /\ fallback = reader[r].fallback
           \/ /\ reader' = [reader EXCEPT ![r].at = at, ![r].to = to]
              /\ bound = reader[r].bound /\ fallback = reader[r].fallback
           \/ /\ reader' = [reader EXCEPT ![r].at = at, ![r].fallback = fallback]
              /\ to = reader[r].to /\ bound = reader[r].bound
           \/ /\ reader' = [reader EXCEPT ![r].at = at, ![r].to = to,
                                          ![r].fallback = fallback]
              /\ bound = reader[r].bound
           \/ reader' = [reader EXCEPT ![r].at = at, ![r].to = to,
                                       ![r].fallback = fallback, ![r].bound = bound]
    PROVE  Moves(r, at, to, bound)
<1>1. reader[r] \in ReaderState /\ reader \in [Conn -> ReaderState]
  BY DEF Types
<1>. DEFINE w == [at |-> at, pkt |-> reader[r].pkt, snap |-> reader[r].snap,
                  to |-> to, fallback |-> fallback, bound |-> bound]
<1>2. /\ w \in ReaderState /\ w.at = at /\ w.to = to /\ w.bound = bound
      /\ w.fallback = fallback
      /\ w.pkt = reader[r].pkt /\ w.snap = reader[r].snap
  BY <1>1 DEF ReaderState
<1>3. reader' = [reader EXCEPT ![r] = w]
  BY <1>1 DEF ReaderState
<1>. HIDE DEF w
<1>. QED  BY <1>1, <1>2, <1>3 DEF Moves

\* or is done with it.
LEMMA Returns ==
    ASSUME Types, NEW r \in Conn, Return(r)
    PROVE  /\ reader' \in [Conn -> ReaderState]
           /\ \A s \in Conn \ {r} : reader'[s] = reader[s]
           /\ reader'[r].at = "idle"
<1>1. Idle \in ReaderState /\ Idle.at = "idle"
  BY DEF Idle, ReaderState, Places
<1>. QED  BY <1>1 DEF Return, Types

\* A packet joins a queue that has room.
LEMMA Joins ==
    ASSUME Types, NEW c \in Conn, NEW pkt \in Packet, HasRoom(c), Enqueue(c, pkt)
    PROVE  /\ queue' \in [Conn -> Seq(Packet)]
           /\ \A d \in Conn \ {c} : queue'[d] = queue[d]
           /\ Len(queue'[c]) = Len(queue[c]) + 1 /\ Len(queue'[c]) <= Cap
           /\ \A i \in 1..Len(queue[c]) : queue'[c][i] = queue[c][i]
           /\ queue'[c][Len(queue[c]) + 1] = pkt
<1>1. queue[c] \in Seq(Packet) /\ Len(queue[c]) \in Nat /\ Cap \in Nat
  BY RelayAssumption DEF Types
<1>2. queue'[c] = Append(queue[c], pkt)
  BY DEF Enqueue, Types
<1>3. /\ Append(queue[c], pkt) \in Seq(Packet)
      /\ Len(Append(queue[c], pkt)) = Len(queue[c]) + 1
      /\ \A i \in 1..Len(queue[c]) : Append(queue[c], pkt)[i] = queue[c][i]
      /\ Append(queue[c], pkt)[Len(queue[c]) + 1] = pkt
  BY <1>1, AppendProperties
<1>4. queue' \in [Conn -> Seq(Packet)] /\ \A d \in Conn \ {c} : queue'[d] = queue[d]
  BY <1>2, <1>3 DEF Enqueue, Types
<1>. QED  BY <1>1, <1>2, <1>3, <1>4 DEF HasRoom

Unbound(f) == Bound(f) = None

\* What the steps of readers do: a reader takes another step with its packet, without queueing it,
Turns(r) ==
    /\ reader[r].at \notin {"idle", "after"}
    /\ UNCHANGED <<registry, queue, sent, arrived, finished>>
    /\ \/ /\ UNCHANGED tcpFlows
          /\ Moves(r, "idle", None, FALSE)
       \/ /\ reader[r].at = "route" /\ UNCHANGED tcpFlows
          /\ \E at \in {"try", "push"}, to \in Conn, bound \in BOOLEAN :
               /\ Moves(r, at, to, bound)
               /\ \/ Unbound(FlowOf(r))
                  \/ at = "push" /\ to = Bound(FlowOf(r))
       \/ /\ reader[r].at = "try" /\ UNCHANGED tcpFlows
          /\ \E to \in Conn, bound \in BOOLEAN : Moves(r, "push", to, bound)
       \/ /\ reader[r].at = "push" /\ closed[reader[r].to]
          /\ \E bound \in BOOLEAN : Moves(r, "route", reader[r].to, bound)
          /\ tcpFlows' \in {tcpFlows, [tcpFlows EXCEPT ![FlowOf(r)] = None]}
       \/ /\ reader[r].at \in {"udp", "icmp", "icmpWait"} /\ UNCHANGED tcpFlows
          /\ \E at \in {"udpWait", "icmp", "icmpWait"}, to \in Conn, bound \in BOOLEAN :
               Moves(r, at, to, bound)

\* or queues it.
Queues(r, c) ==
    /\ c \in Conn /\ HasRoom(c) /\ Enqueue(c, reader[r].pkt)
    /\ \/ reader[r].at \in {"udp", "udpWait", "icmpWait"} /\ Moves(r, "idle", None, FALSE)
       \/ /\ reader[r].at \in {"try", "push"} /\ c = reader[r].to
          /\ \E bound \in BOOLEAN : Moves(r, "after", c, bound)
    /\ UNCHANGED <<registry, tcpFlows, sent, arrived, finished>>

\* boundTCPClient returns the binding, or nothing.
LEMMA BoundIs ==
    ASSUME IInv, NEW f \in TcpFlow
    PROVE  /\ Bound(f) \in Conn \cup {None}
           /\ Bound(f) # None => Bound(f) = tcpFlows[f]
           /\ Unbound(f) <=> tcpFlows[f] = None \/ closed[tcpFlows[f]]
  BY DEF IInv, Types, Bound, Unbound

\* forwardPacket's steps after its snapshot are turns and queueings.
LEMMA ReaderSteps ==
    ASSUME IInv, NEW r \in Conn,
           \/ Route(r) \/ TryStandby(r) \/ Push(r) \/ PushTimeout(r)
           \/ Udp(r) \/ UdpWait(r) \/ Icmp(r) \/ IcmpWait(r)
    PROVE  Turns(r) \/ \E c \in Conn : Queues(r, c)
<1>. DEFINE w == reader[r]
            p == Primary(w.snap)
            s == BestStandby(w.snap, p)
<1>0. /\ w \in ReaderState /\ w.to \in Conn \cup {None} /\ w.bound \in BOOLEAN
      /\ w.fallback \in Conn \cup {None}
      /\ w.snap \in Seq(Conn) /\ w.at \in Places /\ Types
  BY DEF IInv, Types, ReaderState
<1>1. p \in Conn \cup {None} /\ s \in Conn \cup {None}
  BY <1>0, Chosen
<1>3. Return(r) => Moves(r, "idle", None, FALSE)
  BY <1>0, Returns DEF Moves
<1>4. {"idle", "route", "try", "push", "after", "udp", "udpWait", "icmp", "icmpWait"} = Places
  BY DEF Places
<1>. HIDE DEF p, s
<1>5. CASE Route(r)
  <2>1. UNCHANGED <<registry, queue, tcpFlows, sent, arrived, finished>> /\ w.at = "route"
    BY <1>5 DEF Route
  <2>2. FlowOf(r) \in TcpFlow
    BY <2>1 DEF IInv, Works, FlowOf
  <2>3. \/ /\ Bound(FlowOf(r)) # None
           /\ reader' = [reader EXCEPT ![r].at = "push", ![r].to = Bound(FlowOf(r)),
                                       ![r].fallback = None, ![r].bound = TRUE]
        \/ Return(r)
        \/ /\ Unbound(FlowOf(r))
           /\ \E at \in {"try", "push"}, to \in {p, s} \ {None}, other \in {p, None} :
                /\ reader' = [reader EXCEPT ![r].at = at, ![r].to = to,
                                            ![r].fallback = other, ![r].bound = FALSE]
                /\ at = "try" => other # None
    BY <1>5 DEF Route, Unbound, p, s
  <2>4. CASE /\ Bound(FlowOf(r)) # None
             /\ reader' = [reader EXCEPT ![r].at = "push", ![r].to = Bound(FlowOf(r)),
                                         ![r].fallback = None, ![r].bound = TRUE]
    <3>1. Bound(FlowOf(r)) \in Conn /\ Moves(r, "push", Bound(FlowOf(r)), TRUE)
      BY <1>0, GoesOn, <1>4, <2>2, <2>4, BoundIs
    <3>. QED  BY <2>1, <3>1 DEF Turns
  <2>5. CASE Return(r)
    BY <1>3, <2>1, <2>5 DEF Turns
  <2>6. ASSUME Unbound(FlowOf(r)), NEW at \in {"try", "push"}, NEW to \in {p, s} \ {None},
               NEW other \in {p, None}, at = "try" => other # None,
               reader' = [reader EXCEPT ![r].at = at, ![r].to = to,
                                        ![r].fallback = other, ![r].bound = FALSE]
        PROVE  Turns(r)
    <3>1. Moves(r, at, to, FALSE) /\ to \in Conn
      BY <1>0, <1>1, GoesOn, <1>4, <2>6
    <3>. QED  BY <2>1, <2>6, <3>1 DEF Turns
  <2>. QED  BY <2>3, <2>4, <2>5, <2>6
<1>6. CASE TryStandby(r)
  <2>1. UNCHANGED <<registry, tcpFlows, sent, arrived, finished>> /\ w.at = "try"
    BY <1>6 DEF TryStandby
  <2>2. w.to \in Conn /\ w.fallback \in Conn
    BY <2>1 DEF IInv, Works
  <2>3. CASE /\ HasRoom(w.to) /\ Enqueue(w.to, w.pkt)
             /\ reader' = [reader EXCEPT ![r].at = "after", ![r].fallback = None]
    <3>1. Moves(r, "after", w.to, w.bound)
      BY <1>0, GoesOn, <1>4, <2>3
    <3>. QED  BY <1>0, <2>1, <2>2, <2>3, <3>1 DEF Queues
  <2>4. CASE /\ UNCHANGED queue
             /\ reader' = [reader EXCEPT ![r].at = "push", ![r].to = w.fallback,
                                         ![r].fallback = None]
    <3>1. Moves(r, "push", w.fallback, w.bound)
      BY <1>0, GoesOn, <1>4, <2>2, <2>4
    <3>. QED  BY <1>0, <2>1, <2>2, <2>4, <3>1 DEF Turns
  <2>. QED  BY <1>6, <2>3, <2>4 DEF TryStandby
<1>7. CASE Push(r)
  <2>1. UNCHANGED <<registry, sent, arrived, finished>> /\ w.at = "push"
    BY <1>7 DEF Push
  <2>2. w.to \in Conn
    BY <2>1 DEF IInv, Works
  <2>3. CASE /\ HasRoom(w.to) /\ Enqueue(w.to, w.pkt) /\ Goto(r, "after")
             /\ UNCHANGED tcpFlows
    <3>1. Moves(r, "after", w.to, w.bound)
      BY <1>0, GoesOn, <1>4, <2>3 DEF Goto
    <3>. QED  BY <1>0, <2>1, <2>2, <2>3, <3>1 DEF Queues
  <2>4. CASE TargetClosed(r) /\ UNCHANGED queue
    <3>1. Moves(r, "route", w.to, w.bound)
      BY <1>0, GoesOn, <1>4, <2>4 DEF TargetClosed, Goto
    <3>. QED  BY <1>0, <2>1, <2>4, <3>1 DEF Turns, TargetClosed
  <2>5. CASE Return(r) /\ UNCHANGED <<queue, tcpFlows>>
    BY <1>3, <2>1, <2>5 DEF Turns
  <2>. QED  BY <1>7, <2>3, <2>4, <2>5 DEF Push
<1>8. CASE PushTimeout(r)
  BY <1>3, <1>8 DEF PushTimeout, Turns
<1>9. CASE Udp(r)
  <2>1. UNCHANGED <<registry, tcpFlows, sent, arrived, finished>> /\ w.at = "udp"
    BY <1>9 DEF Udp
  <2>2. CASE \E c \in {p, s} \ {None} : HasRoom(c) /\ Enqueue(c, w.pkt) /\ Return(r)
    BY <1>1, <1>3, <2>1, <2>2 DEF Queues
  <2>3. CASE UNCHANGED queue /\ Return(r)
    BY <1>3, <2>1, <2>3 DEF Turns
  <2>4. CASE /\ UNCHANGED queue /\ p # None
             /\ reader' = [reader EXCEPT ![r].at = "udpWait", ![r].to = p]
    <3>1. Moves(r, "udpWait", p, w.bound) /\ p \in Conn
      BY <1>0, <1>1, GoesOn, <1>4, <2>4
    <3>. QED  BY <1>0, <2>1, <2>4, <3>1 DEF Turns
  <2>. QED  BY <1>9, <2>2, <2>3, <2>4 DEF Udp, p, s
<1>10. CASE UdpWait(r)
  <2>1. w.to \in Conn
    BY <1>10 DEF UdpWait, IInv, Works
  <2>. QED  BY <1>3, <1>10, <2>1 DEF UdpWait, Turns, Queues
<1>11. CASE Icmp(r)
  <2>1. UNCHANGED <<registry, queue, tcpFlows, sent, arrived, finished>> /\ w.at = "icmp"
    BY <1>11 DEF Icmp
  <2>2. CASE Return(r)
    BY <1>3, <2>1, <2>2 DEF Turns
  <2>3. CASE p # None /\ reader' = [reader EXCEPT ![r].at = "icmpWait", ![r].to = p]
    <3>1. Moves(r, "icmpWait", p, w.bound) /\ p \in Conn
      BY <1>0, <1>1, GoesOn, <1>4, <2>3
    <3>. QED  BY <1>0, <2>1, <3>1 DEF Turns
  <2>. QED  BY <1>11, <2>2, <2>3 DEF Icmp, p
<1>12. CASE IcmpWait(r)
  <2>1. /\ w.at = "icmpWait" /\ w.to \in Conn
        /\ UNCHANGED <<registry, tcpFlows, sent, arrived, finished>>
    BY <1>12 DEF IcmpWait, IInv, Works
  <2>2. CASE HasRoom(w.to) /\ Enqueue(w.to, w.pkt) /\ Return(r)
    BY <1>3, <2>1, <2>2 DEF Queues
  <2>3. CASE Goto(r, "icmp") /\ UNCHANGED queue
    <3>1. Moves(r, "icmp", w.to, w.bound)
      BY <1>0, GoesOn, <1>4, <2>3 DEF Goto
    <3>. QED  BY <1>0, <2>1, <2>3, <3>1 DEF Turns
  <2>4. CASE Return(r) /\ UNCHANGED queue
    BY <1>3, <2>1, <2>4 DEF Turns
  <2>. QED  BY <1>12, <2>2, <2>3, <2>4 DEF IcmpWait
<1>. QED  BY <1>5, <1>6, <1>7, <1>8, <1>9, <1>10, <1>11, <1>12

\* What the others do: registrations, closes, writers, new packets, expiry.
LEMMA InitInv == Init => IInv
  BY RelayAssumption DEF Init, IInv, Types, Works, Idle, ReaderState, Places

LEMMA TurnsInv ==
    ASSUME IInv, NEW r \in Conn, Turns(r)
    PROVE  IInv'
<1>1. /\ reader' \in [Conn -> ReaderState]
      /\ \A s \in Conn \ {r} : reader'[s] = reader[s]
  BY DEF Turns, Moves
<1>2. tcpFlows' \in [TcpFlow -> Conn \cup {None}]
  BY DEF Turns, IInv, Types
<1>3. Types'
  BY <1>1, <1>2 DEF Turns, IInv, Types, registry
<1>4. Works(r)'
  BY DEF Turns, Moves, IInv, Works
<1>. QED  BY <1>1, <1>3, <1>4 DEF IInv, Works

LEMMA QueuesInv ==
    ASSUME IInv, NEW r \in Conn, NEW c \in Conn, Queues(r, c)
    PROVE  IInv'
<1>1. /\ reader' \in [Conn -> ReaderState]
      /\ \A s \in Conn \ {r} : reader'[s] = reader[s]
      /\ reader[r].pkt \in Packet
  BY DEF Queues, Moves, IInv, Works
<1>2. /\ queue' \in [Conn -> Seq(Packet)]
      /\ \A d \in Conn : Len(queue'[d]) <= Cap
  BY <1>1, Joins DEF Queues, IInv, Types
<1>3. Types'
  BY <1>1, <1>2 DEF Queues, IInv, Types, registry
<1>4. Works(r)'
  BY DEF Queues, Moves, IInv, Works
<1>. QED  BY <1>1, <1>3, <1>4 DEF IInv, Works

LEMMA AfterInv ==
    ASSUME IInv, NEW r \in Conn, After(r)
    PROVE  IInv'
<1>1. reader[r].pkt \in Packet /\ FlowOf(r) \in TcpFlow /\ reader[r].to \in Conn
  BY DEF After, IInv, Works, FlowOf
<1>2. /\ reader' \in [Conn -> ReaderState]
      /\ \A s \in Conn \ {r} : reader'[s] = reader[s]
      /\ reader'[r].at = "idle"
  BY Returns DEF After, IInv
<1>3. tcpFlows' \in [TcpFlow -> Conn \cup {None}] /\ finished' \subseteq TcpFlow
  BY <1>1 DEF After, IInv, Types
<1>4. Types'
  BY <1>2, <1>3 DEF After, IInv, Types, registry
<1>. QED  BY <1>2, <1>4 DEF IInv, Works

\* What has no TCP header goes one of two ways.
LEMMA PlainReads ==
    ASSUME NEW r, NEW f, NEW kind, Read(r, f, kind), f \notin TcpFlow
    PROVE  kind \in {"udp", "icmp"}
  BY DEF Read, PlainKind

LEMMA ReadInv ==
    ASSUME IInv, NEW r \in Conn, NEW f \in Flow, NEW kind \in TcpKind \cup PlainKind,
           Read(r, f, kind)
    PROVE  IInv'
<1>. DEFINE pkt == [flow |-> f, no |-> sent[f] + 1, kind |-> kind]
            w == [Idle EXCEPT !.at = IF f \in TcpFlow THEN "route" ELSE kind,
                              !.pkt = pkt, !.snap = vipMap[Target[f]]]
<1>1. sent[f] + 1 \in 1..MaxPacket /\ MaxPacket \in Nat /\ f \in Carries[r]
  BY RelayAssumption DEF Read, IInv, Types
<1>2. pkt \in Packet /\ pkt.flow = f
  BY <1>1 DEF Packet
<1>3. vipMap[Target[f]] \in Seq(Conn)
  BY RelayAssumption DEF IInv, Types, Flow
<1>. HIDE DEF pkt
<1>4. /\ w \in ReaderState /\ w.pkt = pkt
      /\ w.at \in {"route", "udp", "icmp"}
      /\ (w.at = "route") <=> (f \in TcpFlow)
  BY <1>2, <1>3, PlainReads DEF Idle, ReaderState, Places
<1>5. reader' \in {reader, [reader EXCEPT ![r] = w]}
  BY DEF Read, pkt
<1>. HIDE DEF w
<1>6. sent' \in [Flow -> 0..MaxPacket]
  BY <1>1 DEF Read, IInv, Types
<1>7. Types'
  BY <1>4, <1>5, <1>6 DEF Read, IInv, Types, registry
<1>8. Works(r)'
  <2>1. CASE reader' = reader
    BY <2>1 DEF IInv, Works
  <2>2. CASE reader' = [reader EXCEPT ![r] = w]
    <3>1. reader'[r] = w
      BY <2>2 DEF IInv, Types
    <3>. QED  BY <1>1, <1>2, <1>4, <3>1 DEF Works
  <2>. QED  BY <1>5, <2>1, <2>2
<1>9. \A t \in Conn \ {r} : reader'[t] = reader[t]
  BY <1>5 DEF IInv, Types
<1>. QED  BY <1>7, <1>8, <1>9 DEF IInv, Works

LEMMA ConnectionInv ==
    ASSUME IInv, NEW c \in Conn, Register(c) \/ Close(c) \/ Unregister(c)
    PROVE  IInv'
<1>. DEFINE d == DeviceOf[c]
<1>1. d \in Device /\ vipMap[d] \in Seq(Conn) /\ vipMap \in [Device -> Seq(Conn)]
  BY RelayAssumption DEF IInv, Types
<1>2. vipMap' \in [Device -> Seq(Conn)]
  <2>1. Append(vipMap[d], c) \in Seq(Conn)
    BY <1>1
  <2>2. RemoveFirst(vipMap[d], c) \in Seq(Conn)
    <3>1. CASE \E i \in 1..Len(vipMap[d]) : vipMap[d][i] = c
      <4>1. PICK k \in 1..Len(vipMap[d]) : RemoveFirst(vipMap[d], c) = RemoveAt(vipMap[d], k)
        BY <1>1, <3>1, FirstRemoved
      <4>. QED  BY <1>1, <4>1, RemainsAt
    <3>2. CASE ~ \E i \in 1..Len(vipMap[d]) : vipMap[d][i] = c
      BY <1>1, <3>2 DEF RemoveFirst
    <3>. QED  BY <3>1, <3>2
  <2>. QED  BY <1>1, <2>1, <2>2 DEF Register, Close, Unregister, registry
<1>3. tcpFlows' \in [TcpFlow -> Conn \cup {None}]
  BY DEF Register, Close, Unregister, IInv, Types
<1>4. Types'
  BY <1>2, <1>3 DEF Register, Close, Unregister, IInv, Types
<1>. QED  BY <1>4 DEF Register, Close, Unregister, IInv, Works

\* A packet leaves the head of a queue.
LEMMA Leaves ==
    ASSUME IInv, NEW c \in Conn, Write(c)
    PROVE  LET pkt == Head(queue[c]) IN
           /\ pkt \in Packet /\ pkt = queue[c][1] /\ 1 <= Len(queue[c])
           /\ queue' \in [Conn -> Seq(Packet)]
           /\ \A d \in Conn \ {c} : queue'[d] = queue[d]
           /\ Len(queue'[c]) = Len(queue[c]) - 1
           /\ \A i \in 1..Len(queue'[c]) : queue'[c][i] = queue[c][i + 1]
           /\ arrived' \in [Flow -> Seq(Nat)]
           /\ \A f \in Flow \ {pkt.flow} : arrived'[f] = arrived[f]
           /\ pkt.flow \in Flow
           /\ LET a == arrived[pkt.flow] IN
              /\ Len(arrived'[pkt.flow]) = Len(a) + 1
              /\ \A i \in 1..Len(a) : arrived'[pkt.flow][i] = a[i]
              /\ arrived'[pkt.flow][Len(a) + 1] = pkt.no
<1>. DEFINE pkt == Head(queue[c])
            a == arrived[pkt.flow]
<1>1. queue[c] \in Seq(Packet) /\ queue[c] # <<>>
  BY DEF Write, IInv, Types
<1>2. /\ pkt \in Packet /\ pkt = queue[c][1] /\ 1 <= Len(queue[c])
      /\ Tail(queue[c]) \in Seq(Packet) /\ Len(Tail(queue[c])) = Len(queue[c]) - 1
      /\ \A i \in 1..Len(Tail(queue[c])) : Tail(queue[c])[i] = queue[c][i + 1]
  BY <1>1, HeadTailProperties
<1>3. pkt.flow \in Flow /\ pkt.no \in Nat
  BY <1>2, RelayAssumption DEF Packet
<1>. HIDE DEF pkt
<1>4. a \in Seq(Nat) /\ arrived \in [Flow -> Seq(Nat)]
  BY <1>3 DEF IInv, Types
<1>5. /\ Append(a, pkt.no) \in Seq(Nat) /\ Len(Append(a, pkt.no)) = Len(a) + 1
      /\ \A i \in 1..Len(a) : Append(a, pkt.no)[i] = a[i]
      /\ Append(a, pkt.no)[Len(a) + 1] = pkt.no
  BY <1>3, <1>4, AppendProperties
<1>6. arrived' = [arrived EXCEPT ![pkt.flow] = Append(a, pkt.no)]
  BY DEF Write, pkt
<1>7. queue' = [queue EXCEPT ![c] = Tail(queue[c])] /\ queue \in [Conn -> Seq(Packet)]
  BY DEF Write, IInv, Types
<1>8. arrived'[pkt.flow] = Append(a, pkt.no) /\ arrived' \in [Flow -> Seq(Nat)]
      /\ \A f \in Flow \ {pkt.flow} : arrived'[f] = arrived[f]
  BY <1>3, <1>4, <1>5, <1>6
<1>. QED  BY <1>2, <1>3, <1>5, <1>7, <1>8 DEF pkt

LEMMA WriteInv ==
    ASSUME IInv, NEW c \in Conn, Write(c)
    PROVE  IInv'
<1>1. /\ queue' \in [Conn -> Seq(Packet)] /\ arrived' \in [Flow -> Seq(Nat)]
      /\ \A d \in Conn \ {c} : queue'[d] = queue[d]
      /\ Len(queue'[c]) = Len(queue[c]) - 1 /\ Len(queue[c]) \in Nat
  BY Leaves DEF IInv, Types
<1>2. \A d \in Conn : Len(queue'[d]) <= Cap
  <2>1. Cap \in Nat /\ Len(queue[c]) <= Cap /\ \A d \in Conn \ {c} : Len(queue[d]) <= Cap
    BY RelayAssumption DEF IInv, Types
  <2>. QED  BY <1>1, <2>1
<1>. QED  BY <1>1, <1>2 DEF Write, IInv, Types, Works, registry

LEMMA NextInv == IInv /\ [Next]_vars => IInv'
<1>1. ASSUME IInv, NEW f \in TcpFlow, Expire(f)
      PROVE  IInv'
  BY <1>1 DEF Expire, IInv, Types, Works, registry
<1>2. ASSUME IInv, UNCHANGED vars
      PROVE  IInv'
  BY <1>2 DEF vars, IInv, Types, Works, registry
<1>. QED  BY <1>1, <1>2, ReaderSteps, TurnsInv, QueuesInv, AfterInv, ReadInv, ConnectionInv,
          WriteInv DEF Next, Queues

LEMMA Inductive == Spec => []IInv
  BY InitInv, NextInv, PTL DEF Spec

\* Every variable keeps its type, and no queue grows beyond its capacity.
THEOREM TypeCorrect == Spec => []TypeOK
<1>1. IInv => TypeOK
  BY RangeOfSeq DEF IInv, Types, TypeOK, ReaderState
<1>. QED  BY <1>1, Inductive, PTL

-----------------------------------------------------------------------------
(* The registry.                                                           *)

\* A list holds a connection at most once, it holds the registered
\* connections of its device, and no other.
Listed(d) ==
    /\ \A i, j \in 1..Len(vipMap[d]) : vipMap[d][i] = vipMap[d][j] => i = j
    /\ \A i \in 1..Len(vipMap[d]) :
         state[vipMap[d][i]] = "registered" /\ DeviceOf[vipMap[d][i]] = d
    /\ \A c \in Conn : state[c] = "registered" /\ DeviceOf[c] = d =>
         \E i \in 1..Len(vipMap[d]) : vipMap[d][i] = c

Registry == \A d \in Device : Listed(d)

LEMMA RegisterListed ==
    ASSUME IInv, Registry, NEW c \in Conn, Register(c)
    PROVE  Registry'
<1>. DEFINE d == DeviceOf[c]
            l == vipMap[d]
<1>1. d \in Device /\ l \in Seq(Conn) /\ vipMap \in [Device -> Seq(Conn)] /\ Len(l) \in Nat
  BY RelayAssumption DEF IInv, Types
<1>2. /\ state[c] = "new" /\ state' = [state EXCEPT ![c] = "registered"]
      /\ state \in [Conn -> {"new", "registered", "gone"}]
      /\ vipMap' = [vipMap EXCEPT ![d] = Append(l, c)]
  BY DEF Register, IInv, Types
<1>3. /\ Append(l, c) \in Seq(Conn) /\ Len(Append(l, c)) = Len(l) + 1
      /\ \A i \in 1..Len(l) : Append(l, c)[i] = l[i]
      /\ Append(l, c)[Len(l) + 1] = c
  BY <1>1, AppendProperties
<1>4. \A i \in 1..Len(l) : l[i] # c /\ l[i] \in Conn
  BY <1>1, <1>2 DEF Registry, Listed
<1>5. Listed(d)'
  <2>. DEFINE m == Append(l, c)
  <2>1. vipMap'[d] = m
    BY <1>1, <1>2
  <2>. HIDE DEF m
  <2>2. /\ \A i \in 1..Len(m) : i \in 1..Len(l) \/ i = Len(l) + 1
        /\ \A i \in 1..Len(l) : i \in 1..Len(m)
        /\ Len(l) + 1 \in 1..Len(m)
    BY <1>1, <1>3 DEF m
  <2>3. \A i, j \in 1..Len(m) : m[i] = m[j] => i = j
    BY <1>1, <1>3, <1>4, <2>2 DEF m, Registry, Listed
  <2>4. \A i \in 1..Len(m) : state'[m[i]] = "registered" /\ DeviceOf[m[i]] = d
    BY <1>1, <1>2, <1>3, <1>4, <2>2 DEF m, Registry, Listed
  <2>5. ASSUME NEW b \in Conn, state'[b] = "registered", DeviceOf[b] = d
        PROVE  \E i \in 1..Len(m) : m[i] = b
    <3>1. CASE b = c
      BY <1>3, <2>2, <3>1 DEF m
    <3>2. CASE b # c
      <4>1. PICK i \in 1..Len(l) : l[i] = b
        BY <1>1, <1>2, <2>5, <3>2 DEF Registry, Listed
      <4>. QED  BY <1>3, <2>2, <4>1 DEF m
    <3>. QED  BY <3>1, <3>2
  <2>. QED  BY <2>1, <2>3, <2>4, <2>5 DEF Listed
<1>6. ASSUME NEW e \in Device, e # d
      PROVE  Listed(e)'
  <2>1. vipMap'[e] = vipMap[e] /\ vipMap[e] \in Seq(Conn)
    BY <1>1, <1>2, <1>6
  <2>2. \A i \in 1..Len(vipMap[e]) : vipMap[e][i] # c /\ vipMap[e][i] \in Conn
    BY <1>6, <2>1 DEF Registry, Listed
  <2>. QED  BY <1>2, <1>6, <2>1, <2>2 DEF Registry, Listed
<1>. QED  BY <1>5, <1>6 DEF Registry

LEMMA UnregisterListed ==
    ASSUME IInv, Registry, NEW c \in Conn, Unregister(c)
    PROVE  Registry'
<1>. DEFINE d == DeviceOf[c]
            l == vipMap[d]
            m == RemoveFirst(l, c)
<1>1. d \in Device /\ l \in Seq(Conn) /\ vipMap \in [Device -> Seq(Conn)] /\ Len(l) \in Nat
  BY RelayAssumption DEF IInv, Types
<1>2. /\ state[c] = "registered" /\ state' = [state EXCEPT ![c] = "gone"]
      /\ state \in [Conn -> {"new", "registered", "gone"}]
      /\ vipMap' = [vipMap EXCEPT ![d] = m]
  BY DEF Unregister, IInv, Types
<1>3. \E i \in 1..Len(l) : l[i] = c
  <2>1. Listed(d) /\ state[c] = "registered"
    BY <1>1, <1>2 DEF Registry
  <2>. QED  BY <2>1 DEF Listed
<1>4. PICK k \in 1..Len(l) : l[k] = c /\ m = RemoveAt(l, k)
  BY <1>1, <1>3, FirstRemoved
<1>5. /\ Len(m) = Len(l) - 1
      /\ \A i \in 1..Len(m) : m[i] = IF i < k THEN l[i] ELSE l[i + 1]
  BY <1>1, <1>4, RemainsAt
<1>6. vipMap'[d] = m
  BY <1>1, <1>2
<1>. HIDE DEF m
<1>7. Listed(d)'
  <2>. DEFINE Old(i) == IF i < k THEN i ELSE i + 1
  <2>1. \A i \in 1..Len(m) : Old(i) \in 1..Len(l) /\ Old(i) # k /\ m[i] = l[Old(i)]
    BY <1>1, <1>5
  <2>2. \A i, j \in 1..Len(m) : Old(i) = Old(j) => i = j
    BY <1>1, <1>5
  <2>3. \A i \in 1..Len(l) : i # k =>
          IF i < k THEN i \in 1..Len(m) /\ m[i] = l[i]
          ELSE i - 1 \in 1..Len(m) /\ m[i - 1] = l[i]
    BY <1>1, <1>5
  <2>. HIDE DEF Old
  <2>4. \A i, j \in 1..Len(m) : m[i] = m[j] => i = j
    BY <1>1, <2>1, <2>2 DEF Registry, Listed
  <2>5. \A i \in 1..Len(m) : m[i] # c /\ m[i] \in Conn
    BY <1>1, <1>4, <2>1 DEF Registry, Listed
  <2>6. \A i \in 1..Len(m) : state'[m[i]] = "registered" /\ DeviceOf[m[i]] = d
    BY <1>1, <1>2, <2>1, <2>5 DEF Registry, Listed
  <2>7. ASSUME NEW b \in Conn, state'[b] = "registered", DeviceOf[b] = d
        PROVE  \E i \in 1..Len(m) : m[i] = b
    <3>1. b # c /\ state[b] = "registered"
      BY <1>2, <2>7
    <3>2. PICK i \in 1..Len(l) : l[i] = b
      BY <1>1, <2>7, <3>1 DEF Registry, Listed
    <3>. QED  BY <1>4, <2>3, <3>1, <3>2
  <2>. QED  BY <1>6, <2>4, <2>6, <2>7 DEF Listed
<1>8. ASSUME NEW e \in Device, e # d
      PROVE  Listed(e)'
  <2>1. vipMap'[e] = vipMap[e] /\ vipMap[e] \in Seq(Conn)
    BY <1>1, <1>2, <1>8
  <2>2. \A i \in 1..Len(vipMap[e]) : vipMap[e][i] # c /\ vipMap[e][i] \in Conn
    BY <1>8, <2>1 DEF Registry, Listed
  <2>. QED  BY <1>2, <1>8, <2>1, <2>2 DEF Registry, Listed
<1>. QED  BY <1>7, <1>8 DEF Registry

\* Nothing else touches the registry.
LEMMA RegistryKept ==
    ASSUME IInv, [Next]_vars
    PROVE  \/ UNCHANGED <<state, vipMap>>
           \/ \E c \in Conn : Register(c) \/ Unregister(c)
<1>1. ASSUME NEW r \in Conn,
             \/ Route(r) \/ TryStandby(r) \/ Push(r) \/ PushTimeout(r)
             \/ Udp(r) \/ UdpWait(r) \/ Icmp(r) \/ IcmpWait(r)
      PROVE  UNCHANGED <<state, vipMap>>
  BY <1>1 DEF Route, TryStandby, Push, PushTimeout, Udp, UdpWait, Icmp, IcmpWait, registry
<1>2. ASSUME NEW r \in Conn, After(r) \/ Write(r) \/ Close(r)
      PROVE  UNCHANGED <<state, vipMap>>
  BY <1>2 DEF After, Write, Close, registry
<1>3. ASSUME NEW r \in Conn, NEW f \in Flow, NEW kind \in TcpKind \cup PlainKind,
             Read(r, f, kind)
      PROVE  UNCHANGED <<state, vipMap>>
  BY <1>3 DEF Read, registry
<1>4. ASSUME NEW f \in TcpFlow, Expire(f)
      PROVE  UNCHANGED <<state, vipMap>>
  BY <1>4 DEF Expire, registry
<1>. QED  BY <1>1, <1>2, <1>3, <1>4 DEF Next, vars, registry

\* A destination is reachable by exactly its registered connections, each
\* listed once: what registerClient and unregisterClient keep true whatever
\* closes and however many connections of a device come and go.
THEOREM RegistryIsExact == Spec => []RegistryExact
<1>1. Init => Registry
  <2>1. ASSUME Init, NEW d \in Device
        PROVE  vipMap[d] = <<>> /\ \A c \in Conn : state[c] = "new"
    BY <2>1 DEF Init
  <2>. QED  BY <2>1 DEF Registry, Listed
<1>2. IInv /\ Registry /\ [Next]_vars => Registry'
  <2>1. ASSUME Registry, UNCHANGED <<state, vipMap>>
        PROVE  Registry'
    BY <2>1 DEF Registry, Listed
  <2>. QED  BY <2>1, RegistryKept, RegisterListed, UnregisterListed
<1>3. IInv /\ Registry => RegistryExact
  <2>1. SUFFICES ASSUME IInv, Registry, NEW c \in Conn, NEW d \in Device
                 PROVE  Cardinality({i \in DOMAIN vipMap[d] : vipMap[d][i] = c}) =
                          IF state[c] = "registered" /\ DeviceOf[c] = d THEN 1 ELSE 0
    BY DEF RegistryExact
  <2>. DEFINE S == {i \in DOMAIN vipMap[d] : vipMap[d][i] = c}
  <2>2. vipMap[d] \in Seq(Conn) /\ DOMAIN vipMap[d] = 1..Len(vipMap[d])
    BY <2>1 DEF IInv, Types
  <2>3. \A x, y \in S : x = y
    BY <2>1, <2>2 DEF Registry, Listed
  <2>4. S # {} <=> state[c] = "registered" /\ DeviceOf[c] = d
    BY <2>1, <2>2 DEF Registry, Listed
  <2>. HIDE DEF S
  <2>5. Cardinality(S) = IF S = {} THEN 0 ELSE 1
    BY <2>3, AtMostOne
  <2>. QED  BY <2>4, <2>5 DEF S
<1>. QED  BY <1>1, <1>2, <1>3, Inductive, PTL DEF Spec

-----------------------------------------------------------------------------
(* The flow table, when every TCP flow arrives on one connection.          *)

SoleCarrier == \A r, s \in Conn : \A f \in TcpFlow : f \in Carries[r] \cap Carries[s] => r = s

\* The table has nothing for the flow that still serves.
Free(f) == tcpFlows[f] = None \/ closed[tcpFlows[f]]

\* The table has nothing in use that contradicts the reader's choice.
Aimed(r) ==
    /\ reader[r].at = "try" => Free(FlowOf(r))
    /\ reader[r].at \in {"push", "after"} =>
         Free(FlowOf(r)) \/ tcpFlows[FlowOf(r)] = reader[r].to

Bindings == \A r \in Conn : Aimed(r)

\* What happens to the table and to closed in a step that is not of a reader.
TableOnly ==
    /\ \A f \in TcpFlow : tcpFlows'[f] \in {tcpFlows[f], None}
    /\ \A c \in Conn : closed[c] => closed'[c]

\* Two readers never work on one flow.
LEMMA OneReader ==
    ASSUME IInv, SoleCarrier, NEW r \in Conn, NEW s \in Conn, r # s,
           reader[r].at \in {"route", "try", "push", "after"},
           reader[s].at \in {"route", "try", "push", "after"}
    PROVE  FlowOf(r) \in TcpFlow /\ FlowOf(s) \in TcpFlow /\ FlowOf(r) # FlowOf(s)
  BY DEF IInv, Works, FlowOf, SoleCarrier

LEMMA AimedStays ==
    ASSUME IInv, NEW r \in Conn, Aimed(r), UNCHANGED reader[r], TableOnly
    PROVE  Aimed(r)'
<1>1. \A f \in TcpFlow : tcpFlows[f] \in Conn \cup {None}
  BY DEF IInv, Types
<1>2. reader[r].at \in {"try", "push", "after"} => FlowOf(r) \in TcpFlow
  BY DEF IInv, Works, FlowOf
<1>3. FlowOf(r)' = FlowOf(r)
  BY DEF FlowOf
<1>. QED  BY <1>1, <1>2, <1>3 DEF Aimed, Free, TableOnly

LEMMA TurnsAimed ==
    ASSUME IInv, SoleCarrier, Bindings, NEW r \in Conn, Turns(r)
    PROVE  Bindings'
<1>1. /\ \A s \in Conn \ {r} : reader'[s] = reader[s]
      /\ reader[r].at \notin {"idle", "after"}
      /\ UNCHANGED <<closed, queue, finished>>
  BY DEF Turns, Moves, registry
<1>2. TableOnly
  <2>1. \A f \in TcpFlow : tcpFlows'[f] \in {tcpFlows[f], None}
    BY DEF Turns, IInv, Types
  <2>. QED  BY <1>1, <2>1 DEF TableOnly
<1>3. ASSUME NEW s \in Conn, s # r
      PROVE  Aimed(s)'
  BY <1>1, <1>2, <1>3, AimedStays DEF Bindings
<1>4. Aimed(r)'
  <2>1. CASE reader'[r].at \notin {"try", "push", "after"}
    BY <2>1 DEF Aimed
  <2>2. CASE reader[r].at = "route" /\ reader'[r].at \in {"try", "push"}
    <3>1. /\ UNCHANGED tcpFlows /\ FlowOf(r)' = FlowOf(r) /\ FlowOf(r) \in TcpFlow
          /\ \/ Unbound(FlowOf(r))
             \/ reader'[r].at = "push" /\ reader'[r].to = Bound(FlowOf(r))
      BY <2>2 DEF Turns, Moves, FlowOf, IInv, Works
    <3>2. Free(FlowOf(r)) <=> Unbound(FlowOf(r))
      BY <3>1, BoundIs DEF Free
    <3>3. ~ Unbound(FlowOf(r)) => Bound(FlowOf(r)) = tcpFlows[FlowOf(r)]
      BY <3>1, BoundIs DEF Unbound
    <3>. QED  BY <1>1, <2>2, <3>1, <3>2, <3>3 DEF Aimed, Free
  <2>3. CASE reader[r].at = "try" /\ reader'[r].at = "push"
    <3>1. UNCHANGED tcpFlows /\ FlowOf(r)' = FlowOf(r)
      BY <2>3 DEF Turns, Moves, FlowOf
    <3>. QED  BY <1>1, <2>3, <3>1 DEF Aimed, Free, Bindings
  <2>4. \/ reader'[r].at \notin {"try", "push", "after"}
        \/ reader[r].at = "route" /\ reader'[r].at \in {"try", "push"}
        \/ reader[r].at = "try" /\ reader'[r].at = "push"
    BY DEF Turns, Moves
  <2>. QED  BY <2>1, <2>2, <2>3, <2>4
<1>. QED  BY <1>3, <1>4 DEF Bindings

LEMMA QueuesAimed ==
    ASSUME IInv, Bindings, NEW r \in Conn, NEW c \in Conn, Queues(r, c)
    PROVE  Bindings'
<1>1. /\ \A s \in Conn \ {r} : reader'[s] = reader[s]
      /\ UNCHANGED <<closed, tcpFlows>>
  BY DEF Queues, Moves, registry
<1>2. TableOnly
  BY <1>1 DEF TableOnly
<1>3. ASSUME NEW s \in Conn, s # r
      PROVE  Aimed(s)'
  BY <1>1, <1>2, <1>3, AimedStays DEF Bindings
<1>4. Aimed(r)'
  <2>1. CASE reader'[r].at = "idle"
    BY <2>1 DEF Aimed
  <2>2. CASE reader'[r].at = "after"
    <3>1. /\ reader[r].at \in {"try", "push"} /\ FlowOf(r)' = FlowOf(r)
          /\ reader'[r].to = reader[r].to
      BY <2>2 DEF Queues, Moves, FlowOf
    <3>. QED  BY <1>1, <2>2, <3>1 DEF Aimed, Free, Bindings
  <2>. QED  BY <2>1, <2>2 DEF Queues, Moves
<1>. QED  BY <1>3, <1>4 DEF Bindings

LEMMA AfterAimed ==
    ASSUME IInv, SoleCarrier, Bindings, NEW r \in Conn, After(r)
    PROVE  Bindings'
<1>1. /\ \A s \in Conn \ {r} : reader'[s] = reader[s]
      /\ reader'[r].at = "idle" /\ reader[r].at = "after"
      /\ UNCHANGED closed
  BY Returns DEF After, IInv, registry
<1>2. \A f \in TcpFlow \ {FlowOf(r)} : tcpFlows'[f] = tcpFlows[f]
  BY DEF After, IInv, Types
<1>3. ASSUME NEW s \in Conn, s # r, reader[s].at \in {"try", "push", "after"}
      PROVE  Aimed(s)'
  <2>1. FlowOf(s) \in TcpFlow \ {FlowOf(r)} /\ FlowOf(s)' = FlowOf(s)
    BY <1>1, <1>3, OneReader DEF FlowOf
  <2>. QED  BY <1>1, <1>2, <1>3, <2>1 DEF Aimed, Free, Bindings
<1>. QED  BY <1>1, <1>3 DEF Bindings, Aimed

\* What the other steps do to readers and bindings.
LEMMA OtherSteps ==
    ASSUME IInv, [Next]_vars,
           ~ \E r \in Conn : \/ Turns(r) \/ After(r) \/ \E c \in Conn : Queues(r, c)
    PROVE  /\ TableOnly
           /\ finished' = finished
           /\ \A r \in Conn : \/ UNCHANGED reader[r]
                              \/ reader[r].at = "idle" /\ reader'[r].at \in {"route", "udp", "icmp"}
<1>1. ASSUME NEW c \in Conn, Register(c) \/ Close(c) \/ Unregister(c) \/ Write(c)
      PROVE  TableOnly /\ UNCHANGED <<reader, finished>>
  BY <1>1 DEF Register, Close, Unregister, Write, TableOnly, IInv, Types, registry
<1>2. ASSUME NEW r \in Conn, NEW f \in Flow, NEW kind \in TcpKind \cup PlainKind,
             Read(r, f, kind)
      PROVE  /\ TableOnly /\ finished' = finished
             /\ \A s \in Conn : \/ UNCHANGED reader[s]
                                \/ reader[s].at = "idle" /\ reader'[s].at \in {"route", "udp", "icmp"}
  <2>1. TableOnly /\ finished' = finished
    BY <1>2 DEF Read, TableOnly, registry
  <2>. DEFINE w == [Idle EXCEPT !.at = IF f \in TcpFlow THEN "route" ELSE kind,
                                !.pkt = [flow |-> f, no |-> sent[f] + 1, kind |-> kind],
                                !.snap = vipMap[Target[f]]]
  <2>2. w.at \in {"route", "udp", "icmp"}
    BY <1>2, PlainReads DEF Idle
  <2>3. reader' \in {reader, [reader EXCEPT ![r] = w]} /\ reader[r].at = "idle"
    BY <1>2 DEF Read
  <2>. HIDE DEF w
  <2>4. reader \in [Conn -> ReaderState]
    BY DEF IInv, Types
  <2>5. \A s \in Conn : \/ UNCHANGED reader[s]
                        \/ reader[s].at = "idle" /\ reader'[s].at \in {"route", "udp", "icmp"}
    BY <2>2, <2>3, <2>4
  <2>. QED  BY <2>1, <2>5
<1>3. ASSUME NEW f \in TcpFlow, Expire(f)
      PROVE  TableOnly /\ UNCHANGED <<reader, finished>>
  BY <1>3 DEF Expire, TableOnly, IInv, Types, registry
<1>4. ASSUME UNCHANGED vars
      PROVE  TableOnly /\ UNCHANGED <<reader, finished>>
  BY <1>4 DEF vars, TableOnly, registry
<1>5. \A r \in Conn : ~ (\/ Route(r) \/ TryStandby(r) \/ Push(r) \/ PushTimeout(r)
                         \/ Udp(r) \/ UdpWait(r) \/ Icmp(r) \/ IcmpWait(r))
  BY ReaderSteps
<1>. QED  BY <1>1, <1>2, <1>3, <1>4, <1>5 DEF Next

LEMMA BindingsInv == SoleCarrier /\ IInv /\ Bindings /\ [Next]_vars => Bindings'
<1>. SUFFICES ASSUME SoleCarrier, IInv, Bindings, [Next]_vars
              PROVE  Bindings'
  OBVIOUS
<1>1. CASE \E r \in Conn : \/ Turns(r) \/ After(r) \/ \E c \in Conn : Queues(r, c)
  BY <1>1, TurnsAimed, AfterAimed, QueuesAimed
<1>2. CASE ~ \E r \in Conn : \/ Turns(r) \/ After(r) \/ \E c \in Conn : Queues(r, c)
  <2>1. SUFFICES ASSUME NEW r \in Conn
                 PROVE  Aimed(r)'
    BY DEF Bindings
  <2>2. TableOnly
    BY <1>2, OtherSteps
  <2>3. CASE UNCHANGED reader[r]
    BY <2>2, <2>3, AimedStays DEF Bindings
  <2>4. CASE reader'[r].at \in {"route", "udp", "icmp"}
    BY <2>4 DEF Aimed
  <2>. QED  BY <1>2, <2>3, <2>4, OtherSteps
<1>. QED  BY <1>1, <1>2

LEMMA AlwaysAimed == SoleCarrier /\ Spec => [](IInv /\ Bindings)
<1>. SUFFICES ASSUME SoleCarrier
              PROVE  Spec => [](IInv /\ Bindings)
  OBVIOUS
<1>1. Init => Bindings
  BY DEF Init, Bindings, Aimed, Idle
<1>. QED  BY <1>1, BindingsInv, InitInv, NextInv, PTL DEF Spec

\* A flow moves to another connection only when its own is closed, however
\* many closes, unregistrations and timeouts fall between the moment its
\* reader looked the binding up and the moment it writes one.
THEOREM MovesOnlyFromClosed == SoleCarrier /\ Spec => FlowMovesFromClosed
<1>. SUFFICES ASSUME SoleCarrier
              PROVE  Spec => FlowMovesFromClosed
  OBVIOUS
<1>1. ASSUME IInv, Bindings, [Next]_vars, NEW f \in TcpFlow, tcpFlows[f] # None,
             tcpFlows'[f] \notin {None, tcpFlows[f]}
      PROVE  closed[tcpFlows[f]]
  <2>1. PICK r \in Conn : After(r)
    <3>1. \A r \in Conn : Turns(r) => tcpFlows'[f] \in {None, tcpFlows[f]}
      BY <1>1 DEF Turns, IInv, Types
    <3>2. \A r, c \in Conn : Queues(r, c) => tcpFlows'[f] = tcpFlows[f]
      BY DEF Queues
    <3>. QED  BY <1>1, <3>1, <3>2, OtherSteps DEF TableOnly
  <2>2. f = FlowOf(r) /\ tcpFlows'[f] = reader[r].to /\ reader[r].at = "after"
    BY <1>1, <2>1 DEF After, IInv, Types
  <2>. QED  BY <1>1, <2>2 DEF Bindings, Aimed, Free
<1>2. IInv /\ Bindings /\ [Next]_vars =>
        [\A f \in TcpFlow : tcpFlows[f] # None /\ tcpFlows'[f] \notin {None, tcpFlows[f]} =>
           closed[tcpFlows[f]]]_vars
  BY <1>1
<1>. QED  BY <1>2, AlwaysAimed, PTL DEF Spec, FlowMovesFromClosed

\* The connections whose queues hold packets of a flow.
Has(c, f) == \E i \in 1..Len(queue[c]) : queue[c][i].flow = f

\* An open connection with packets of an unfinished flow is the bound one, or
\* the one that is being bound.
Served(f) ==
    \A c \in Conn : ~closed[c] /\ Has(c, f) =>
        \/ tcpFlows[f] = c
        \/ \E r \in Conn : reader[r].at = "after" /\ FlowOf(r) = f /\ reader[r].to = c

Serving == \A f \in TcpFlow \ finished : Served(f)

\* What keeps it: nothing joins a queue, no binding in use is lost but with
\* its flow, and no reader leaves "after".
LEMMA ServedStays ==
    ASSUME IInv, NEW f \in TcpFlow, Served(f),
           \A c \in Conn : (~closed[c] /\ Has(c, f))' => ~closed[c] /\ Has(c, f),
           \/ tcpFlows'[f] = tcpFlows[f]
           \/ Free(f)
           \/ \A c \in Conn : ~closed[c] => ~Has(c, f),
           \A r \in Conn : reader[r].at = "after" => UNCHANGED reader[r]
    PROVE  Served(f)'
<1>. SUFFICES ASSUME NEW c \in Conn, (~closed[c] /\ Has(c, f))'
              PROVE  \/ tcpFlows'[f] = c
                     \/ \E r \in Conn : /\ reader'[r].at = "after" /\ FlowOf(r)' = f
                                        /\ reader'[r].to = c
  BY DEF Served
<1>1. ~closed[c] /\ Has(c, f)
  OBVIOUS
<1>2. c # None
  BY RelayAssumption
<1>3. CASE tcpFlows[f] = c
  <2>1. ~ Free(f)
    BY <1>1, <1>2, <1>3 DEF Free
  <2>. QED  BY <1>1, <1>3, <2>1
<1>4. CASE \E r \in Conn : reader[r].at = "after" /\ FlowOf(r) = f /\ reader[r].to = c
  BY <1>4 DEF FlowOf
<1>. QED  BY <1>1, <1>3, <1>4 DEF Served

LEMMA TurnsServing ==
    ASSUME IInv, SoleCarrier, Bindings, Serving, NEW r \in Conn, Turns(r)
    PROVE  Serving'
<1>1. /\ \A s \in Conn \ {r} : reader'[s] = reader[s]
      /\ reader[r].at # "after"
      /\ UNCHANGED <<closed, queue, finished>>
  BY DEF Turns, Moves, registry
<1>2. SUFFICES ASSUME NEW f \in TcpFlow \ finished
               PROVE  Served(f)'
  BY <1>1 DEF Serving
<1>3. \A c \in Conn : (~closed[c] /\ Has(c, f))' => ~closed[c] /\ Has(c, f)
  BY <1>1 DEF Has
<1>4. tcpFlows'[f] = tcpFlows[f] \/ Free(f)
  <2>1. CASE UNCHANGED tcpFlows
    BY <2>1
  <2>2. CASE /\ reader[r].at = "push" /\ closed[reader[r].to]
             /\ tcpFlows' = [tcpFlows EXCEPT ![FlowOf(r)] = None]
    <3>1. CASE f = FlowOf(r)
      BY <2>2, <3>1 DEF Bindings, Aimed, Free
    <3>2. CASE f # FlowOf(r)
      BY <2>2, <3>2 DEF IInv, Types
    <3>. QED  BY <3>1, <3>2
  <2>. QED  BY <2>1, <2>2 DEF Turns
<1>. QED  BY <1>1, <1>3, <1>4, ServedStays DEF Serving

LEMMA QueuesServing ==
    ASSUME IInv, Serving, NEW r \in Conn, NEW c \in Conn, Queues(r, c)
    PROVE  Serving'
<1>1. /\ \A s \in Conn \ {r} : reader'[s] = reader[s]
      /\ reader[r].at \notin {"idle", "after"}
      /\ UNCHANGED <<closed, tcpFlows, finished>>
  BY DEF Queues, Moves, registry
<1>2. reader[r].pkt \in Packet
  BY <1>1 DEF IInv, Works
<1>3. SUFFICES ASSUME NEW f \in TcpFlow \ finished
               PROVE  Served(f)'
  BY <1>1 DEF Serving
<1>4. Served(f)
  BY DEF Serving
<1>5. /\ \A d \in Conn \ {c} : queue'[d] = queue[d]
      /\ Len(queue'[c]) = Len(queue[c]) + 1
      /\ \A i \in 1..Len(queue[c]) : queue'[c][i] = queue[c][i]
      /\ queue'[c][Len(queue[c]) + 1] = reader[r].pkt
      /\ Len(queue[c]) \in Nat
  BY <1>2, Joins DEF Queues, IInv, Types
<1>6. \A i \in 1..Len(queue'[c]) : i \in 1..Len(queue[c]) \/ i = Len(queue[c]) + 1
  BY <1>5
<1>7. CASE FlowOf(r) # f
  <2>1. ASSUME NEW d \in Conn, Has(d, f)'
        PROVE  Has(d, f)
    <3>1. CASE d = c
      <4>1. PICK i \in 1..Len(queue'[c]) : queue'[c][i].flow = f
        BY <2>1, <3>1 DEF Has
      <4>2. i \in 1..Len(queue[c]) /\ queue[c][i].flow = f
        BY <1>5, <1>6, <1>7, <4>1 DEF FlowOf
      <4>. QED  BY <3>1, <4>2 DEF Has
    <3>2. CASE d # c
      BY <1>5, <2>1, <3>2 DEF Has
    <3>. QED  BY <3>1, <3>2
  <2>. QED  BY <1>1, <1>4, <2>1, ServedStays
<1>8. CASE FlowOf(r) = f
  <2>1. /\ reader'[r].at = "after" /\ reader'[r].to = c /\ FlowOf(r)' = f
    BY <1>8 DEF Queues, Moves, FlowOf, IInv, Works
  <2>2. ASSUME NEW d \in Conn, ~closed[d], Has(d, f)'
        PROVE  \/ tcpFlows'[f] = d
               \/ \E s \in Conn : /\ reader'[s].at = "after" /\ FlowOf(s)' = f
                                  /\ reader'[s].to = d
    <3>1. CASE d = c
      BY <2>1, <3>1
    <3>2. CASE d # c
      <4>1. Has(d, f)
        BY <1>5, <2>2, <3>2 DEF Has
      <4>. QED  BY <1>1, <1>4, <2>2, <4>1 DEF Served, FlowOf
    <3>. QED  BY <3>1, <3>2
  <2>. QED  BY <1>1, <2>2 DEF Served
<1>. QED  BY <1>7, <1>8

LEMMA AfterServing ==
    ASSUME IInv, SoleCarrier, Bindings, Serving, NEW r \in Conn, After(r)
    PROVE  Serving'
<1>1. /\ \A s \in Conn \ {r} : reader'[s] = reader[s]
      /\ reader'[r].at = "idle" /\ reader[r].at = "after"
      /\ UNCHANGED <<closed, queue>> /\ finished \subseteq finished'
  BY Returns DEF After, IInv, registry
<1>2. SUFFICES ASSUME NEW f \in TcpFlow \ finished', NEW c \in Conn,
                      ~closed[c], Has(c, f)
               PROVE  \/ tcpFlows'[f] = c
                      \/ \E s \in Conn : /\ reader'[s].at = "after" /\ FlowOf(s)' = f
                                         /\ reader'[s].to = c
  BY <1>1 DEF Serving, Served, Has
<1>3. Served(f) /\ c # None
  BY <1>1, RelayAssumption DEF Serving
<1>4. CASE f = FlowOf(r)
  <2>1. tcpFlows'[f] = reader[r].to
    BY <1>2, <1>4 DEF After, IInv, Types
  <2>2. CASE tcpFlows[f] = c
    BY <1>1, <1>2, <1>3, <1>4, <2>1, <2>2 DEF Bindings, Aimed, Free
  <2>3. ASSUME NEW s \in Conn, reader[s].at = "after", FlowOf(s) = f, reader[s].to = c
        PROVE  tcpFlows'[f] = c
    <3>1. s = r
      BY <1>1, <1>4, <2>3, OneReader
    <3>. QED  BY <2>1, <2>3, <3>1
  <2>. QED  BY <1>2, <1>3, <2>2, <2>3 DEF Served
<1>5. CASE f # FlowOf(r)
  <2>1. tcpFlows'[f] = tcpFlows[f]
    BY <1>5 DEF After, IInv, Types
  <2>2. \A s \in Conn : FlowOf(s) = f => reader'[s] = reader[s]
    BY <1>1, <1>5
  <2>. QED  BY <1>2, <1>3, <2>1, <2>2 DEF Served, FlowOf
<1>. QED  BY <1>4, <1>5

LEMMA OthersServing ==
    ASSUME IInv, Serving, [Next]_vars,
           ~ \E r \in Conn : \/ Turns(r) \/ After(r) \/ \E c \in Conn : Queues(r, c)
    PROVE  Serving'
<1>1. /\ finished' = finished
      /\ \A r \in Conn : reader[r].at = "after" => UNCHANGED reader[r]
  BY OtherSteps
<1>2. SUFFICES ASSUME NEW f \in TcpFlow \ finished
               PROVE  Served(f)'
  BY <1>1 DEF Serving
<1>3. Served(f) /\ \A c \in Conn : Len(queue[c]) \in Nat
  BY DEF Serving, IInv, Types
<1>4. ASSUME UNCHANGED <<closed, queue, tcpFlows>>
      PROVE  Served(f)'
  BY <1>1, <1>3, <1>4, ServedStays DEF Has
<1>5. ASSUME NEW c \in Conn, Register(c) \/ Close(c) \/ Unregister(c)
      PROVE  Served(f)'
  <2>1. \A d \in Conn : (~closed[d] /\ Has(d, f))' => ~closed[d] /\ Has(d, f)
    BY <1>5 DEF Register, Close, Unregister, Has, IInv, Types
  <2>2. tcpFlows'[f] = tcpFlows[f] \/ Free(f)
    BY <1>5 DEF Register, Close, Unregister, Free, IInv, Types
  <2>. QED  BY <1>1, <1>3, <2>1, <2>2, ServedStays
<1>6. ASSUME NEW c \in Conn, Write(c)
      PROVE  Served(f)'
  <2>1. UNCHANGED <<closed, tcpFlows>>
    BY <1>6 DEF Write, registry
  <2>2. /\ \A d \in Conn \ {c} : queue'[d] = queue[d]
        /\ Len(queue'[c]) = Len(queue[c]) - 1
        /\ \A i \in 1..Len(queue'[c]) : queue'[c][i] = queue[c][i + 1]
    BY <1>6, Leaves
  <2>3. \A i \in 1..Len(queue'[c]) : i + 1 \in 1..Len(queue[c])
    BY <1>3, <2>2
  <2>4. \A d \in Conn : Has(d, f)' => Has(d, f)
    <3>1. Has(c, f)' => Has(c, f)
      BY <2>2, <2>3 DEF Has
    <3>2. \A d \in Conn \ {c} : Has(d, f)' => Has(d, f)
      BY <2>2 DEF Has
    <3>. QED  BY <3>1, <3>2
  <2>. QED  BY <1>1, <1>3, <2>1, <2>4, ServedStays
<1>7. ASSUME NEW g \in TcpFlow, Expire(g)
      PROVE  Served(f)'
  <2>1. UNCHANGED <<closed, queue>>
    BY <1>7 DEF Expire, registry
  <2>2. \/ tcpFlows'[f] = tcpFlows[f] \/ Free(f)
        \/ \A c \in Conn : ~closed[c] => ~Has(c, f)
    <3>1. CASE f = g
      <4>1. CASE ~ Waiting(f)
        <5>1. \A c \in Conn : DOMAIN queue[c] = 1..Len(queue[c])
          BY DEF IInv, Types
        <5>. QED  BY <4>1, <5>1 DEF Waiting, Has
      <4>2. CASE closed[tcpFlows[f]]
        BY <4>2 DEF Free
      <4>. QED  BY <1>7, <3>1, <4>1, <4>2 DEF Expire
    <3>2. CASE f # g
      BY <1>7, <3>2 DEF Expire, IInv, Types
    <3>. QED  BY <3>1, <3>2
  <2>3. \A c \in Conn : (~closed[c] /\ Has(c, f))' => ~closed[c] /\ Has(c, f)
    BY <2>1 DEF Has
  <2>. QED  BY <1>1, <1>3, <2>2, <2>3, ServedStays
<1>8. ASSUME NEW r \in Conn, NEW g \in Flow, NEW kind \in TcpKind \cup PlainKind,
             Read(r, g, kind)
      PROVE  UNCHANGED <<closed, queue, tcpFlows>>
  BY <1>8 DEF Read, registry
<1>9. \A r \in Conn : ~ (\/ Route(r) \/ TryStandby(r) \/ Push(r) \/ PushTimeout(r)
                         \/ Udp(r) \/ UdpWait(r) \/ Icmp(r) \/ IcmpWait(r))
  BY ReaderSteps
<1>10. UNCHANGED vars => UNCHANGED <<closed, queue, tcpFlows>>
  BY DEF vars, registry
<1>. QED  BY <1>4, <1>5, <1>6, <1>7, <1>8, <1>9, <1>10 DEF Next

\* The packets of an unfinished TCP flow that can still be written wait in one
\* queue: the reader's push before the binding, closes and the expiry of
\* bindings never split a flow over two open connections of its destination.
THEOREM OneLane == SoleCarrier /\ Spec => []OneServingLane
<1>. SUFFICES ASSUME SoleCarrier
              PROVE  Spec => []OneServingLane
  OBVIOUS
<1>1. Init => Serving
  BY DEF Init, Serving, Served, Has
<1>2. IInv /\ Bindings /\ Serving /\ [Next]_vars => Serving'
  BY TurnsServing, AfterServing, QueuesServing, OthersServing
<1>3. ASSUME IInv, Bindings, Serving, NEW f \in TcpFlow \ finished
      PROVE  Cardinality(Lanes(f)) <= 1
  <2>1. ASSUME NEW c \in Lanes(f), NEW d \in Lanes(f)
        PROVE  c = d
    <3>1. /\ c \in Conn /\ d \in Conn /\ ~closed[c] /\ ~closed[d]
          /\ Has(c, f) /\ Has(d, f) /\ Served(f)
      BY <1>3, <2>1 DEF Lanes, Has, Serving, IInv, Types
    <3>2. c # None /\ d # None
      BY <3>1, RelayAssumption
    <3>3. ASSUME NEW r \in Conn, reader[r].at = "after", FlowOf(r) = f, tcpFlows[f] \in {c, d}
          PROVE  reader[r].to = tcpFlows[f]
      BY <1>3, <3>1, <3>2, <3>3 DEF Bindings, Aimed, Free
    <3>4. ASSUME NEW r \in Conn, reader[r].at = "after", FlowOf(r) = f,
                 NEW s \in Conn, reader[s].at = "after", FlowOf(s) = f
          PROVE  r = s
      BY <1>3, <3>4, OneReader
    <3>. QED  BY <3>1, <3>3, <3>4 DEF Served
  <2>2. Cardinality(Lanes(f)) \in {0, 1}
    BY <2>1, AtMostOne
  <2>. QED  BY <2>2
<1>4. IInv /\ Bindings /\ Serving => OneServingLane
  BY <1>3 DEF OneServingLane
<1>. QED  BY <1>1, <1>2, <1>4, AlwaysAimed, PTL DEF Spec

-----------------------------------------------------------------------------
(* The places of a packet.                                                 *)

InQueue(c, i, f, n) ==
    i \in 1..Len(queue[c]) /\ queue[c][i].flow = f /\ queue[c][i].no = n

Written(i, f, n) == i \in 1..Len(arrived[f]) /\ arrived[f][i] = n

InHand(r, f, n) ==
    reader[r].at \notin {"idle", "after"} /\ FlowOf(r) = f /\ reader[r].pkt.no = n

\* A packet is in one place at most, and was sent.
Single(f, n) ==
    /\ \A c, d \in Conn : \A i, j \in Nat :
         InQueue(c, i, f, n) /\ InQueue(d, j, f, n) => c = d /\ i = j
    /\ \A i, j \in Nat : Written(i, f, n) /\ Written(j, f, n) => i = j
    /\ \A r, s \in Conn : InHand(r, f, n) /\ InHand(s, f, n) => r = s
    /\ \A c \in Conn : \A i, j \in Nat : ~ (InQueue(c, i, f, n) /\ Written(j, f, n))
    /\ \A c, r \in Conn : \A i \in Nat : ~ (InQueue(c, i, f, n) /\ InHand(r, f, n))
    /\ \A r \in Conn : \A i \in Nat : ~ (Written(i, f, n) /\ InHand(r, f, n))
    /\ \A c \in Conn : \A i \in Nat : InQueue(c, i, f, n) => n <= sent[f]
    /\ \A i \in Nat : Written(i, f, n) => n <= sent[f]
    /\ \A r \in Conn : InHand(r, f, n) => n <= sent[f]

Once == \A f \in Flow : \A n \in 1..MaxPacket : Single(f, n)

LEMMA TurnsOnce ==
    ASSUME IInv, Once, NEW r \in Conn, Turns(r)
    PROVE  Once'
<1>1. /\ \A s \in Conn \ {r} : reader'[s] = reader[s]
      /\ UNCHANGED <<queue, arrived, sent>>
  BY DEF Turns, Moves
<1>2. ASSUME NEW s \in Conn, NEW f, NEW n, InHand(s, f, n)'
      PROVE  InHand(s, f, n)
  <2>1. CASE s = r
    BY <1>2, <2>1 DEF InHand, FlowOf, Turns, Moves
  <2>2. CASE s # r
    BY <1>1, <1>2, <2>2 DEF InHand, FlowOf
  <2>. QED  BY <2>1, <2>2
<1>3. ASSUME NEW f, NEW n
      PROVE  /\ \A c \in Conn, i \in Nat : InQueue(c, i, f, n)' <=> InQueue(c, i, f, n)
             /\ \A i \in Nat : Written(i, f, n)' <=> Written(i, f, n)
  BY <1>1 DEF InQueue, Written
<1>4. ASSUME NEW f \in Flow, NEW n \in 1..MaxPacket
      PROVE  Single(f, n)'
  <2>1. Single(f, n)
    BY DEF Once
  <2>. HIDE DEF InQueue, Written, InHand
  <2>. QED  BY <1>1, <1>2, <1>3, <2>1 DEF Single
<1>. QED  BY <1>4 DEF Once

LEMMA QueuesOnce ==
    ASSUME IInv, Once, NEW r \in Conn, NEW c \in Conn, Queues(r, c)
    PROVE  Once'
<1>. DEFINE l == Len(queue[c])
<1>1. /\ \A s \in Conn \ {r} : reader'[s] = reader[s]
      /\ reader[r].at \notin {"idle", "after"} /\ reader'[r].at \in {"idle", "after"}
      /\ UNCHANGED <<arrived, sent>>
  BY DEF Queues, Moves
<1>2. reader[r].pkt \in Packet
  BY <1>1 DEF IInv, Works
<1>3. /\ \A d \in Conn \ {c} : queue'[d] = queue[d]
      /\ Len(queue'[c]) = l + 1
      /\ \A i \in 1..l : queue'[c][i] = queue[c][i]
      /\ queue'[c][l + 1] = reader[r].pkt
      /\ l \in Nat
  BY <1>2, Joins DEF Queues, IInv, Types
<1>. HIDE DEF l
<1>4. ASSUME NEW s \in Conn, NEW f, NEW n, InHand(s, f, n)'
      PROVE  InHand(s, f, n) /\ s # r
  BY <1>1, <1>4 DEF InHand, FlowOf
<1>5. ASSUME NEW d \in Conn, NEW i \in Nat, NEW f, NEW n, InQueue(d, i, f, n)'
      PROVE  \/ InQueue(d, i, f, n)
             \/ d = c /\ i = l + 1 /\ InHand(r, f, n)
  <2>1. CASE d = c /\ i \in 1..l
    BY <1>3, <1>5, <2>1 DEF InQueue, l
  <2>2. CASE d = c /\ i = l + 1
    BY <1>1, <1>3, <1>5, <2>2 DEF InQueue, InHand, FlowOf
  <2>3. CASE d # c
    BY <1>3, <1>5, <2>3 DEF InQueue
  <2>4. d = c => i \in 1..l \/ i = l + 1
    BY <1>3, <1>5 DEF InQueue
  <2>. QED  BY <2>1, <2>2, <2>3, <2>4
<1>6. \A i \in Nat, f \in Flow, n \in 1..MaxPacket : Written(i, f, n)' <=> Written(i, f, n)
  BY <1>1 DEF Written
<1>7. ASSUME NEW f \in Flow, NEW n \in 1..MaxPacket
      PROVE  Single(f, n)'
  <2>1. Single(f, n)
    BY DEF Once
  <2>. HIDE DEF InQueue, Written, InHand
  <2>. QED  BY <1>1, <1>4, <1>5, <1>6, <2>1 DEF Single
<1>. QED  BY <1>7 DEF Once

LEMMA WriteOnce ==
    ASSUME IInv, Once, NEW c \in Conn, Write(c)
    PROVE  Once'
<1>. DEFINE pkt == Head(queue[c])
            l == Len(arrived[pkt.flow])
<1>1. UNCHANGED <<reader, sent>>
  BY DEF Write
<1>2. /\ pkt \in Packet /\ pkt = queue[c][1] /\ 1 <= Len(queue[c])
      /\ \A d \in Conn \ {c} : queue'[d] = queue[d]
      /\ Len(queue'[c]) = Len(queue[c]) - 1
      /\ \A i \in 1..Len(queue'[c]) : queue'[c][i] = queue[c][i + 1]
      /\ \A f \in Flow \ {pkt.flow} : arrived'[f] = arrived[f]
      /\ pkt.flow \in Flow
      /\ Len(arrived'[pkt.flow]) = l + 1
      /\ \A i \in 1..l : arrived'[pkt.flow][i] = arrived[pkt.flow][i]
      /\ arrived'[pkt.flow][l + 1] = pkt.no
  BY Leaves
<1>3. Len(queue[c]) \in Nat /\ l \in Nat
  BY <1>2 DEF IInv, Types
<1>. HIDE DEF pkt, l
<1>4. ASSUME NEW f, NEW n
      PROVE  InQueue(c, 1, f, n) <=> f = pkt.flow /\ n = pkt.no
  BY <1>2, <1>3 DEF InQueue
<1>5. ASSUME NEW d \in Conn, NEW i \in Nat, NEW f, NEW n, InQueue(d, i, f, n)'
      PROVE  \/ d # c /\ InQueue(d, i, f, n)
             \/ d = c /\ i >= 1 /\ InQueue(c, i + 1, f, n)
  <2>1. CASE d = c
    <3>1. i + 1 \in 1..Len(queue[c]) /\ queue'[c][i] = queue[c][i + 1] /\ i >= 1
      BY <1>2, <1>3, <1>5, <2>1 DEF InQueue
    <3>. QED  BY <1>5, <2>1, <3>1 DEF InQueue
  <2>2. CASE d # c
    BY <1>2, <1>5, <2>2 DEF InQueue
  <2>. QED  BY <2>1, <2>2
<1>6. ASSUME NEW i \in Nat, NEW f \in Flow, NEW n, Written(i, f, n)'
      PROVE  \/ Written(i, f, n)
             \/ i = l + 1 /\ f = pkt.flow /\ n = pkt.no
  <2>1. CASE f = pkt.flow /\ i \in 1..l
    BY <1>2, <1>3, <1>6, <2>1 DEF Written, l
  <2>2. CASE f = pkt.flow /\ i = l + 1
    BY <1>2, <1>3, <1>6, <2>2 DEF Written
  <2>3. CASE f # pkt.flow
    BY <1>2, <1>6, <2>3 DEF Written
  <2>4. f = pkt.flow => i \in 1..l \/ i = l + 1
    BY <1>2, <1>3, <1>6 DEF Written
  <2>. QED  BY <2>1, <2>2, <2>3, <2>4
<1>7. \A s \in Conn : \A f, n : InHand(s, f, n)' <=> InHand(s, f, n)
  BY <1>1 DEF InHand, FlowOf
<1>8. ASSUME NEW f \in Flow, NEW n \in 1..MaxPacket
      PROVE  Single(f, n)'
  <2>1. Single(f, n) /\ n \in Nat /\ sent'[f] = sent[f]
    BY <1>1, RelayAssumption DEF Once
  <2>. HIDE DEF InQueue, Written, InHand
  <2>2. \A d, e \in Conn : \A i, j \in Nat :
          InQueue(d, i, f, n)' /\ InQueue(e, j, f, n)' => d = e /\ i = j
    <3>1. ASSUME NEW d \in Conn, NEW i \in Nat, InQueue(d, i, f, n)'
          PROVE  \E k \in Nat : /\ InQueue(d, k, f, n) /\ (d = c => k = i + 1)
                                /\ (d # c => k = i)
      BY <1>5, <3>1
    <3>. QED  BY <2>1, <3>1 DEF Single
  <2>3. ASSUME NEW d \in Conn, NEW i \in Nat, InQueue(d, i, f, n)'
        PROVE  ~ (f = pkt.flow /\ n = pkt.no) /\ n <= sent[f]
    BY <1>4, <1>5, <2>1, <2>3 DEF Single
  <2>4. ASSUME f = pkt.flow, n = pkt.no
        PROVE  InQueue(c, 1, f, n)
    BY <1>4, <2>4
  <2>5. \A d \in Conn : \A i, j \in Nat : ~ (InQueue(d, i, f, n)' /\ Written(j, f, n)')
    <3>1. ASSUME NEW d \in Conn, NEW i \in Nat, InQueue(d, i, f, n)'
          PROVE  \E k \in Nat : InQueue(d, k, f, n)
      BY <1>5, <3>1
    <3>. QED  BY <1>6, <2>1, <2>3, <3>1 DEF Single
  <2>6. \A d, r \in Conn : \A i \in Nat : ~ (InQueue(d, i, f, n)' /\ InHand(r, f, n)')
    BY <1>5, <1>7, <2>1 DEF Single
  <2>7. \A i, j \in Nat : Written(i, f, n)' /\ Written(j, f, n)' => i = j
    BY <1>6, <2>1, <2>4 DEF Single
  <2>8. \A i \in Nat : Written(i, f, n)' => n <= sent[f]
    BY <1>6, <2>1, <2>4 DEF Single
  <2>9. \A r \in Conn : \A i \in Nat : ~ (Written(i, f, n)' /\ InHand(r, f, n)')
    BY <1>6, <1>7, <2>1, <2>4 DEF Single
  <2>. QED  BY <1>7, <2>1, <2>2, <2>3, <2>5, <2>6, <2>7, <2>8, <2>9 DEF Single
<1>. QED  BY <1>8 DEF Once

LEMMA ReadOnce ==
    ASSUME IInv, Once, NEW r \in Conn, NEW g \in Flow, NEW kind \in TcpKind \cup PlainKind,
           Read(r, g, kind)
    PROVE  Once'
<1>. DEFINE pkt == [flow |-> g, no |-> sent[g] + 1, kind |-> kind]
            w == [Idle EXCEPT !.at = IF g \in TcpFlow THEN "route" ELSE kind,
                              !.pkt = pkt, !.snap = vipMap[Target[g]]]
<1>1. pkt.flow = g /\ pkt.no = sent[g] + 1 /\ UNCHANGED <<queue, arrived>>
  BY DEF Read
<1>2. reader[r].at = "idle" /\ reader' \in {reader, [reader EXCEPT ![r] = w]}
  BY DEF Read
<1>3. w.pkt = pkt
  BY DEF Idle
<1>4. /\ sent \in [Flow -> 0..MaxPacket] /\ MaxPacket \in Nat
      /\ sent' = [sent EXCEPT ![g] = sent[g] + 1]
      /\ reader \in [Conn -> ReaderState]
  BY RelayAssumption DEF Read, IInv, Types
<1>. HIDE DEF pkt, w
<1>5. ASSUME NEW s \in Conn, NEW f, NEW n, InHand(s, f, n)'
      PROVE  InHand(s, f, n) \/ (s = r /\ f = g /\ n = sent[g] + 1)
  <2>1. CASE reader' = reader
    BY <1>5, <2>1 DEF InHand, FlowOf
  <2>2. CASE reader' = [reader EXCEPT ![r] = w]
    <3>1. reader'[s] = IF s = r THEN w ELSE reader[s]
      BY <1>4, <2>2
    <3>. QED  BY <1>1, <1>3, <1>5, <3>1 DEF InHand, FlowOf
  <2>. QED  BY <1>2, <2>1, <2>2
<1>6. \A f, n : /\ \A c \in Conn, i \in Nat : InQueue(c, i, f, n)' <=> InQueue(c, i, f, n)
                /\ \A i \in Nat : Written(i, f, n)' <=> Written(i, f, n)
  BY <1>1 DEF InQueue, Written
<1>7. ~ \E f, n : InHand(r, f, n)
  BY <1>2 DEF InHand
<1>8. ASSUME NEW f \in Flow, NEW n \in 1..MaxPacket
      PROVE  Single(f, n)'
  <2>1. /\ Single(f, n) /\ n \in Nat /\ sent[f] \in Nat
        /\ sent'[f] = IF f = g THEN sent[f] + 1 ELSE sent[f]
    BY <1>4 DEF Once
  <2>. HIDE DEF InQueue, Written, InHand
  <2>2. ASSUME f = g, n = sent[g] + 1
        PROVE  /\ \A c \in Conn, i \in Nat : ~ InQueue(c, i, f, n)
               /\ \A i \in Nat : ~ Written(i, f, n)
               /\ \A s \in Conn : ~ InHand(s, f, n)
    <3>1. ~ (n <= sent[f])
      BY <2>1, <2>2
    <3>. QED  BY <2>1, <3>1 DEF Single
  <2>3. \A s \in Conn : InHand(s, f, n)' => n <= sent'[f]
    BY <1>5, <2>1 DEF Single
  <2>4. n <= sent[f] => n <= sent'[f]
    BY <2>1
  <2>5. \A s \in Conn : InHand(s, f, n)' /\ ~ InHand(s, f, n) =>
          s = r /\ f = g /\ n = sent[g] + 1
    BY <1>5
  <2>6. \A s, t \in Conn : InHand(s, f, n)' /\ InHand(t, f, n)' => s = t
    BY <2>1, <2>2, <2>5 DEF Single
  <2>7. /\ \A c, s \in Conn : \A i \in Nat : ~ (InQueue(c, i, f, n) /\ InHand(s, f, n)')
        /\ \A s \in Conn : \A i \in Nat : ~ (Written(i, f, n) /\ InHand(s, f, n)')
    BY <2>1, <2>2, <2>5 DEF Single
  <2>8. /\ \A c \in Conn : \A i \in Nat : InQueue(c, i, f, n) => n <= sent'[f]
        /\ \A i \in Nat : Written(i, f, n) => n <= sent'[f]
    BY <2>1, <2>4 DEF Single
  <2>. QED  BY <1>6, <2>1, <2>3, <2>6, <2>7, <2>8 DEF Single
<1>. QED  BY <1>8 DEF Once

\* The remaining steps keep every packet where it is.
LEMMA OthersOnce ==
    ASSUME IInv, Once, UNCHANGED <<queue, arrived, sent>>,
           \A r \in Conn : UNCHANGED reader[r] \/ reader'[r].at = "idle"
    PROVE  Once'
<1>1. ASSUME NEW f, NEW n
      PROVE  /\ \A c \in Conn, i \in Nat : InQueue(c, i, f, n)' <=> InQueue(c, i, f, n)
             /\ \A i \in Nat : Written(i, f, n)' <=> Written(i, f, n)
             /\ \A r \in Conn : InHand(r, f, n)' => InHand(r, f, n)
  BY DEF InQueue, Written, InHand, FlowOf
<1>2. ASSUME NEW f \in Flow, NEW n \in 1..MaxPacket
      PROVE  Single(f, n)'
  <2>1. Single(f, n)
    BY DEF Once
  <2>. HIDE DEF InQueue, Written, InHand
  <2>. QED  BY <1>1, <2>1 DEF Single
<1>. QED  BY <1>2 DEF Once

LEMMA OnceInv == IInv /\ Once /\ [Next]_vars => Once'
<1>. SUFFICES ASSUME IInv, Once, [Next]_vars
              PROVE  Once'
  OBVIOUS
<1>1. ASSUME NEW c \in Conn, Register(c) \/ Close(c) \/ Unregister(c)
      PROVE  Once'
  BY <1>1, OthersOnce DEF Register, Close, Unregister
<1>2. ASSUME NEW f \in TcpFlow, Expire(f)
      PROVE  Once'
  BY <1>2, OthersOnce DEF Expire
<1>3. ASSUME NEW r \in Conn, After(r)
      PROVE  Once'
  <2>1. /\ \A s \in Conn \ {r} : reader'[s] = reader[s]
        /\ reader'[r].at = "idle"
    BY <1>3, Returns DEF After, IInv
  <2>2. UNCHANGED <<queue, arrived, sent>>
    BY <1>3 DEF After
  <2>. QED  BY <2>1, <2>2, OthersOnce
<1>4. ASSUME UNCHANGED vars
      PROVE  Once'
  BY <1>4, OthersOnce DEF vars
<1>. QED  BY <1>1, <1>2, <1>3, <1>4, WriteOnce, ReadOnce, ReaderSteps, TurnsOnce, QueuesOnce
          DEF Next

\* No packet is written to its destination twice or waits in two places:
\* the retries on closed connections never repeat an accepted packet.
THEOREM NoDuplicate == Spec => []NeverTwice
<1>1. Init => Once
  BY DEF Init, Once, Single, InQueue, Written, InHand, Idle
<1>2. ASSUME IInv, Once, NEW f \in Flow, NEW n \in 1..MaxPacket
      PROVE  Copies(f, n) <= 1
  <2>. DEFINE Q == {p \in Conn \X (1..Cap) :
                      /\ p[2] <= Len(queue[p[1]])
                      /\ queue[p[1]][p[2]].flow = f /\ queue[p[1]][p[2]].no = n}
              A == {i \in DOMAIN arrived[f] : arrived[f][i] = n}
              H == {r \in Conn : /\ reader[r].at \notin {"idle", "after"}
                                 /\ FlowOf(r) = f /\ reader[r].pkt.no = n}
  <2>1. Single(f, n)
    BY <1>2 DEF Once
  <2>2. ASSUME NEW p \in Q
        PROVE  p = <<p[1], p[2]>> /\ p[1] \in Conn /\ p[2] \in Nat /\ InQueue(p[1], p[2], f, n)
    <3>1. /\ p \in Conn \X (1..Cap) /\ p[2] <= Len(queue[p[1]])
          /\ queue[p[1]][p[2]].flow = f /\ queue[p[1]][p[2]].no = n
      OBVIOUS
    <3>. HIDE DEF Q
    <3>2. p = <<p[1], p[2]>> /\ p[1] \in Conn /\ p[2] \in 1..Cap
      BY <3>1
    <3>3. Cap \in Nat /\ Len(queue[p[1]]) \in Nat
      BY <3>2, RelayAssumption, <1>2 DEF IInv, Types
    <3>. QED  BY <3>1, <3>2, <3>3 DEF InQueue
  <2>3. \A i \in A : i \in Nat /\ Written(i, f, n)
    BY <1>2 DEF Written, IInv, Types
  <2>4. \A r \in H : r \in Conn /\ InHand(r, f, n)
    BY DEF InHand
  <2>5. Copies(f, n) = Cardinality(Q) + Cardinality(A) + Cardinality(H)
    BY DEF Copies
  <2>. HIDE DEF Q, A, H, InQueue, Written, InHand
  <2>6. (\A x, y \in A : x = y) /\ (\A x, y \in H : x = y)
    BY <2>1, <2>3, <2>4 DEF Single
  <2>7. \A x, y \in Q : x = y
    <3>1. SUFFICES ASSUME NEW x \in Q, NEW y \in Q
                   PROVE  x = y
      OBVIOUS
    <3>2. x[1] = y[1] /\ x[2] = y[2]
      BY <2>1, <2>2 DEF Single
    <3>. QED  BY <2>2, <3>2
  <2>8. (Q = {} /\ A = {}) \/ (Q = {} /\ H = {}) \/ (A = {} /\ H = {})
    BY <2>1, <2>2, <2>3, <2>4 DEF Single
  <2>9. /\ Cardinality(Q) = IF Q = {} THEN 0 ELSE 1
        /\ Cardinality(A) = IF A = {} THEN 0 ELSE 1
        /\ Cardinality(H) = IF H = {} THEN 0 ELSE 1
    BY <2>6, <2>7, AtMostOne
  <2>. QED  BY <2>5, <2>8, <2>9
<1>3. IInv /\ Once => NeverTwice
  BY <1>2 DEF NeverTwice
<1>. QED  BY <1>1, <1>3, OnceInv, Inductive, PTL DEF Spec

-----------------------------------------------------------------------------
(* The refinement of Delivery.                                             *)

\* Both sets of Delivery by the places of the packets.
Views ==
    /\ Held \subseteq Flow \X (1..MaxPacket)
    /\ \A f \in Flow : \A n \in 1..MaxPacket :
         <<f, n>> \in Held <=> \E r \in Conn : InHand(r, f, n)
    /\ Carried \subseteq (Flow \X (1..MaxPacket)) \X Conn
    /\ \A f \in Flow : \A n \in 1..MaxPacket : \A c \in Conn :
         <<<<f, n>>, c>> \in Carried <=> \E i \in Nat : InQueue(c, i, f, n)

LEMMA PacketFields ==
    ASSUME NEW pkt \in Packet
    PROVE  pkt.flow \in Flow /\ pkt.no \in 1..MaxPacket
  BY DEF Packet

LEMMA ViewsAre == IInv => Views
<1>. SUFFICES ASSUME IInv
              PROVE  Views
  OBVIOUS
<1>1. ASSUME NEW r \in Forwarding
      PROVE  /\ r \in Conn /\ reader[r].pkt.flow \in Flow /\ reader[r].pkt.no \in 1..MaxPacket
             /\ reader[r].at \notin {"idle", "after"}
  BY PacketFields DEF Forwarding, IInv, Works
<1>2. \A x : x \in Held <=> \E r \in Forwarding : x = <<reader[r].pkt.flow, reader[r].pkt.no>>
  BY DEF Held, Of
<1>3. \A f \in Flow : \A n \in 1..MaxPacket :
        <<f, n>> \in Held <=> \E r \in Conn : InHand(r, f, n)
  BY <1>2 DEF Forwarding, InHand, FlowOf
<1>4. ASSUME NEW c \in Conn, NEW pkt
      PROVE  pkt \in Range(queue[c]) <=> \E i \in 1..Len(queue[c]) : pkt = queue[c][i]
  BY DEF Range, IInv, Types
<1>5. ASSUME NEW c \in Conn, NEW i \in 1..Len(queue[c])
      PROVE  queue[c][i] \in Packet /\ i \in Nat
  <2>1. queue[c] \in Seq(Packet)
    BY DEF IInv, Types
  <2>. QED  BY <2>1
<1>6. \A x : x \in Carried <=> \E c \in Conn : \E i \in 1..Len(queue[c]) :
                                 x = <<<<queue[c][i].flow, queue[c][i].no>>, c>>
  <2>1. \A x : x \in Carried <=>
          \E c \in Conn : \E pkt \in Range(queue[c]) : x = <<<<pkt.flow, pkt.no>>, c>>
    BY DEF Carried, Of
  <2>2. ASSUME NEW x, x \in Carried
        PROVE  \E c \in Conn : \E i \in 1..Len(queue[c]) :
                 x = <<<<queue[c][i].flow, queue[c][i].no>>, c>>
    <3>1. PICK c \in Conn : \E pkt \in Range(queue[c]) : x = <<<<pkt.flow, pkt.no>>, c>>
      BY <2>1, <2>2
    <3>2. PICK pkt \in Range(queue[c]) : x = <<<<pkt.flow, pkt.no>>, c>>
      BY <3>1
    <3>3. PICK i \in 1..Len(queue[c]) : pkt = queue[c][i]
      BY <1>4
    <3>. QED  BY <3>2, <3>3
  <2>3. ASSUME NEW c \in Conn, NEW i \in 1..Len(queue[c])
        PROVE  <<<<queue[c][i].flow, queue[c][i].no>>, c>> \in Carried
    <3>1. queue[c][i] \in Range(queue[c])
      BY <1>4
    <3>. QED  BY <2>1, <3>1
  <2>. QED  BY <2>2, <2>3
<1>7. Carried \subseteq (Flow \X (1..MaxPacket)) \X Conn
  BY <1>5, <1>6, PacketFields
<1>8. ASSUME NEW f \in Flow, NEW n \in 1..MaxPacket, NEW c \in Conn
      PROVE  <<<<f, n>>, c>> \in Carried <=> \E i \in Nat : InQueue(c, i, f, n)
  BY <1>5, <1>6 DEF InQueue
<1>9. Held \subseteq Flow \X (1..MaxPacket)
  BY <1>1, <1>2
<1>. QED  BY <1>3, <1>7, <1>8, <1>9 DEF Views

LEMMA ViewsThen == IInv' => Views'
  BY ViewsAre, PTL

\* The packet in a reader's hand is in no other's.
LEMMA HandHeld ==
    ASSUME IInv, Once, NEW r \in Conn, reader[r].at \notin {"idle", "after"}
    PROVE  /\ Of(reader[r].pkt) \in Held
           /\ Of(reader[r].pkt) \in Flow \X (1..MaxPacket)
           /\ \A f \in Flow : \A n \in 1..MaxPacket :
                InHand(r, f, n) <=> <<f, n>> = Of(reader[r].pkt)
           /\ \A f \in Flow : \A n \in 1..MaxPacket : \A s \in Conn :
                InHand(r, f, n) /\ InHand(s, f, n) => s = r
<1>1. reader[r].pkt.flow \in Flow /\ reader[r].pkt.no \in 1..MaxPacket
  BY PacketFields DEF IInv, Works
<1>2. Of(reader[r].pkt) \in Held
  BY DEF Held, Forwarding
<1>3. \A f \in Flow : \A n \in 1..MaxPacket : \A s \in Conn :
        InHand(r, f, n) /\ InHand(s, f, n) => s = r
  BY DEF Once, Single
<1>4. \A f, n : InHand(r, f, n) <=> <<f, n>> = Of(reader[r].pkt)
  BY DEF InHand, FlowOf, Of
<1>5. Of(reader[r].pkt) \in Flow \X (1..MaxPacket)
  BY <1>1 DEF Of
<1>. QED  BY <1>2, <1>3, <1>4, <1>5

LEMMA SameHeld ==
    ASSUME IInv, IInv',
           \A f \in Flow : \A n \in 1..MaxPacket : \A r \in Conn :
             InHand(r, f, n)' <=> InHand(r, f, n)
    PROVE  Held' = Held
<1>1. ASSUME NEW x \in Flow \X (1..MaxPacket)
      PROVE  x \in Held' <=> x \in Held
  <2>1. PICK f \in Flow, n \in 1..MaxPacket : x = <<f, n>>
    OBVIOUS
  <2>2. /\ <<f, n>> \in Held <=> \E r \in Conn : InHand(r, f, n)
        /\ <<f, n>> \in Held' <=> \E r \in Conn : InHand(r, f, n)'
    BY ViewsAre, ViewsThen DEF Views
  <2>. QED  BY <2>1, <2>2
<1>2. Held \subseteq Flow \X (1..MaxPacket) /\ Held' \subseteq Flow \X (1..MaxPacket)
  BY ViewsAre, ViewsThen DEF Views
<1>. QED  BY <1>1, <1>2

\* A reader that puts its packet away, and the others that keep theirs.
LEMMA HandEmptied ==
    ASSUME IInv, IInv', Once, NEW r \in Conn, reader[r].at \notin {"idle", "after"},
           reader'[r].at \in {"idle", "after"}, \A s \in Conn \ {r} : reader'[s] = reader[s]
    PROVE  Held' = Held \ {Of(reader[r].pkt)}
<1>. DEFINE p == Of(reader[r].pkt)
<1>1. \A s \in Conn : \A f, n : InHand(s, f, n)' <=> InHand(s, f, n) /\ s # r
  BY DEF InHand, FlowOf
<1>2. /\ \A f \in Flow : \A n \in 1..MaxPacket : InHand(r, f, n) <=> <<f, n>> = p
      /\ \A f \in Flow : \A n \in 1..MaxPacket : \A s \in Conn :
           InHand(r, f, n) /\ InHand(s, f, n) => s = r
  BY HandHeld
<1>. HIDE DEF p
<1>3. ASSUME NEW x \in Flow \X (1..MaxPacket)
      PROVE  x \in Held' <=> x \in Held /\ x # p
  <2>1. PICK f \in Flow, n \in 1..MaxPacket : x = <<f, n>>
    OBVIOUS
  <2>2. /\ <<f, n>> \in Held <=> \E s \in Conn : InHand(s, f, n)
        /\ <<f, n>> \in Held' <=> \E s \in Conn : InHand(s, f, n)'
    BY ViewsAre, ViewsThen DEF Views
  <2>3. InHand(r, f, n) <=> x = p
    BY <1>2, <2>1
  <2>4. \A s \in Conn : InHand(r, f, n) /\ InHand(s, f, n) => s = r
    BY <1>2
  <2>. HIDE DEF InHand
  <2>. QED  BY <1>1, <2>1, <2>2, <2>3, <2>4
<1>4. Held \subseteq Flow \X (1..MaxPacket) /\ Held' \subseteq Flow \X (1..MaxPacket)
  BY ViewsAre, ViewsThen DEF Views
<1>. QED  BY <1>3, <1>4 DEF p

LEMMA StillCarried ==
    ASSUME UNCHANGED queue
    PROVE  Carried' = Carried
  BY DEF Carried

\* Nothing Delivery sees changes.
Unseen == UNCHANGED <<sent, Held, Carried, arrived, Broken>>

LEMMA TurnsShown ==
    ASSUME IInv, IInv', Once, NEW r \in Conn, Turns(r)
    PROVE  Unseen \/ D!Next
<1>. DEFINE p == Of(reader[r].pkt)
<1>1. /\ reader[r].at \notin {"idle", "after"} /\ UNCHANGED <<closed, queue, sent, arrived>>
      /\ \A s \in Conn \ {r} : reader'[s] = reader[s]
      /\ \/ reader'[r].at = "idle"
         \/ reader'[r].pkt = reader[r].pkt /\ reader'[r].at \notin {"idle", "after"}
  BY DEF Turns, Moves, registry
<1>2. Carried' = Carried /\ Broken' = Broken
  BY <1>1, StillCarried DEF Broken
<1>3. CASE reader'[r].at = "idle"
  <2>1. Held' = Held \ {p} /\ p \in Held
    BY <1>1, <1>3, HandEmptied, HandHeld
  <2>. HIDE DEF p
  <2>2. D!Drop(p)
    BY <1>1, <1>2, <2>1 DEF D!Drop
  <2>. QED  BY <2>1, <2>2 DEF D!Next
<1>4. CASE reader'[r].pkt = reader[r].pkt /\ reader'[r].at \notin {"idle", "after"}
  <2>1. \A f, n : \A s \in Conn : InHand(s, f, n)' <=> InHand(s, f, n)
    BY <1>1, <1>4 DEF InHand, FlowOf
  <2>2. Held' = Held
    BY <2>1, SameHeld
  <2>. QED  BY <1>1, <1>2, <2>2 DEF Unseen
<1>. QED  BY <1>1, <1>3, <1>4

LEMMA QueuesAccepts ==
    ASSUME IInv, IInv', Once, NEW r \in Conn, NEW c \in Conn, Queues(r, c)
    PROVE  D!Next
<1>. DEFINE p == Of(reader[r].pkt)
            l == Len(queue[c])
<1>1. /\ \A s \in Conn \ {r} : reader'[s] = reader[s]
      /\ reader[r].at \notin {"idle", "after"} /\ reader'[r].at \in {"idle", "after"}
      /\ UNCHANGED <<arrived, sent, closed>>
  BY DEF Queues, Moves, registry
<1>2. reader[r].pkt \in Packet
  BY <1>1 DEF IInv, Works
<1>3. /\ \A d \in Conn \ {c} : queue'[d] = queue[d]
      /\ Len(queue'[c]) = l + 1
      /\ \A i \in 1..l : queue'[c][i] = queue[c][i]
      /\ queue'[c][l + 1] = reader[r].pkt
      /\ l \in Nat
  BY <1>2, Joins DEF Queues, IInv, Types
<1>4. Held' = Held \ {p} /\ p \in Held /\ p \in Flow \X (1..MaxPacket)
  BY <1>1, HandEmptied, HandHeld
<1>. HIDE DEF l
<1>5. ASSUME NEW d \in Conn, NEW f \in Flow, NEW n \in 1..MaxPacket
      PROVE  (\E i \in Nat : InQueue(d, i, f, n)') <=>
               (\E i \in Nat : InQueue(d, i, f, n)) \/ (d = c /\ <<f, n>> = p)
  <2>1. CASE d # c
    BY <1>3, <2>1 DEF InQueue
  <2>2. CASE d = c
    <3>1. \A i \in Nat : i \in 1..(l + 1) <=> i \in 1..l \/ i = l + 1
      BY <1>3
    <3>2. \A i \in Nat : InQueue(c, i, f, n)' <=>
             InQueue(c, i, f, n) \/ (i = l + 1 /\ <<f, n>> = p)
      BY <1>3, <3>1 DEF InQueue, l, Of
    <3>3. l + 1 \in Nat
      BY <1>3
    <3>. HIDE DEF InQueue, p
    <3>. QED  BY <2>2, <3>2, <3>3
  <2>. QED  BY <2>1, <2>2
<1>. HIDE DEF p
<1>6. Carried' = Carried \cup {<<p, c>>}
  <2>1. ASSUME NEW x \in (Flow \X (1..MaxPacket)) \X Conn
        PROVE  x \in Carried' <=> x \in Carried \/ x = <<p, c>>
    <3>1. PICK f \in Flow, n \in 1..MaxPacket, d \in Conn : x = <<<<f, n>>, d>>
      OBVIOUS
    <3>2. /\ x \in Carried <=> \E i \in Nat : InQueue(d, i, f, n)
          /\ x \in Carried' <=> \E i \in Nat : InQueue(d, i, f, n)'
      BY <3>1, ViewsAre, ViewsThen DEF Views
    <3>3. x = <<p, c>> <=> d = c /\ <<f, n>> = p
      BY <3>1
    <3>. QED  BY <1>5, <3>2, <3>3
  <2>2. /\ Carried \subseteq (Flow \X (1..MaxPacket)) \X Conn
        /\ Carried' \subseteq (Flow \X (1..MaxPacket)) \X Conn
    BY ViewsAre, ViewsThen DEF Views
  <2>3. <<p, c>> \in (Flow \X (1..MaxPacket)) \X Conn
    BY <1>4
  <2>. QED  BY <2>1, <2>2, <2>3
<1>7. Broken' = Broken
  BY <1>1 DEF Broken
<1>8. D!Accept(p, c)
  BY <1>1, <1>4, <1>6, <1>7 DEF D!Accept
<1>. QED  BY <1>4, <1>8 DEF D!Next

LEMMA WriteArrives ==
    ASSUME IInv, IInv', Once, NEW c \in Conn, Write(c)
    PROVE  D!Next
<1>. DEFINE pkt == Head(queue[c])
            p == Of(pkt)
<1>1. /\ pkt \in Packet /\ pkt = queue[c][1] /\ 1 <= Len(queue[c]) /\ Len(queue[c]) \in Nat
      /\ \A d \in Conn \ {c} : queue'[d] = queue[d]
      /\ Len(queue'[c]) = Len(queue[c]) - 1
      /\ \A i \in 1..Len(queue'[c]) : queue'[c][i] = queue[c][i + 1]
  BY Leaves DEF IInv, Types
<1>2. /\ arrived' = [arrived EXCEPT ![pkt.flow] = Append(arrived[pkt.flow], pkt.no)]
      /\ UNCHANGED <<closed, reader, sent>>
  BY DEF Write, registry
<1>3. p \in Flow \X (1..MaxPacket) /\ p[1] = pkt.flow /\ p[2] = pkt.no
  BY <1>1, PacketFields DEF Of
<1>4. \A f, n : InQueue(c, 1, f, n) <=> <<f, n>> = p
  BY <1>1 DEF InQueue, Of
<1>. HIDE DEF pkt, p
<1>5. ASSUME NEW d \in Conn, NEW f \in Flow, NEW n \in 1..MaxPacket
      PROVE  (\E i \in Nat : InQueue(d, i, f, n)') <=>
               (\E i \in Nat : InQueue(d, i, f, n)) /\ ~ (d = c /\ <<f, n>> = p)
  <2>1. CASE d # c
    BY <1>1, <2>1 DEF InQueue
  <2>2. CASE d = c
    <3>1. \A i, j \in Nat : InQueue(c, i, f, n) /\ InQueue(c, j, f, n) => i = j
      BY DEF Once, Single
    <3>2. \A i \in Nat : i \in 1..Len(queue'[c]) <=> i >= 1 /\ i + 1 \in 1..Len(queue[c])
      BY <1>1
    <3>3. \A i \in Nat : InQueue(c, i, f, n)' <=> i >= 1 /\ InQueue(c, i + 1, f, n)
      BY <1>1, <3>2 DEF InQueue
    <3>4. \A i \in Nat : InQueue(c, i, f, n) => i >= 1
      BY <1>1 DEF InQueue
    <3>5. InQueue(c, 1, f, n) <=> <<f, n>> = p
      BY <1>4
    <3>. HIDE DEF InQueue
    <3>6. ASSUME NEW i \in Nat, InQueue(c, i, f, n)'
          PROVE  (\E j \in Nat : InQueue(c, j, f, n)) /\ <<f, n>> # p
      <4>1. i + 1 \in Nat /\ i + 1 # 1 /\ InQueue(c, i + 1, f, n)
        BY <3>3, <3>6
      <4>. QED  BY <3>1, <3>5, <4>1
    <3>7. ASSUME NEW i \in Nat, InQueue(c, i, f, n), <<f, n>> # p
          PROVE  \E j \in Nat : InQueue(c, j, f, n)'
      <4>1. i >= 1 /\ i # 1
        BY <3>4, <3>5, <3>7
      <4>2. i - 1 \in Nat /\ i - 1 >= 1 /\ (i - 1) + 1 = i
        BY <4>1
      <4>3. InQueue(c, i - 1, f, n)'
        BY <3>3, <3>7, <4>2
      <4>. QED  BY <4>2, <4>3
    <3>. QED  BY <2>2, <3>6, <3>7
  <2>. QED  BY <2>1, <2>2
<1>6. <<p, c>> \in Carried
  <2>1. PICK f \in Flow, n \in 1..MaxPacket : p = <<f, n>>
    BY <1>3
  <2>2. InQueue(c, 1, f, n)
    BY <1>4, <2>1
  <2>3. <<<<f, n>>, c>> \in Carried <=> \E i \in Nat : InQueue(c, i, f, n)
    BY ViewsAre DEF Views
  <2>. QED  BY <2>1, <2>2, <2>3
<1>7. Carried' = Carried \ {<<p, c>>}
  <2>1. ASSUME NEW x \in (Flow \X (1..MaxPacket)) \X Conn
        PROVE  x \in Carried' <=> x \in Carried /\ x # <<p, c>>
    <3>1. PICK f \in Flow, n \in 1..MaxPacket, d \in Conn : x = <<<<f, n>>, d>>
      OBVIOUS
    <3>2. /\ x \in Carried <=> \E i \in Nat : InQueue(d, i, f, n)
          /\ x \in Carried' <=> \E i \in Nat : InQueue(d, i, f, n)'
      BY <3>1, ViewsAre, ViewsThen DEF Views
    <3>3. x = <<p, c>> <=> d = c /\ <<f, n>> = p
      BY <3>1
    <3>. QED  BY <1>5, <3>2, <3>3
  <2>2. /\ Carried \subseteq (Flow \X (1..MaxPacket)) \X Conn
        /\ Carried' \subseteq (Flow \X (1..MaxPacket)) \X Conn
    BY ViewsAre, ViewsThen DEF Views
  <2>. QED  BY <2>1, <2>2
<1>8. Held' = Held /\ Broken' = Broken
  BY <1>2 DEF Held, Forwarding, Broken
<1>9. D!Arrive(p, c)
  BY <1>2, <1>3, <1>6, <1>7, <1>8 DEF D!Arrive
<1>10. <<p, c>>[1] = p /\ <<p, c>>[2] = c
  OBVIOUS
<1>. QED  BY <1>6, <1>9, <1>10 DEF D!Next

LEMMA ReadSends ==
    ASSUME IInv, IInv', NEW r \in Conn, NEW f \in Flow, NEW kind \in TcpKind \cup PlainKind,
           Read(r, f, kind)
    PROVE  D!Next
<1>. DEFINE pkt == [flow |-> f, no |-> sent[f] + 1, kind |-> kind]
            w == [Idle EXCEPT !.at = IF f \in TcpFlow THEN "route" ELSE kind,
                              !.pkt = pkt, !.snap = vipMap[Target[f]]]
            p == <<f, sent[f] + 1>>
<1>1. /\ reader[r].at = "idle" /\ reader' \in {reader, [reader EXCEPT ![r] = w]}
      /\ sent' = [sent EXCEPT ![f] = sent[f] + 1]
      /\ UNCHANGED <<closed, queue, arrived>>
  BY DEF Read, registry
<1>2. w.pkt = pkt /\ w.at \notin {"idle", "after"} /\ pkt.flow = f /\ pkt.no = sent[f] + 1
  BY PlainReads DEF Idle
<1>3. p \in Flow \X (1..MaxPacket)
  BY RelayAssumption DEF Read, IInv, Types
<1>4. Carried' = Carried /\ Broken' = Broken
  BY <1>1, StillCarried DEF Broken
<1>. HIDE DEF pkt, w
<1>5. CASE reader' = reader
  <2>1. Held' = Held
    BY <1>5 DEF Held, Forwarding
  <2>2. D!Send(f)
    BY <1>1, <1>4, <2>1 DEF D!Send
  <2>. QED  BY <2>2 DEF D!Next
<1>6. CASE reader' = [reader EXCEPT ![r] = w]
  <2>1. \A s \in Conn : reader'[s] = IF s = r THEN w ELSE reader[s]
    BY <1>6 DEF IInv, Types
  <2>2. \A s \in Conn : \A g, n : InHand(s, g, n)' <=> InHand(s, g, n) \/ (s = r /\ <<g, n>> = p)
    BY <1>1, <1>2, <2>1 DEF InHand, FlowOf
  <2>. HIDE DEF p
  <2>3. ASSUME NEW x \in Flow \X (1..MaxPacket)
        PROVE  x \in Held' <=> x \in Held \/ x = p
    <3>1. PICK g \in Flow, n \in 1..MaxPacket : x = <<g, n>>
      OBVIOUS
    <3>2. /\ <<g, n>> \in Held <=> \E s \in Conn : InHand(s, g, n)
          /\ <<g, n>> \in Held' <=> \E s \in Conn : InHand(s, g, n)'
      BY ViewsAre, ViewsThen DEF Views
    <3>. HIDE DEF InHand
    <3>. QED  BY <2>2, <3>1, <3>2
  <2>4. Held \subseteq Flow \X (1..MaxPacket) /\ Held' \subseteq Flow \X (1..MaxPacket)
    BY ViewsAre, ViewsThen DEF Views
  <2>5. Held' = Held \cup {p}
    BY <1>3, <2>3, <2>4
  <2>6. D!Send(f)
    BY <1>1, <1>4, <2>5 DEF D!Send, p
  <2>. QED  BY <2>6 DEF D!Next
<1>. QED  BY <1>1, <1>5, <1>6

\* Every step of the relay is a step of Delivery or changes nothing it shows.
LEMMA StepDelivers ==
    ASSUME IInv, IInv', Once, [Next]_vars
    PROVE  [D!Next]_<<sent, Held, Carried, arrived, Broken>>
<1>1. ASSUME NEW r \in Conn, After(r)
      PROVE  Unseen
  <2>1. /\ \A s \in Conn \ {r} : reader'[s] = reader[s]
        /\ reader[r].at = "after" /\ reader'[r].at = "idle"
        /\ UNCHANGED <<closed, queue, sent, arrived>>
    BY <1>1, Returns DEF After, IInv, registry
  <2>2. \A f, n : \A s \in Conn : InHand(s, f, n)' <=> InHand(s, f, n)
    BY <2>1 DEF InHand, FlowOf
  <2>3. Held' = Held
    BY <2>2, SameHeld
  <2>. QED  BY <2>1, <2>3, StillCarried DEF Unseen, Broken
<1>2. ASSUME UNCHANGED <<queue, reader, sent, arrived>>, UNCHANGED closed
      PROVE  Unseen
  BY <1>2, StillCarried DEF Unseen, Held, Forwarding, Broken
<1>3. ASSUME NEW c \in Conn, Close(c)
      PROVE  D!Next
  <2>1. /\ closed' = [closed EXCEPT ![c] = TRUE]
        /\ UNCHANGED <<queue, reader, sent, arrived>>
    BY <1>3 DEF Close
  <2>2. Broken \subseteq Broken' /\ Broken' \subseteq Conn
    BY <2>1 DEF Broken, IInv, Types
  <2>3. Held' = Held /\ Carried' = Carried
    BY <2>1, StillCarried DEF Held, Forwarding
  <2>4. D!Break
    BY <2>1, <2>2, <2>3 DEF D!Break
  <2>. QED  BY <2>4 DEF D!Next
<1>4. ASSUME \/ \E c \in Conn : Register(c) \/ Unregister(c)
             \/ \E f \in TcpFlow : Expire(f)
             \/ UNCHANGED vars
      PROVE  Unseen
  BY <1>2, <1>4 DEF Register, Unregister, Expire, vars, registry
<1>5. ASSUME NEW r \in Conn, \/ Route(r) \/ TryStandby(r) \/ Push(r) \/ PushTimeout(r)
                             \/ Udp(r) \/ UdpWait(r) \/ Icmp(r) \/ IcmpWait(r)
      PROVE  Unseen \/ D!Next
  BY <1>5, ReaderSteps, TurnsShown, QueuesAccepts DEF Queues
<1>6. Unseen \/ D!Next
  BY <1>1, <1>3, <1>4, <1>5, WriteArrives, ReadSends DEF Next
<1>. QED  BY <1>6 DEF Unseen

\* The relay forwards at most once: what a reader has given to one connection
\* is tried on no other, through retries, standbys and time limits, and what
\* was given up does not come back.
THEOREM RelayImplementsDelivery == Spec => ImplementsDelivery
<1>1. Init => D!Init
  <2>. SUFFICES ASSUME Init
                PROVE  D!Init
    OBVIOUS
  <2>1. Held = {} /\ Broken = {}
    BY DEF Init, Idle, Held, Forwarding, Broken
  <2>2. \A c \in Conn : Range(queue[c]) = {}
    <3>1. Range(<<>>) = {}
      BY DEF Range
    <3>. QED  BY <3>1 DEF Init
  <2>3. Carried = {}
    BY <2>2 DEF Carried
  <2>. QED  BY <2>1, <2>3 DEF Init, D!Init
<1>2. Init => Once
  BY DEF Init, Once, Single, InQueue, Written, InHand, Idle
<1>3. IInv /\ IInv' /\ Once /\ [Next]_vars => [D!Next]_<<sent, Held, Carried, arrived, Broken>>
  BY StepDelivers
<1>. QED
  BY <1>1, <1>2, <1>3, OnceInv, Inductive, PTL DEF Spec, ImplementsDelivery, D!Spec, D!vars
=============================================================================
