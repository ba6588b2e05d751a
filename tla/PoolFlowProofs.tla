--------------------------- MODULE PoolFlowProofs ---------------------------
(***************************************************************************)
(* The client's data path for every number of connections, flows and       *)
(* packets and every queue capacity.                                       *)
(***************************************************************************)
EXTENDS PoolFlow, Lemmas, SequenceTheorems, TLAPS

Places == {"idle", "route", "primary", "burst", "try", "check", "push", "after",
           "snapshot", "tryUdp", "brief"}
ReaderState == [at : Places, pkt : Packet \cup {NoPacket}, to : Conn \cup {None},
                bound : BOOLEAN, tries : Seq(Conn)]

Types ==
    /\ role \in [Conn -> {"none", "standby", "primary", "draining"}]
    /\ alive \in [Conn -> BOOLEAN]
    /\ queue \in [Conn -> Seq(Packet)]
    /\ \A c \in Conn : Len(queue[c]) <= Cap
    /\ inflight \in [Conn -> Packet \cup {NoPacket}]
    /\ wire \in [Conn -> Seq(Packet)]
    /\ tcpFlows \in [TcpFlow -> Conn \cup {None}]
    /\ sent \in [Flow -> 0..MaxPacket]
    /\ arrived \in [Flow -> Seq(Nat)]
    /\ dropped \subseteq Packet
    /\ finished \subseteq TcpFlow

\* The reader has a packet of the class it is being dispatched as, and the
\* connections its step needs.
Reads ==
    /\ reader \in ReaderState
    /\ reader.at = "idle" => reader = Idle
    /\ reader.at # "idle" =>
         /\ reader.pkt \in Packet
         /\ IF reader.pkt.flow \in TcpFlow THEN reader.pkt.kind \in TcpKind
            ELSE reader.pkt.kind = reader.pkt.flow
    /\ reader.at \in {"route", "burst", "try", "check", "push", "after"} =>
         reader.pkt.flow \in TcpFlow
    /\ reader.at = "primary" => reader.pkt.flow \in TcpFlow \/ reader.pkt.flow = "icmp"
    /\ reader.at \in {"snapshot", "tryUdp", "brief"} => reader.pkt.flow \notin TcpFlow
    /\ reader.at \in {"burst", "try", "check", "push", "after", "brief"} => reader.to \in Conn
    /\ reader.at = "try" => reader.tries # <<>>

Joined(c) == role[c] # "none"

\* Only connections that have joined are used for anything.
Members ==
    /\ \A c \in Conn : ~Joined(c) => /\ ~alive[c] /\ queue[c] = <<>>
                                     /\ inflight[c] = NoPacket /\ wire[c] = <<>>
    /\ \A f \in TcpFlow : tcpFlows[f] # None => Joined(tcpFlows[f])
    /\ reader.to # None => Joined(reader.to)
    /\ \A i \in 1..Len(reader.tries) : Joined(reader.tries[i])

IInv == Types /\ Reads /\ Members

-----------------------------------------------------------------------------
(* The operators.                                                          *)

LEMMA Constants ==
    /\ Cap \in Nat /\ MaxPacket \in Nat /\ MaxConn \in Nat
    /\ Conn \subseteq Nat /\ None \notin Conn
    /\ NoPacket \notin Packet
    /\ \A f \in Flow : f # "none"
  BY PoolFlowAssumption DEF Conn, None, NoPacket, Packet, Flow

\* The first of some connections is one of them.
LEMMA FirstOfThem ==
    ASSUME NEW S \in SUBSET Conn, S # {}
    PROVE  FirstOf(S) \in S
<1>1. S \in SUBSET Nat
  BY Constants
<1>. QED  BY <1>1, LeastNatural DEF FirstOf

LEMMA AliveThem ==
    ASSUME Types, NEW what
    PROVE  /\ Alive(what) \subseteq Conn /\ Primaries \subseteq Conn
           /\ \A c \in Alive(what) : alive[c] /\ role[c] = what
           /\ \A c \in Primaries : alive[c] /\ role[c] = "primary"
  BY DEF Alive, Primaries

\* A listing of connections is a list of them.
LEMMA ListingsAre ==
    ASSUME NEW S \in SUBSET Conn, NEW s \in Listings(S)
    PROVE  s \in Seq(Conn) /\ \A i \in 1..Len(s) : s[i] \in S
<1>1. IsFiniteSet(S)
  <2>1. IsFiniteSet(1..MaxConn)
    BY FS_Interval, Constants
  <2>. QED  BY <2>1, FS_Subset DEF Conn
<1>2. Cardinality(S) \in Nat
  BY <1>1, FS_CardinalityType
<1>3. s \in [1..Cardinality(S) -> S]
  BY DEF Listings
<1>. QED  BY <1>2, <1>3

\* A packet joins a queue that has room.
LEMMA Accepts ==
    ASSUME Types, NEW c \in Conn, NEW pkt \in Packet, HasRoom(c), queue' = Queued(c, pkt)
    PROVE  /\ queue' \in [Conn -> Seq(Packet)]
           /\ \A d \in Conn \ {c} : queue'[d] = queue[d]
           /\ Len(queue'[c]) = Len(queue[c]) + 1
           /\ Len(queue[c]) \in Nat
           /\ \A i \in 1..Len(queue[c]) : queue'[c][i] = queue[c][i]
           /\ queue'[c][Len(queue[c]) + 1] = pkt
           /\ \A d \in Conn : Len(queue'[d]) <= Cap
<1>1. queue[c] \in Seq(Packet) /\ Len(queue[c]) \in Nat /\ queue \in [Conn -> Seq(Packet)]
  BY DEF Types
<1>2. queue'[c] = Append(queue[c], pkt) /\ \A d \in Conn \ {c} : queue'[d] = queue[d]
  BY <1>1 DEF Queued
<1>3. /\ Append(queue[c], pkt) \in Seq(Packet)
      /\ Len(Append(queue[c], pkt)) = Len(queue[c]) + 1
      /\ \A i \in 1..Len(queue[c]) : Append(queue[c], pkt)[i] = queue[c][i]
      /\ Append(queue[c], pkt)[Len(queue[c]) + 1] = pkt
  BY <1>1, AppendProperties
<1>4. queue' \in [Conn -> Seq(Packet)]
  BY <1>1, <1>3 DEF Queued
<1>5. \A d \in Conn : Len(queue'[d]) <= Cap
  <2>1. Len(queue[c]) + 1 <= Cap
    BY <1>1, Constants DEF HasRoom
  <2>. QED  BY <1>2, <1>3, <2>1 DEF Types
<1>. QED  BY <1>1, <1>2, <1>3, <1>4, <1>5

-----------------------------------------------------------------------------
(* The steps of the reader, in the forms the proofs need.                  *)

\* It goes on with its packet,
Turns ==
    /\ reader'.pkt = reader.pkt
    /\ \/ /\ reader.at = "route"
          /\ IF Bound(reader.pkt.flow) = None THEN reader'.at = "primary"
             ELSE reader'.at = "check" /\ reader'.to = Bound(reader.pkt.flow)
       \/ reader.at \in {"primary", "burst", "try"} /\ reader'.at \in {"burst", "try", "check", "brief"}
       \/ reader.at = "check" /\ reader'.at = "push" /\ reader'.to = reader.to
       \/ reader.at \in {"check", "push"} /\ reader'.at = "route"
       \/ reader.at \in {"snapshot", "tryUdp"} /\ reader'.at \in {"tryUdp", "brief"}
    /\ \/ UNCHANGED tcpFlows
       \/ /\ reader.at \in {"check", "push"} /\ ~alive[reader.to]
          /\ tcpFlows' = [tcpFlows EXCEPT ![reader.pkt.flow] = None]
    /\ UNCHANGED <<lanes, data, sent, arrived, dropped, finished>>

\* puts it on a queue,
Puts(c) ==
    /\ c \in Conn /\ Joined(c) /\ HasRoom(c) /\ queue' = Queued(c, reader.pkt)
    /\ reader.at \notin {"idle", "after"}
    /\ \/ reader.pkt.flow \notin TcpFlow /\ reader' = Idle
       \/ /\ reader.pkt.flow \in TcpFlow /\ reader.at \in {"try", "push"}
          /\ reader.at = "push" => c = reader.to
          /\ reader'.at = "after" /\ reader'.to = c /\ reader'.pkt = reader.pkt
    /\ UNCHANGED <<lanes, inflight, wire, tcpFlows, sent, arrived, dropped, finished>>

\* or gives a datagram up.
GivesUp ==
    /\ reader.at \in {"tryUdp", "brief"} /\ reader' = Idle
    /\ dropped' = dropped \cup {reader.pkt}
    /\ UNCHANGED <<lanes, data, tcpFlows, sent, arrived, finished>>

\* What a step of the reader leaves for the next one.
Ready == Reads' /\ (reader'.to # None => Joined(reader'.to))
                /\ \A i \in 1..Len(reader'.tries) : Joined(reader'.tries[i])

LEMMA RouteStep ==
    ASSUME IInv, Route
    PROVE  Turns /\ Ready
<1>. DEFINE f == reader.pkt.flow
<1>1. /\ reader.at = "route" /\ f \in TcpFlow /\ reader \in ReaderState
      /\ reader.pkt \in Packet
  BY DEF Route, IInv, Reads
<1>2. Bound(f) # None => Bound(f) \in Conn /\ Joined(Bound(f))
  BY <1>1 DEF Bound, IInv, Types, Members
<1>3. CASE Bound(f) # None
  <2>1. reader' = [reader EXCEPT !.at = "check", !.to = Bound(f), !.bound = TRUE]
    BY <1>3 DEF Route
  <2>. HIDE DEF f
  <2>2. Reads'
    BY <1>1, <1>2, <1>3, <2>1 DEF IInv, Reads, ReaderState, Places, f
  <2>. QED  BY <1>1, <1>2, <1>3, <2>1, <2>2 DEF Route, Turns, Ready, ReaderState, IInv, Members
<1>4. CASE Bound(f) = None
  <2>1. reader' = [reader EXCEPT !.at = "primary", !.bound = FALSE]
    BY <1>4 DEF Route
  <2>2. Reads'
    BY <1>1, <2>1 DEF IInv, Reads, ReaderState, Places
  <2>. QED  BY <1>1, <2>1, <2>2 DEF Route, Turns, Ready, ReaderState, IInv, Members
<1>. QED  BY <1>3, <1>4

LEMMA TakePrimaryStep ==
    ASSUME IInv, TakePrimary
    PROVE  Turns /\ Ready
<1>. DEFINE p == FirstOf(Primaries)
            at == CASE reader.pkt.kind = "syn"  -> "burst"
                    [] reader.pkt.kind = "icmp" -> "brief"
                    [] OTHER -> "check"
<1>1. /\ reader.at = "primary" /\ reader \in ReaderState /\ reader.pkt \in Packet
      /\ reader.pkt.flow \in TcpFlow \/ reader.pkt.flow = "icmp"
  BY DEF TakePrimary, IInv, Reads
<1>2. p \in Conn /\ Joined(p)
  BY FirstOfThem, AliveThem DEF TakePrimary, IInv, Joined
<1>3. /\ at \in {"burst", "brief", "check"}
      /\ reader.pkt.flow \in TcpFlow => at \in {"burst", "check"}
      /\ reader.pkt.flow \notin TcpFlow => at = "brief"
  BY <1>1, PoolFlowAssumption DEF IInv, Reads, Packet
<1>4. reader' = [reader EXCEPT !.to = p, !.at = at]
  BY DEF TakePrimary
<1>. HIDE DEF p, at
<1>5. Reads'
  BY <1>1, <1>2, <1>3, <1>4 DEF IInv, Reads, ReaderState, Places
<1>. QED  BY <1>1, <1>2, <1>3, <1>4, <1>5
          DEF TakePrimary, Turns, Ready, ReaderState, IInv, Members

LEMMA BurstStep ==
    ASSUME IInv, Burst
    PROVE  Turns /\ Ready
<1>. DEFINE room(c) == Cap - Len(queue[c])
            best == {c \in Alive("standby") : \A d \in Alive("standby") : room(c) >= room(d)}
            b == FirstOf(best)
<1>1. reader.at = "burst" /\ reader \in ReaderState
  BY DEF Burst, IInv, Reads
<1>2. \/ reader' = [reader EXCEPT !.at = "check"]
      \/ best # {} /\ reader' = [reader EXCEPT !.at = "try", !.tries = <<b>>]
  BY DEF Burst
<1>3. best \in SUBSET Conn /\ \A c \in best : Joined(c)
  BY AliveThem DEF IInv, Joined
<1>4. best # {} => b \in Conn /\ Joined(b)
  BY <1>3, FirstOfThem
<1>. HIDE DEF best, b
<1>5. CASE reader' = [reader EXCEPT !.at = "check"]
  <2>1. reader.to \in Conn
    BY <1>1, <1>5 DEF IInv, Reads
  <2>2. Reads'
    BY <1>1, <1>5, <2>1 DEF IInv, Reads, ReaderState, Places
  <2>. QED  BY <1>1, <1>5, <2>2 DEF Burst, Turns, Ready, ReaderState, IInv, Members
<1>6. CASE best # {} /\ reader' = [reader EXCEPT !.at = "try", !.tries = <<b>>]
  <2>1. <<b>> \in Seq(Conn) /\ Len(<<b>>) = 1 /\ <<b>>[1] = b /\ <<b>> # <<>>
    BY <1>4, <1>6
  <2>2. Reads'
    BY <1>1, <1>6, <2>1 DEF IInv, Reads, ReaderState, Places
  <2>3. \A i \in 1..Len(<<b>>) : Joined(<<b>>[i])
    BY <1>4, <1>6, <2>1
  <2>. QED  BY <1>1, <1>6, <2>2, <2>3 DEF Burst, Turns, Ready, ReaderState, IInv, Members
<1>. QED  BY <1>2, <1>5, <1>6

\* The first of the connections to try.
LEMMA NextTry ==
    ASSUME IInv, reader.tries # <<>>
    PROVE  /\ Head(reader.tries) \in Conn /\ Joined(Head(reader.tries))
           /\ Tail(reader.tries) \in Seq(Conn)
           /\ \A i \in 1..Len(Tail(reader.tries)) : Joined(Tail(reader.tries)[i])
<1>1. reader.tries \in Seq(Conn) /\ \A i \in 1..Len(reader.tries) : Joined(reader.tries[i])
  BY DEF IInv, Reads, ReaderState, Members
<1>2. /\ Tail(reader.tries) \in Seq(Conn)
      /\ Len(Tail(reader.tries)) = Len(reader.tries) - 1
      /\ \A i \in 1..Len(Tail(reader.tries)) : Tail(reader.tries)[i] = reader.tries[i + 1]
      /\ Head(reader.tries) = reader.tries[1] /\ Len(reader.tries) \in Nat
  BY <1>1, HeadTailProperties
<1>3. 1 \in 1..Len(reader.tries)
  BY <1>1, <1>2
<1>4. \A i \in 1..Len(Tail(reader.tries)) : i + 1 \in 1..Len(reader.tries)
  BY <1>2
<1>. QED  BY <1>1, <1>2, <1>3, <1>4

LEMMA TryBurstStep ==
    ASSUME IInv, TryBurst
    PROVE  (Turns \/ \E c \in Conn : Puts(c)) /\ Ready
<1>. DEFINE c == Head(reader.tries)
<1>1. /\ reader.at = "try" /\ reader \in ReaderState /\ reader.tries # <<>>
      /\ reader.pkt.flow \in TcpFlow /\ reader.to \in Conn
  BY DEF TryBurst, IInv, Reads
<1>2. c \in Conn /\ Joined(c)
  BY <1>1, NextTry
<1>3. CASE alive[c] /\ HasRoom(c)
  <2>1. /\ queue' = Queued(c, reader.pkt)
        /\ reader' = [reader EXCEPT !.at = "after", !.to = c]
        /\ UNCHANGED <<lanes, inflight, wire, tcpFlows, sent, arrived, dropped, finished>>
    BY <1>3 DEF TryBurst
  <2>. HIDE DEF c
  <2>2. Reads'
    BY <1>1, <1>2, <2>1 DEF IInv, Reads, ReaderState, Places
  <2>. QED  BY <1>1, <1>2, <1>3, <2>1, <2>2 DEF Puts, Ready, ReaderState, IInv, Members
<1>4. CASE ~ (alive[c] /\ HasRoom(c))
  <2>1. /\ reader' = [reader EXCEPT !.at = "check"]
        /\ UNCHANGED <<lanes, data, tcpFlows, sent, arrived, dropped, finished>>
    BY <1>4 DEF TryBurst, data
  <2>2. Reads'
    BY <1>1, <2>1 DEF IInv, Reads, ReaderState, Places
  <2>. QED  BY <1>1, <2>1, <2>2 DEF Turns, Ready, ReaderState, IInv, Members
<1>. QED  BY <1>3, <1>4

LEMMA ClosedStep ==
    ASSUME IInv, reader.at \in {"check", "push"}, ~alive[reader.to], Closed,
           UNCHANGED <<lanes, data, sent, arrived, dropped, finished>>
    PROVE  Turns /\ Ready
<1>1. /\ reader \in ReaderState /\ reader' = [reader EXCEPT !.at = "route"]
      /\ reader.pkt.flow \in TcpFlow
  BY DEF Closed, IInv, Reads
<1>2. Reads'
  BY <1>1 DEF IInv, Reads, ReaderState, Places
<1>. QED  BY <1>1, <1>2 DEF Closed, Turns, Ready, ReaderState, IInv, Members

LEMMA CheckStep ==
    ASSUME IInv, Check
    PROVE  Turns /\ Ready
<1>1. CASE alive[reader.to] /\ reader' = [reader EXCEPT !.at = "push"] /\ UNCHANGED tcpFlows
  <2>1. /\ reader.at = "check" /\ reader \in ReaderState
        /\ UNCHANGED <<lanes, data, sent, arrived, dropped, finished>>
    BY DEF Check, IInv, Reads
  <2>2. Reads'
    BY <1>1, <2>1 DEF IInv, Reads, ReaderState, Places
  <2>. QED  BY <1>1, <2>1, <2>2 DEF Turns, Ready, ReaderState, IInv, Members
<1>. QED  BY <1>1, ClosedStep DEF Check

LEMMA PushStep ==
    ASSUME IInv, Push
    PROVE  (Turns \/ \E c \in Conn : Puts(c)) /\ Ready
<1>1. CASE /\ HasRoom(reader.to) /\ queue' = Queued(reader.to, reader.pkt)
           /\ reader' = [reader EXCEPT !.at = "after"] /\ UNCHANGED tcpFlows
  <2>1. /\ reader.at = "push" /\ reader \in ReaderState /\ reader.pkt.flow \in TcpFlow
        /\ reader.to \in Conn /\ Joined(reader.to)
        /\ UNCHANGED <<lanes, inflight, wire, sent, arrived, dropped, finished>>
    BY Constants DEF Push, IInv, Reads, Members
  <2>2. Reads'
    BY <1>1, <2>1 DEF IInv, Reads, ReaderState, Places
  <2>. QED  BY <1>1, <2>1, <2>2 DEF Puts, Ready, ReaderState, IInv, Members
<1>2. CASE ~alive[reader.to] /\ Closed /\ UNCHANGED queue
  BY <1>2, ClosedStep DEF Push, data
<1>. QED  BY <1>1, <1>2 DEF Push

LEMMA IdleReads ==
    ASSUME reader' = Idle
    PROVE  Ready
  BY Constants DEF Ready, Reads, Idle, ReaderState, Places, None

LEMMA SnapshotStep ==
    ASSUME IInv, Snapshot
    PROVE  Turns /\ Ready
<1>1. /\ reader.at = "snapshot" /\ reader \in ReaderState
      /\ UNCHANGED <<lanes, data, tcpFlows, sent, arrived, dropped, finished>>
  BY DEF Snapshot, IInv, Reads
<1>2. PICK first \in Listings(Primaries), others \in Listings(Alive("standby")) :
             reader' = [reader EXCEPT !.at = "tryUdp", !.tries = first \o others]
  BY DEF Snapshot
<1>3. /\ first \in Seq(Conn) /\ \A i \in 1..Len(first) : Joined(first[i])
      /\ others \in Seq(Conn) /\ \A i \in 1..Len(others) : Joined(others[i])
  BY ListingsAre, AliveThem DEF IInv, Joined
<1>. DEFINE t == first \o others
<1>4. /\ t \in Seq(Conn) /\ Len(t) = Len(first) + Len(others)
      /\ \A i \in 1..Len(t) : t[i] = IF i <= Len(first) THEN first[i] ELSE others[i - Len(first)]
  BY <1>3, ConcatProperties
<1>5. \A i \in 1..Len(t) : Joined(t[i])
  <2>1. SUFFICES ASSUME NEW i \in 1..Len(t)
                 PROVE  Joined(t[i])
    OBVIOUS
  <2>. HIDE DEF t
  <2>2. Len(first) \in Nat /\ Len(others) \in Nat
    BY <1>3
  <2>3. \/ i \in 1..Len(first)
        \/ ~ (i <= Len(first)) /\ i - Len(first) \in 1..Len(others)
    BY <1>4, <2>2
  <2>. QED  BY <1>3, <1>4, <2>2, <2>3
<1>. HIDE DEF t
<1>6. reader' = [reader EXCEPT !.at = "tryUdp", !.tries = t]
  BY <1>2 DEF t
<1>7. Reads'
  BY <1>1, <1>4, <1>6 DEF IInv, Reads, ReaderState, Places
<1>. QED  BY <1>1, <1>5, <1>6, <1>7 DEF Turns, Ready, ReaderState, IInv, Members

LEMMA TryUdpStep ==
    ASSUME IInv, TryUdp
    PROVE  (Turns \/ \E c \in Conn : Puts(c)) /\ Ready
<1>. DEFINE c == Head(reader.tries)
<1>1. /\ reader.at = "tryUdp" /\ reader \in ReaderState /\ reader.tries # <<>>
      /\ reader.pkt.flow \notin TcpFlow
  BY DEF TryUdp, IInv, Reads
<1>2. /\ c \in Conn /\ Joined(c) /\ Tail(reader.tries) \in Seq(Conn)
      /\ \A i \in 1..Len(Tail(reader.tries)) : Joined(Tail(reader.tries)[i])
  BY <1>1, NextTry
<1>3. CASE alive[c] /\ HasRoom(c)
  <2>1. /\ queue' = Queued(c, reader.pkt) /\ reader' = Idle
        /\ UNCHANGED <<lanes, inflight, wire, tcpFlows, sent, arrived, dropped, finished>>
    BY <1>3 DEF TryUdp
  <2>. QED  BY <1>1, <1>2, <1>3, <2>1, IdleReads DEF Puts
<1>4. CASE ~ (alive[c] /\ HasRoom(c))
  <2>1. /\ reader' = [reader EXCEPT !.tries = Tail(reader.tries)]
        /\ UNCHANGED <<lanes, data, tcpFlows, sent, arrived, dropped, finished>>
    BY <1>4 DEF TryUdp, data
  <2>2. Reads'
    BY <1>1, <1>2, <2>1 DEF IInv, Reads, ReaderState, Places
  <2>. QED  BY <1>1, <1>2, <2>1, <2>2 DEF Turns, Ready, ReaderState, IInv, Members
<1>. QED  BY <1>3, <1>4

LEMMA LastResortStep ==
    ASSUME IInv, LastResort
    PROVE  (Turns \/ GivesUp) /\ Ready
<1>1. /\ reader.at = "tryUdp" /\ reader \in ReaderState
      /\ UNCHANGED <<lanes, data, tcpFlows, sent, arrived, finished>>
  BY DEF LastResort, IInv, Reads
<1>2. CASE Primaries = {}
  BY <1>1, <1>2, IdleReads DEF LastResort, GivesUp
<1>3. CASE Primaries # {}
  <2>. DEFINE p == FirstOf(Primaries)
  <2>1. p \in Conn /\ Joined(p)
    BY <1>3, FirstOfThem, AliveThem DEF IInv, Joined
  <2>2. reader' = [reader EXCEPT !.at = "brief", !.to = p] /\ UNCHANGED dropped
    BY <1>3 DEF LastResort
  <2>. HIDE DEF p
  <2>3. Reads'
    BY <1>1, <2>1, <2>2 DEF IInv, Reads, ReaderState, Places
  <2>. QED  BY <1>1, <2>1, <2>2, <2>3 DEF Turns, Ready, ReaderState, IInv, Members
<1>. QED  BY <1>2, <1>3

LEMMA BriefStep ==
    ASSUME IInv, Brief
    PROVE  (GivesUp \/ \E c \in Conn : Puts(c)) /\ Ready
<1>1. /\ reader.at = "brief" /\ reader.pkt.flow \notin TcpFlow /\ reader' = Idle
      /\ reader.to \in Conn /\ Joined(reader.to)
  BY Constants DEF Brief, IInv, Reads, Members
<1>. QED  BY <1>1, IdleReads DEF Brief, GivesUp, Puts, data

\* A new packet is dispatched.
LEMMA ReadStep ==
    ASSUME IInv, NEW f \in Flow, NEW kind \in TcpKind \cup Datagram, Read(f, kind)
    PROVE  /\ Ready /\ reader.at = "idle"
           /\ reader'.at \in {"route", "snapshot", "primary"}
           /\ reader'.at = "primary" => f \notin TcpFlow
           /\ reader'.pkt.flow = f /\ reader'.pkt.no = sent[f] + 1
           /\ sent' = [sent EXCEPT ![f] = sent[f] + 1] /\ sent[f] + 1 \in 1..MaxPacket
           /\ UNCHANGED <<lanes, data, tcpFlows, arrived, dropped, finished>>
<1>. DEFINE pkt == [flow |-> f, no |-> sent[f] + 1, kind |-> kind]
            at == IF f \in TcpFlow THEN "route" ELSE IF f = "udp" THEN "snapshot" ELSE "primary"
<1>1. sent[f] + 1 \in 1..MaxPacket /\ reader.at = "idle"
  BY Constants DEF Read, IInv, Types
<1>2. /\ pkt \in Packet /\ pkt.flow = f /\ pkt.no = sent[f] + 1 /\ pkt.kind = kind
  BY <1>1 DEF Packet
<1>3. /\ at \in {"route", "snapshot", "primary"}
      /\ (at = "route") <=> (f \in TcpFlow)
      /\ (at = "primary") => (f = "icmp")
  BY PoolFlowAssumption DEF Flow
<1>4. IF f \in TcpFlow THEN kind \in TcpKind ELSE kind = f
  BY DEF Read
<1>5. reader' = [Idle EXCEPT !.pkt = pkt, !.at = at]
  BY DEF Read
<1>. HIDE DEF pkt, at
<1>6. /\ reader' \in ReaderState /\ reader'.at = at /\ reader'.pkt = pkt
      /\ reader'.to = None /\ reader'.tries = <<>>
  <2>. DEFINE w == [Idle EXCEPT !.pkt = pkt, !.at = at]
  <2>1. /\ w.at = at /\ w.pkt = pkt /\ w.to = None /\ w.bound = FALSE /\ w.tries = <<>>
    BY DEF Idle
  <2>3. at \in Places /\ <<>> \in Seq(Conn)
    BY <1>3 DEF Places
  <2>4. w \in ReaderState
    BY <1>2, <2>3 DEF Idle, ReaderState
  <2>. QED  BY <1>5, <2>1, <2>4
<1>7. Ready
  BY <1>2, <1>3, <1>4, <1>6 DEF Ready, Reads
<1>. QED  BY <1>1, <1>2, <1>3, <1>6, <1>7 DEF Read

\* All but Read and After.
LEMMA ReaderSteps ==
    ASSUME IInv, \/ Route \/ TakePrimary \/ Burst \/ TryBurst \/ Check \/ Push
                 \/ Snapshot \/ TryUdp \/ LastResort \/ Brief
    PROVE  Ready /\ (Turns \/ GivesUp \/ \E c \in Conn : Puts(c))
  BY RouteStep, TakePrimaryStep, BurstStep, TryBurstStep, CheckStep, PushStep, SnapshotStep,
     TryUdpStep, LastResortStep, BriefStep

-----------------------------------------------------------------------------
(* Types.                                                                  *)

LEMMA InitInv == Init => IInv
<1>. SUFFICES ASSUME Init
              PROVE  IInv
  OBVIOUS
<1>1. Types
  BY Constants DEF Init, Types, None
<1>2. Reads
  BY Constants DEF Init, Reads, Idle, ReaderState, Places, None
<1>3. reader.to = None /\ reader.tries = <<>>
  BY DEF Init, Idle
<1>4. Members
  <2>1. \A c \in Conn : ~Joined(c) => /\ ~alive[c] /\ queue[c] = <<>>
                                      /\ inflight[c] = NoPacket /\ wire[c] = <<>>
    BY DEF Init, Joined
  <2>2. \A f \in TcpFlow : tcpFlows[f] = None
    BY DEF Init
  <2>3. 1..Len(reader.tries) = {}
    BY <1>3
  <2>. QED  BY <1>3, <2>1, <2>2, <2>3 DEF Members
<1>. QED  BY <1>1, <1>2, <1>4 DEF IInv

LEMMA ReaderInv ==
    ASSUME IInv, Ready, Turns \/ GivesUp \/ \E c \in Conn : Puts(c)
    PROVE  IInv'
<1>1. CASE Turns
  <2>1. Types'
    BY <1>1 DEF Turns, IInv, Types, lanes, data
  <2>2. Members'
    BY <1>1 DEF Turns, IInv, Types, Members, Joined, Ready, lanes, data
  <2>. QED  BY <2>1, <2>2 DEF IInv, Ready
<1>2. CASE GivesUp
  <2>1. reader.pkt \in Packet
    BY <1>2 DEF GivesUp, IInv, Reads
  <2>2. Types'
    BY <1>2, <2>1 DEF GivesUp, IInv, Types, lanes, data
  <2>3. Members'
    BY <1>2 DEF GivesUp, IInv, Members, Joined, Ready, lanes, data
  <2>. QED  BY <2>2, <2>3 DEF IInv, Ready
<1>3. ASSUME NEW c \in Conn, Puts(c)
      PROVE  IInv'
  <2>1. reader.pkt \in Packet
    BY <1>3 DEF Puts, IInv, Reads
  <2>2. /\ queue' \in [Conn -> Seq(Packet)]
        /\ \A d \in Conn \ {c} : queue'[d] = queue[d]
        /\ \A d \in Conn : Len(queue'[d]) <= Cap
    BY <1>3, <2>1, Accepts DEF Puts, IInv
  <2>3. Types'
    BY <1>3, <2>2 DEF Puts, IInv, Types, lanes
  <2>4. Members'
    BY <1>3, <2>2 DEF Puts, IInv, Members, Joined, Ready, lanes
  <2>. QED  BY <2>3, <2>4 DEF IInv, Ready
<1>. QED  BY <1>1, <1>2, <1>3

LEMMA AfterInv ==
    ASSUME IInv, After
    PROVE  IInv'
<1>1. reader.pkt.flow \in TcpFlow /\ reader.to \in Conn /\ reader.to # None /\ Joined(reader.to)
  BY Constants DEF After, IInv, Reads, Members
<1>2. Types'
  BY <1>1 DEF After, IInv, Types, lanes, data
<1>3. Ready
  BY IdleReads DEF After
<1>4. Members'
  BY <1>1, <1>3 DEF After, IInv, Types, Members, Joined, Ready, lanes, data
<1>. QED  BY <1>2, <1>3, <1>4 DEF IInv, Ready

LEMMA ReadInv ==
    ASSUME IInv, NEW f \in Flow, NEW kind \in TcpKind \cup Datagram, Read(f, kind)
    PROVE  IInv'
<1>1. /\ Ready /\ sent' = [sent EXCEPT ![f] = sent[f] + 1] /\ sent[f] + 1 \in 1..MaxPacket
      /\ UNCHANGED <<lanes, data, tcpFlows, arrived, dropped, finished>>
  BY ReadStep
<1>2. Types'
  BY <1>1, Constants DEF IInv, Types, lanes, data
<1>3. Members'
  BY <1>1 DEF IInv, Members, Joined, Ready, lanes, data
<1>. QED  BY <1>1, <1>2, <1>3 DEF IInv, Ready

\* What moves from one list to another.
LEMMA Leaves ==
    ASSUME NEW s \in Seq(Packet), s # <<>>
    PROVE  /\ Head(s) \in Packet /\ Head(s) = s[1]
           /\ Len(s) \in Nat /\ 1 <= Len(s)
           /\ Tail(s) \in Seq(Packet) /\ Len(Tail(s)) = Len(s) - 1
           /\ \A i \in 1..Len(Tail(s)) : Tail(s)[i] = s[i + 1]
  BY HeadTailProperties

LEMMA PacketFields ==
    ASSUME NEW pkt \in Packet
    PROVE  pkt.flow \in Flow /\ pkt.no \in 1..MaxPacket /\ pkt.no \in Nat
  BY Constants DEF Packet

LEMMA TakeInv ==
    ASSUME IInv, NEW c \in Conn, Take(c)
    PROVE  IInv'
<1>1. /\ Head(queue[c]) \in Packet /\ Tail(queue[c]) \in Seq(Packet)
      /\ Len(Tail(queue[c])) <= Cap /\ alive[c]
  BY Leaves, Constants DEF Take, IInv, Types
<1>2. Types'
  BY <1>1 DEF Take, IInv, Types, lanes
<1>3. Reads' /\ Members'
  BY <1>1 DEF Take, IInv, Types, Reads, Members, Joined, lanes
<1>. QED  BY <1>2, <1>3 DEF IInv

LEMMA WriteInv ==
    ASSUME IInv, NEW c \in Conn, Write(c)
    PROVE  IInv'
<1>1. wire[c] \in Seq(Packet) /\ inflight[c] \in Packet
  BY DEF Write, IInv, Types
<1>2. Append(wire[c], inflight[c]) \in Seq(Packet)
  BY <1>1, AppendProperties
<1>3. Types'
  BY <1>2 DEF Write, IInv, Types, lanes
<1>4. Reads' /\ Members'
  BY DEF Write, IInv, Types, Reads, Members, Joined, lanes
<1>. QED  BY <1>3, <1>4 DEF IInv

LEMMA DeliverInv ==
    ASSUME IInv, NEW c \in Conn, Deliver(c)
    PROVE  IInv'
<1>. DEFINE pkt == Head(wire[c])
<1>1. wire[c] \in Seq(Packet) /\ pkt \in Packet /\ Tail(wire[c]) \in Seq(Packet)
  BY Leaves DEF Deliver, IInv, Types
<1>2. arrived[pkt.flow] \in Seq(Nat) /\ pkt.no \in Nat
  BY <1>1, PacketFields DEF IInv, Types
<1>3. Append(arrived[pkt.flow], pkt.no) \in Seq(Nat)
  BY <1>2, AppendProperties
<1>4. /\ wire' = [wire EXCEPT ![c] = Tail(wire[c])]
      /\ arrived' = [arrived EXCEPT ![pkt.flow] = Append(arrived[pkt.flow], pkt.no)]
      /\ UNCHANGED <<lanes, queue, inflight, tcpFlows, reader, sent, dropped, finished>>
  BY DEF Deliver
<1>. HIDE DEF pkt
<1>5. Types'
  BY <1>1, <1>3, <1>4 DEF IInv, Types, lanes
<1>6. Reads' /\ Members'
  BY <1>4 DEF IInv, Reads, Members, Joined, lanes
<1>. QED  BY <1>5, <1>6 DEF IInv

LEMMA WireLostInv ==
    ASSUME IInv, NEW c \in Conn, WireLost(c)
    PROVE  IInv'
<1>1. Types'
  BY DEF WireLost, IInv, Types, lanes
<1>2. Reads' /\ Members'
  BY DEF WireLost, IInv, Reads, Members, Joined, lanes
<1>. QED  BY <1>1, <1>2 DEF IInv

\* The steps that change roles and lives only: who has joined stays, and who
\* stops serving never serves again.
LanesMove ==
    /\ role' \in [Conn -> {"none", "standby", "primary", "draining"}]
    /\ alive' \in [Conn -> BOOLEAN]
    /\ \A c \in Conn : Joined(c) => Joined(c)' /\ (alive'[c] => alive[c])
    /\ \A c \in Conn : role[c] = "draining" => role'[c] = "draining"
    /\ \A c \in Conn : ~Joined(c)' => ~Joined(c) /\ ~alive'[c]
    /\ UNCHANGED <<data, tcpFlows, reader, sent, arrived, dropped, finished>>

LEMMA RolesMove ==
    ASSUME IInv, Promote \/ Rotate
    PROVE  LanesMove
<1>0. \A c \in Conn : ~Joined(c) => ~alive[c]
  BY DEF IInv, Members
<1>1. CASE Promote
  <2>. DEFINE s == FirstOf(Alive("standby"))
  <2>1. s \in Alive("standby")
    BY <1>1, FirstOfThem, AliveThem DEF Promote, IInv
  <2>2. s \in Conn /\ role[s] = "standby"
    BY <2>1, AliveThem DEF IInv
  <2>3. /\ role' = [role EXCEPT ![s] = "primary"]
        /\ UNCHANGED <<alive, data, tcpFlows, reader, sent, arrived, dropped, finished>>
    BY <1>1 DEF Promote
  <2>. HIDE DEF s
  <2>4. \A c \in Conn : role'[c] = IF c = s THEN "primary" ELSE role[c]
    BY <2>3 DEF IInv, Types
  <2>5. /\ role' \in [Conn -> {"none", "standby", "primary", "draining"}]
        /\ alive' \in [Conn -> BOOLEAN] /\ alive' = alive
    BY <2>3 DEF IInv, Types
  <2>6. /\ \A c \in Conn : Joined(c)' <=> Joined(c)
        /\ \A c \in Conn : role[c] = "draining" => role'[c] = "draining"
    BY <2>2, <2>4 DEF Joined
  <2>. QED  BY <1>0, <2>3, <2>5, <2>6 DEF LanesMove
<1>2. CASE Rotate
  <2>. DEFINE p == FirstOf(Primaries)
              s == FirstOf(Alive("standby"))
  <2>1. p \in Primaries /\ s \in Alive("standby")
    BY <1>2, FirstOfThem, AliveThem DEF Rotate, IInv
  <2>2. p \in Conn /\ role[p] = "primary" /\ s \in Conn /\ role[s] = "standby"
    BY <2>1, AliveThem DEF IInv
  <2>3. /\ role' = [role EXCEPT ![p] = "draining", ![s] = "primary"]
        /\ UNCHANGED <<alive, data, tcpFlows, reader, sent, arrived, dropped, finished>>
    BY <1>2 DEF Rotate
  <2>. HIDE DEF p, s
  <2>4. \A c \in Conn : role'[c] = IF c = s THEN "primary" ELSE IF c = p THEN "draining"
                                   ELSE role[c]
    BY <2>2, <2>3 DEF IInv, Types
  <2>5. /\ role' \in [Conn -> {"none", "standby", "primary", "draining"}]
        /\ alive' \in [Conn -> BOOLEAN] /\ alive' = alive
    BY <2>3 DEF IInv, Types
  <2>6. /\ \A c \in Conn : Joined(c)' <=> Joined(c)
        /\ \A c \in Conn : role[c] = "draining" => role'[c] = "draining"
    BY <2>2, <2>4 DEF Joined
  <2>. QED  BY <1>0, <2>3, <2>5, <2>6 DEF LanesMove
<1>. QED  BY <1>1, <1>2

LEMMA LivesMove ==
    ASSUME IInv, NEW c \in Conn, Die(c) \/ DrainClose(c) \/ Join(c)
    PROVE  LanesMove
<1>0. \A d \in Conn : ~Joined(d) => ~alive[d]
  BY DEF IInv, Members
<1>1. CASE Die(c) \/ DrainClose(c)
  BY <1>0, <1>1 DEF Die, DrainClose, IInv, Types, Joined, LanesMove
<1>2. CASE Join(c)
  BY <1>0, <1>2 DEF Join, IInv, Types, Joined, LanesMove
<1>. QED  BY <1>1, <1>2

\* The client with any policy of roles and any pattern of deaths: whatever
\* LanesMove allows may happen between two of its steps.
AnyNext == Next \/ LanesMove
AnySpec == Init /\ [][AnyNext]_vars

LEMMA SpecIsAny == Spec => AnySpec
<1>1. [Next]_vars => [AnyNext]_vars
  BY DEF AnyNext
<1>. QED  BY <1>1, PTL DEF Spec, AnySpec

LEMMA LanesInv ==
    ASSUME IInv, LanesMove
    PROVE  IInv'
<1>1. Types'
  BY DEF LanesMove, IInv, Types, data
<1>2. Reads'
  BY DEF LanesMove, IInv, Reads
<1>3. Members'
  <2>1. \A i \in 1..Len(reader.tries) : reader.tries[i] \in Conn
    BY DEF IInv, Reads, ReaderState
  <2>2. reader.to # None => reader.to \in Conn
    BY DEF IInv, Reads, ReaderState
  <2>3. \A f \in TcpFlow : tcpFlows[f] # None => tcpFlows[f] \in Conn
    BY DEF IInv, Types
  <2>4. /\ UNCHANGED <<tcpFlows, queue, inflight, wire, reader>>
        /\ \A c \in Conn : Joined(c) => Joined(c)'
        /\ \A c \in Conn : ~Joined(c)' => ~Joined(c) /\ ~alive'[c]
    BY DEF LanesMove, data
  <2>. HIDE DEF Joined
  <2>. QED  BY <2>1, <2>2, <2>3, <2>4 DEF IInv, Members
<1>. QED  BY <1>1, <1>2, <1>3 DEF IInv

LEMMA ExpireInv ==
    ASSUME IInv, NEW f \in TcpFlow, Expire(f)
    PROVE  IInv'
<1>1. Types'
  BY DEF Expire, IInv, Types, lanes, data
<1>2. Reads' /\ Members'
  BY DEF Expire, IInv, Types, Reads, Members, Joined, lanes, data
<1>. QED  BY <1>1, <1>2 DEF IInv

LEMMA NextInv == IInv /\ [AnyNext]_vars => IInv'
<1>. SUFFICES ASSUME IInv, [AnyNext]_vars
              PROVE  IInv'
  OBVIOUS
<1>1. CASE UNCHANGED vars
  <2>1. Types' /\ Reads' /\ Members'
    BY <1>1 DEF vars, lanes, data, IInv, Types, Reads, Members, Joined
  <2>. QED  BY <2>1 DEF IInv
<1>2. CASE \/ Route \/ TakePrimary \/ Burst \/ TryBurst \/ Check \/ Push
           \/ Snapshot \/ TryUdp \/ LastResort \/ Brief
  BY <1>2, ReaderSteps, ReaderInv
<1>. QED  BY <1>1, <1>2, AfterInv, ReadInv, TakeInv, WriteInv, DeliverInv, WireLostInv, RolesMove,
          LivesMove, LanesInv, ExpireInv DEF AnyNext, Next

LEMMA Inductive == AnySpec => []IInv
  BY InitInv, NextInv, PTL DEF AnySpec

\* Every variable keeps its type, and no queue grows beyond its capacity.
THEOREM TypeCorrect == Spec => []TypeOK
<1>1. IInv => TypeOK
  BY RangeOfSeq DEF IInv, Types, Reads, TypeOK, ReaderState
<1>. QED  BY <1>1, SpecIsAny, Inductive, PTL

-----------------------------------------------------------------------------
(* The flow table.                                                         *)

Retired(c) == ~alive[c] \/ role[c] = "draining"

\* The table has nothing for the flow that still serves.
Free(f) == tcpFlows[f] = None \/ Retired(tcpFlows[f])

\* The table has nothing in use that contradicts the reader's choice.
Aimed ==
    LET f == reader.pkt.flow IN
    /\ reader.at \in {"primary", "burst", "try"} /\ f \in TcpFlow => Free(f)
    /\ reader.at \in {"check", "push", "after"} => Free(f) \/ tcpFlows[f] = reader.to

\* Bindings only go, and what is retired stays so.
TableOnly ==
    /\ \A f \in TcpFlow : tcpFlows'[f] \in {tcpFlows[f], None}
    /\ \A c \in Conn : Joined(c) /\ Retired(c) => Retired(c)'

\* The steps of the others do not touch the reader.
Quiet == TableOnly /\ UNCHANGED <<reader, finished>>

LEMMA BoundIs ==
    ASSUME IInv, NEW f \in TcpFlow
    PROVE  /\ (Bound(f) = None) <=> Free(f)
           /\ Bound(f) # None => Bound(f) = tcpFlows[f]
  BY DEF Bound, Free, Retired, IInv, Types

LEMMA FreeStays ==
    ASSUME IInv, TableOnly, NEW f \in TcpFlow
    PROVE  /\ Free(f) => Free(f)'
           /\ \A c \in Conn : tcpFlows[f] = c => tcpFlows'[f] = c \/ Free(f)'
  BY DEF TableOnly, Free, IInv, Types, Members

LEMMA OthersQuiet ==
    ASSUME IInv, [AnyNext]_vars
    PROVE  \/ Quiet \/ After \/ Turns \/ GivesUp \/ \E c \in Conn : Puts(c)
           \/ \E f \in Flow, kind \in TcpKind \cup Datagram : Read(f, kind)
<1>1. UNCHANGED vars => Quiet
  BY DEF vars, lanes, Quiet, TableOnly, Retired
<1>2. ASSUME NEW c \in Conn, Take(c) \/ Write(c) \/ Deliver(c) \/ WireLost(c)
      PROVE  Quiet
  BY <1>2 DEF Take, Write, Deliver, WireLost, lanes, Quiet, TableOnly, Retired
<1>3. LanesMove => Quiet
  BY DEF LanesMove, Quiet, TableOnly, Retired, IInv, Types
<1>4. ASSUME NEW f \in TcpFlow, Expire(f)
      PROVE  Quiet
  BY <1>4 DEF Expire, lanes, Quiet, TableOnly, Retired, IInv, Types
<1>. QED  BY <1>1, <1>2, <1>3, <1>4, RolesMove, LivesMove, ReaderSteps DEF AnyNext, Next

LEMMA AimedInv == IInv /\ Aimed /\ [AnyNext]_vars => Aimed'
<1>. SUFFICES ASSUME IInv, Aimed, [AnyNext]_vars
              PROVE  Aimed'
  OBVIOUS
<1>. DEFINE f == reader.pkt.flow
<1>0. IInv'
  BY NextInv
<1>1. CASE Quiet
  <2>1. UNCHANGED reader /\ TableOnly
    BY <1>1 DEF Quiet
  <2>2. /\ reader.at \in {"check", "push", "after"} => f \in TcpFlow /\ reader.to \in Conn
    BY DEF IInv, Reads
  <2>3. f \in TcpFlow => /\ Free(f) => Free(f)'
                         /\ tcpFlows[f] = reader.to /\ reader.to \in Conn =>
                              tcpFlows'[f] = reader.to \/ Free(f)'
    BY <2>1, FreeStays
  <2>. QED  BY <2>1, <2>2, <2>3 DEF Aimed
<1>2. CASE After \/ GivesUp
  BY <1>2 DEF After, GivesUp, Idle, Aimed
<1>3. CASE Turns
  <2>1. f \in TcpFlow => /\ (Bound(f) = None) <=> Free(f)
                         /\ Bound(f) # None => Bound(f) = tcpFlows[f]
    BY BoundIs
  <2>2. UNCHANGED lanes /\ reader'.pkt.flow = f
    BY <1>3 DEF Turns
  <2>3. CASE UNCHANGED tcpFlows
    <3>1. Free(f)' <=> Free(f)
      BY <2>2, <2>3 DEF Free, Retired, lanes
    <3>2. reader.at = "route" => f \in TcpFlow
      BY DEF IInv, Reads
    <3>3. reader'.at \in {"check", "push", "after"} => reader.at \in {"route", "primary", "burst", "try", "check"}
      BY <1>3 DEF Turns
    <3>4. reader'.at = "check" /\ reader.at = "primary" => f \in TcpFlow
      BY <1>0, <2>2 DEF IInv, Reads
    <3>. QED  BY <1>3, <2>1, <2>2, <2>3, <3>1, <3>2, <3>3, <3>4 DEF Turns, Aimed, IInv, Reads
  <2>4. CASE ~ UNCHANGED tcpFlows
    <3>1. reader'.at \notin {"primary", "burst", "try", "after"} /\ reader.at \in {"check", "push"}
      BY <1>3, <2>4 DEF Turns
    <3>2. f \in TcpFlow /\ tcpFlows'[f] = None
      BY <1>3, <2>4, <3>1 DEF Turns, IInv, Reads, Types
    <3>3. Free(f)'
      BY <2>2, <3>2 DEF Free
    <3>. QED  BY <2>2, <3>1, <3>3 DEF Aimed
  <2>. QED  BY <2>3, <2>4
<1>4. ASSUME NEW c \in Conn, Puts(c)
      PROVE  Aimed'
  <2>1. CASE reader' = Idle
    BY <2>1 DEF Aimed, Idle
  <2>2. CASE /\ f \in TcpFlow /\ reader.at \in {"try", "push"}
             /\ reader.at = "push" => c = reader.to
             /\ reader'.at = "after" /\ reader'.to = c /\ reader'.pkt = reader.pkt
    <3>1. UNCHANGED <<lanes, tcpFlows>>
      BY <1>4 DEF Puts
    <3>2. Free(f)' <=> Free(f)
      BY <2>2, <3>1 DEF Free, Retired, lanes
    <3>. QED  BY <2>2, <3>1, <3>2 DEF Aimed
  <2>. QED  BY <1>4, <2>1, <2>2 DEF Puts
<1>5. ASSUME NEW g \in Flow, NEW kind \in TcpKind \cup Datagram, Read(g, kind)
      PROVE  Aimed'
  BY <1>5, ReadStep DEF Aimed
<1>. QED  BY <1>1, <1>2, <1>3, <1>4, <1>5, OthersQuiet

LEMMA AlwaysAimed == AnySpec => [](IInv /\ Aimed)
<1>1. Init => Aimed
  BY DEF Init, Aimed, Idle
<1>. QED  BY <1>1, AimedInv, InitInv, NextInv, PTL DEF AnySpec

LEMMA AnyPinned == AnySpec => FlowPinned
<1>1. ASSUME IInv, Aimed, [AnyNext]_vars, NEW f \in TcpFlow, tcpFlows[f] # None,
             tcpFlows'[f] \notin {None, tcpFlows[f]}
      PROVE  ~alive[tcpFlows[f]] \/ role[tcpFlows[f]] = "draining"
  <2>1. After
    <3>1. Turns => tcpFlows'[f] \in {None, tcpFlows[f]}
      BY <1>1 DEF Turns, IInv, Types
    <3>2. GivesUp \/ (\E c \in Conn : Puts(c)) => tcpFlows'[f] = tcpFlows[f]
      BY DEF GivesUp, Puts
    <3>3. (\E g \in Flow, kind \in TcpKind \cup Datagram : Read(g, kind)) =>
            tcpFlows'[f] = tcpFlows[f]
      BY DEF Read
    <3>. QED  BY <1>1, <3>1, <3>2, <3>3, OthersQuiet DEF Quiet, TableOnly
  <2>2. f = reader.pkt.flow /\ tcpFlows'[f] = reader.to /\ reader.at = "after"
    BY <1>1, <2>1 DEF After, IInv, Types
  <2>. QED  BY <1>1, <2>2 DEF Aimed, Free, Retired
<1>2. IInv /\ Aimed /\ [AnyNext]_vars =>
        [\A f \in TcpFlow : tcpFlows[f] # None /\ tcpFlows'[f] \notin {None, tcpFlows[f]} =>
           ~alive[tcpFlows[f]] \/ role[tcpFlows[f]] = "draining"]_vars
  BY <1>1
<1>. QED  BY <1>2, AlwaysAimed, PTL DEF AnySpec, FlowPinned

\* A flow leaves its connection for another only when that one has stopped
\* serving, whatever happens between the reader's lookup and its binding.
THEOREM Pinned == Spec => FlowPinned
  BY SpecIsAny, AnyPinned, PTL

\* A serving connection with packets of an unfinished flow is the bound one,
\* or the one that is being bound.
Served(f) ==
    \A c \in Conn : ~Retired(c) /\ Holds(c, f) =>
        \/ tcpFlows[f] = c
        \/ reader.at = "after" /\ reader.pkt.flow = f /\ reader.to = c

Serving == \A f \in TcpFlow \ finished : Served(f)

\* What keeps it: nothing joins a queue, no binding in use is lost but with
\* its flow, and the reader does not leave "after".
LEMMA ServedStays ==
    ASSUME IInv, NEW f \in TcpFlow, Served(f),
           \A c \in Conn : (~Retired(c) /\ Holds(c, f))' => ~Retired(c) /\ Holds(c, f),
           \/ tcpFlows'[f] = tcpFlows[f]
           \/ Free(f)
           \/ \A c \in Conn : ~Holds(c, f),
           reader.at = "after" => UNCHANGED reader
    PROVE  Served(f)'
<1>. SUFFICES ASSUME NEW c \in Conn, (~Retired(c) /\ Holds(c, f))'
              PROVE  \/ tcpFlows'[f] = c
                     \/ reader'.at = "after" /\ reader'.pkt.flow = f /\ reader'.to = c
  BY DEF Served
<1>1. ~Retired(c) /\ Holds(c, f)
  OBVIOUS
<1>2. c # None
  BY Constants
<1>3. CASE tcpFlows[f] = c
  <2>1. ~ Free(f)
    BY <1>1, <1>2, <1>3 DEF Free
  <2>. QED  BY <1>1, <1>3, <2>1
<1>4. CASE reader.at = "after" /\ reader.pkt.flow = f /\ reader.to = c
  BY <1>4
<1>. QED  BY <1>1, <1>3, <1>4 DEF Served

LEMMA QuietServed ==
    ASSUME IInv, NEW f \in TcpFlow, Served(f),
           UNCHANGED <<lanes, queue, inflight, tcpFlows>>,
           reader.at = "after" => UNCHANGED reader
    PROVE  Served(f)'
<1>1. \A c \in Conn : (~Retired(c) /\ Holds(c, f))' => ~Retired(c) /\ Holds(c, f)
  BY DEF Retired, Holds, lanes
<1>. QED  BY <1>1, ServedStays

LEMMA TakeServed ==
    ASSUME IInv, NEW f \in TcpFlow, Served(f), NEW c \in Conn, Take(c)
    PROVE  Served(f)'
<1>1. UNCHANGED <<lanes, tcpFlows, reader>>
  BY DEF Take
<1>2. /\ Head(queue[c]) = queue[c][1] /\ Len(Tail(queue[c])) = Len(queue[c]) - 1
      /\ \A i \in 1..Len(Tail(queue[c])) : Tail(queue[c])[i] = queue[c][i + 1]
      /\ Len(queue[c]) \in Nat /\ 1 <= Len(queue[c])
      /\ Tail(queue[c]) \in Seq(Packet) /\ queue[c] \in Seq(Packet)
  BY Leaves DEF Take, IInv, Types
<1>3. /\ queue'[c] = Tail(queue[c]) /\ inflight'[c] = queue[c][1]
      /\ \A d \in Conn \ {c} : queue'[d] = queue[d] /\ inflight'[d] = inflight[d]
  BY <1>2 DEF Take, IInv, Types
<1>4. \A i \in 1..Len(Tail(queue[c])) : i + 1 \in 1..Len(queue[c])
  BY <1>2
<1>5. 1 \in 1..Len(queue[c])
  BY <1>2
<1>6. Holds(c, f)' => Holds(c, f)
  <2>1. DOMAIN queue[c] = 1..Len(queue[c])
    BY <1>2
  <2>2. DOMAIN queue'[c] = 1..Len(Tail(queue[c]))
    BY <1>2, <1>3
  <2>. QED  BY <1>2, <1>3, <1>4, <1>5, <2>1, <2>2 DEF Holds
<1>7. \A d \in Conn \ {c} : Holds(d, f)' => Holds(d, f)
  BY <1>3 DEF Holds
<1>8. \A d \in Conn : (~Retired(d) /\ Holds(d, f))' => ~Retired(d) /\ Holds(d, f)
  BY <1>1, <1>6, <1>7 DEF Retired, lanes
<1>. QED  BY <1>1, <1>8, ServedStays

LEMMA PutsServed ==
    ASSUME IInv, NEW f \in TcpFlow, Served(f), NEW c \in Conn, Puts(c)
    PROVE  Served(f)'
<1>1. UNCHANGED <<lanes, inflight, tcpFlows>> /\ reader.at \notin {"idle", "after"}
  BY DEF Puts
<1>2. reader.pkt \in Packet
  BY <1>1 DEF IInv, Reads
<1>3. /\ \A d \in Conn \ {c} : queue'[d] = queue[d]
      /\ Len(queue'[c]) = Len(queue[c]) + 1 /\ Len(queue[c]) \in Nat
      /\ \A i \in 1..Len(queue[c]) : queue'[c][i] = queue[c][i]
      /\ queue'[c][Len(queue[c]) + 1] = reader.pkt
      /\ queue' \in [Conn -> Seq(Packet)]
  BY <1>2, Accepts DEF Puts, IInv
<1>4. \A d \in Conn : Retired(d)' <=> Retired(d)
  BY <1>1 DEF Retired, lanes
<1>5. \A d \in Conn \ {c} : Holds(d, f)' => Holds(d, f)
  BY <1>1, <1>3 DEF Holds
<1>6. CASE reader.pkt.flow # f
  <2>1. /\ DOMAIN queue[c] = 1..Len(queue[c])
        /\ \A i \in DOMAIN queue'[c] : i \in 1..Len(queue[c]) \/ i = Len(queue[c]) + 1
    BY <1>3 DEF IInv, Types
  <2>2. Holds(c, f)' => Holds(c, f)
    BY <1>1, <1>3, <1>6, <2>1 DEF Holds
  <2>. QED  BY <1>1, <1>4, <1>5, <2>2, ServedStays
<1>7. CASE reader.pkt.flow = f
  <2>1. reader'.at = "after" /\ reader'.to = c /\ reader'.pkt.flow = f
    BY <1>7 DEF Puts
  <2>. QED  BY <1>1, <1>4, <1>5, <2>1 DEF Served
<1>. QED  BY <1>6, <1>7

LEMMA AfterServing ==
    ASSUME IInv, Aimed, Serving, After
    PROVE  Serving'
<1>1. UNCHANGED <<lanes, queue, inflight>> /\ finished \subseteq finished'
  BY DEF After, data
<1>2. SUFFICES ASSUME NEW f \in TcpFlow \ finished', NEW c \in Conn, ~Retired(c), Holds(c, f)
               PROVE  tcpFlows'[f] = c
  BY <1>1 DEF Serving, Served, Retired, Holds, lanes
<1>3. Served(f) /\ c # None
  BY <1>1, Constants DEF Serving
<1>4. CASE f = reader.pkt.flow
  <2>1. tcpFlows'[f] = reader.to /\ reader.at = "after"
    BY <1>2, <1>4 DEF After, IInv, Types
  <2>2. tcpFlows[f] = c => reader.to = c
    BY <1>2, <1>3, <1>4, <2>1 DEF Aimed, Free
  <2>. QED  BY <1>2, <1>3, <2>1, <2>2 DEF Served
<1>5. CASE f # reader.pkt.flow
  <2>1. tcpFlows'[f] = tcpFlows[f]
    BY <1>5 DEF After, IInv, Types
  <2>. QED  BY <1>2, <1>3, <1>5, <2>1 DEF Served
<1>. QED  BY <1>4, <1>5

LEMMA ServingInv == IInv /\ Aimed /\ Serving /\ [AnyNext]_vars => Serving'
<1>. SUFFICES ASSUME IInv, Aimed, Serving, [AnyNext]_vars
              PROVE  Serving'
  OBVIOUS
<1>1. SUFFICES ASSUME ~After, NEW f \in TcpFlow \ finished
               PROVE  Served(f)'
  <2>1. ~After => finished' = finished
    BY OthersQuiet DEF Quiet, Turns, GivesUp, Puts, Read
  <2>. QED  BY <2>1, AfterServing DEF Serving
<1>2. Served(f)
  BY DEF Serving
<1>3. CASE Turns
  <2>1. /\ UNCHANGED <<lanes, queue, inflight>> /\ reader.at # "after"
    BY <1>3 DEF Turns, data
  <2>2. \A c \in Conn : (~Retired(c) /\ Holds(c, f))' => ~Retired(c) /\ Holds(c, f)
    BY <2>1 DEF Retired, Holds, lanes
  <2>3. tcpFlows'[f] = tcpFlows[f] \/ Free(f)
    <3>1. CASE UNCHANGED tcpFlows
      BY <3>1
    <3>2. CASE /\ reader.at \in {"check", "push"} /\ ~alive[reader.to]
               /\ tcpFlows' = [tcpFlows EXCEPT ![reader.pkt.flow] = None]
      <4>1. CASE f = reader.pkt.flow
        BY <3>2, <4>1 DEF Aimed, Free, Retired
      <4>2. CASE f # reader.pkt.flow
        BY <3>2, <4>2 DEF IInv, Types
      <4>. QED  BY <4>1, <4>2
    <3>. QED  BY <1>3, <3>1, <3>2 DEF Turns
  <2>. QED  BY <1>2, <2>1, <2>2, <2>3, ServedStays
<1>4. CASE GivesUp
  BY <1>2, <1>4, QuietServed DEF GivesUp, data
<1>5. ASSUME NEW g \in Flow, NEW kind \in TcpKind \cup Datagram, Read(g, kind)
      PROVE  Served(f)'
  BY <1>2, <1>5, QuietServed DEF Read, data
<1>6. ASSUME NEW c \in Conn, Deliver(c) \/ WireLost(c)
      PROVE  Served(f)'
  BY <1>2, <1>6, QuietServed DEF Deliver, WireLost
<1>7. ASSUME NEW c \in Conn, Write(c)
      PROVE  Served(f)'
  <2>1. /\ UNCHANGED <<lanes, queue, tcpFlows, reader>>
        /\ \A d \in Conn : inflight'[d] \in {inflight[d], NoPacket}
    BY <1>7 DEF Write, IInv, Types
  <2>2. NoPacket.flow # f
    BY Constants DEF NoPacket, Flow
  <2>3. \A d \in Conn : (~Retired(d) /\ Holds(d, f))' => ~Retired(d) /\ Holds(d, f)
    BY <2>1, <2>2 DEF Retired, Holds, lanes
  <2>. QED  BY <1>2, <2>1, <2>3, ServedStays
<1>8. CASE LanesMove
  <2>1. UNCHANGED <<queue, inflight, tcpFlows, reader>>
    BY <1>8 DEF LanesMove, data
  <2>2. \A c \in Conn : ~Joined(c) => ~Holds(c, f)
    <3>1. NoPacket.flow # f
      BY Constants DEF NoPacket, Flow
    <3>2. ~ \E i \in DOMAIN <<>> : TRUE
      OBVIOUS
    <3>3. \A c \in Conn : ~Joined(c) => queue[c] = <<>> /\ inflight[c] = NoPacket
      BY DEF IInv, Members
    <3>. QED  BY <3>1, <3>2, <3>3 DEF Holds
  <2>3. \A c \in Conn : Joined(c) /\ Retired(c) => Retired(c)'
    BY <1>8 DEF LanesMove, Retired
  <2>4. \A c \in Conn : Holds(c, f)' => Holds(c, f)
    BY <2>1 DEF Holds
  <2>5. \A c \in Conn : (~Retired(c) /\ Holds(c, f))' => ~Retired(c) /\ Holds(c, f)
    BY <2>2, <2>3, <2>4
  <2>. QED  BY <1>2, <2>1, <2>5, ServedStays
<1>9. ASSUME NEW g \in TcpFlow, Expire(g)
      PROVE  Served(f)'
  <2>1. UNCHANGED <<lanes, queue, inflight, reader>>
    BY <1>9 DEF Expire, data
  <2>2. \A c \in Conn : (~Retired(c) /\ Holds(c, f))' => ~Retired(c) /\ Holds(c, f)
    BY <2>1 DEF Retired, Holds, lanes
  <2>3. \/ tcpFlows'[f] = tcpFlows[f] \/ Free(f)
        \/ \A c \in Conn : ~Holds(c, f)
    BY <1>9, BoundIs DEF Expire, Waiting, IInv, Types
  <2>. QED  BY <1>2, <2>1, <2>2, <2>3, ServedStays
<1>10. CASE UNCHANGED vars
  BY <1>2, <1>10, QuietServed DEF vars, data
<1>11. \/ GivesUp \/ Turns \/ (\E c \in Conn : Puts(c)) \/ LanesMove \/ UNCHANGED vars
       \/ \E g \in Flow, kind \in TcpKind \cup Datagram : Read(g, kind)
       \/ \E c \in Conn : Deliver(c) \/ WireLost(c) \/ Write(c) \/ Take(c)
       \/ \E g \in TcpFlow : Expire(g)
  BY <1>1, RolesMove, LivesMove, ReaderSteps DEF AnyNext, Next
<1>. QED  BY <1>2, <1>3, <1>4, <1>5, <1>6, <1>7, <1>8, <1>9, <1>10, <1>11, TakeServed, PutsServed

LEMMA AnyOneLane == AnySpec => []OneServingLane
<1>1. Init => Serving
  <2>1. ASSUME Init, NEW c \in Conn, NEW f \in TcpFlow
        PROVE  ~Holds(c, f)
    <3>1. queue[c] = <<>> /\ inflight[c].flow = "none" /\ f # "none"
      BY <2>1, Constants DEF Init, NoPacket, Flow
    <3>2. ~ \E i \in DOMAIN <<>> : TRUE
      OBVIOUS
    <3>. QED  BY <3>1, <3>2 DEF Holds
  <2>. QED  BY <2>1 DEF Serving, Served
<1>2. ASSUME IInv, Aimed, Serving, NEW f \in TcpFlow \ finished
      PROVE  Cardinality(Lanes(f)) <= 1
  <2>1. ASSUME NEW c \in Lanes(f), NEW d \in Lanes(f)
        PROVE  c = d
    <3>1. /\ c \in Conn /\ d \in Conn /\ ~Retired(c) /\ ~Retired(d)
          /\ Holds(c, f) /\ Holds(d, f) /\ Served(f) /\ c # None /\ d # None
      BY <1>2, <2>1, Constants DEF Lanes, Retired, Serving
    <3>2. reader.at = "after" /\ reader.pkt.flow = f /\ tcpFlows[f] \in {c, d} =>
            reader.to = tcpFlows[f]
      BY <1>2, <3>1 DEF Aimed, Free
    <3>. QED  BY <3>1, <3>2 DEF Served
  <2>2. Cardinality(Lanes(f)) \in {0, 1}
    BY <2>1, AtMostOne
  <2>. QED  BY <2>2
<1>3. IInv /\ Aimed /\ Serving => OneServingLane
  BY <1>2 DEF OneServingLane
<1>. QED  BY <1>1, <1>3, ServingInv, AlwaysAimed, PTL DEF AnySpec

\* The packets of an unfinished TCP flow that wait on the client wait on one
\* serving connection: bursts, promotions, rotations, deaths and the expiry
\* of bindings never split a flow over two of them.
THEOREM OneLane == Spec => []OneServingLane
  BY SpecIsAny, AnyOneLane, PTL

-----------------------------------------------------------------------------
(* The places of a packet.                                                 *)

\* Packet n of flow f is at position i of connection c's queue, in the hand of
\* its writer, on its wire, among what arrived, or with the reader.
At(k, c, i, f, n) ==
    \/ /\ k = "queue" /\ c \in Conn /\ i \in 1..Len(queue[c])
       /\ queue[c][i].flow = f /\ queue[c][i].no = n
    \/ /\ k = "hand" /\ c \in Conn /\ i = 0
       /\ inflight[c].flow = f /\ inflight[c].no = n
    \/ /\ k = "wire" /\ c \in Conn /\ i \in 1..Len(wire[c])
       /\ wire[c][i].flow = f /\ wire[c][i].no = n
    \/ /\ k = "there" /\ c = None /\ i \in 1..Len(arrived[f]) /\ arrived[f][i] = n
    \/ /\ k = "reader" /\ c = None /\ i = 0
       /\ reader.at # "after" /\ reader.pkt.flow = f /\ reader.pkt.no = n

\* A packet is in one place at most, and was sent.
Single(f, n) ==
    /\ \A k, l, c, d : \A i, j \in Nat :
         At(k, c, i, f, n) /\ At(l, d, j, f, n) => k = l /\ c = d /\ i = j
    /\ \A k, c : \A i \in Nat : At(k, c, i, f, n) => n <= sent[f]

Kept(f, n) == \E k, c : \E i \in Nat : At(k, c, i, f, n)

\* A step that moves the first packet of a place to another place.
Hop(k1, c1, i1, k2, c2, i2, f, n) ==
    \A k, c : \A i \in Nat :
        At(k, c, i, f, n)' <=>
            \/ k = k2 /\ c = c2 /\ i = i2 /\ At(k1, c1, i1, f, n)
            \/ k = k1 /\ c = c1 /\ i >= 1 /\ At(k1, c1, i + 1, f, n)
            \/ ~ (k = k1 /\ c = c1) /\ At(k, c, i, f, n)

LEMMA Hops ==
    ASSUME NEW f, NEW n, NEW k1, NEW c1, NEW i1 \in {0, 1}, NEW k2, NEW c2, NEW i2 \in Nat,
           Hop(k1, c1, i1, k2, c2, i2, f, n), <<k1, c1>> # <<k2, c2>>,
           \A i \in Nat : At(k1, c1, i, f, n) => i >= i1 /\ (i1 = 0 => i = 0),
           sent'[f] = sent[f], Single(f, n)
    PROVE  Single(f, n)' /\ (Kept(f, n) => Kept(f, n)')
<1>1. \A k, c : \A i \in Nat : At(k, c, i, f, n)' =>
          \/ k = k2 /\ c = c2 /\ i = i2 /\ At(k1, c1, i1, f, n)
          \/ k = k1 /\ c = c1 /\ i >= 1 /\ At(k1, c1, i + 1, f, n)
          \/ ~ (k = k1 /\ c = c1) /\ At(k, c, i, f, n)
  BY DEF Hop
<1>2. \A k, l, c, d : \A i, j \in Nat :
         At(k, c, i, f, n)' /\ At(l, d, j, f, n)' => k = l /\ c = d /\ i = j
  <2>1. SUFFICES ASSUME NEW k, NEW l, NEW c, NEW d, NEW i \in Nat, NEW j \in Nat,
                        At(k, c, i, f, n)', At(l, d, j, f, n)'
                 PROVE  k = l /\ c = d /\ i = j
    OBVIOUS
  <2>2. \A ka, la, ca, da : \A ia, ja \in Nat :
          At(ka, ca, ia, f, n) /\ At(la, da, ja, f, n) => ka = la /\ ca = da /\ ia = ja
    BY DEF Single
  <2>3. i + 1 \in Nat /\ j + 1 \in Nat /\ i1 \in Nat /\ (i + 1 = j + 1 => i = j)
    OBVIOUS
  <2>4. /\ At(k1, c1, i1, f, n) /\ i >= 1 => ~At(k1, c1, i + 1, f, n)
        /\ At(k1, c1, i1, f, n) /\ j >= 1 => ~At(k1, c1, j + 1, f, n)
    BY <2>2, <2>3
  <2>. QED  BY <1>1, <2>1, <2>2, <2>3, <2>4
<1>3. \A k, c : \A i \in Nat : At(k, c, i, f, n)' => n <= sent'[f]
  <2>1. SUFFICES ASSUME NEW k, NEW c, NEW i \in Nat, At(k, c, i, f, n)'
                 PROVE  n <= sent[f]
    OBVIOUS
  <2>2. \A ka, ca : \A ia \in Nat : At(ka, ca, ia, f, n) => n <= sent[f]
    BY DEF Single
  <2>3. i + 1 \in Nat /\ i1 \in Nat
    OBVIOUS
  <2>. QED  BY <1>1, <2>1, <2>2, <2>3
<1>4. ASSUME NEW k, NEW c, NEW i \in Nat, At(k, c, i, f, n)
      PROVE  Kept(f, n)'
  <2>1. CASE ~ (k = k1 /\ c = c1)
    <3>1. At(k, c, i, f, n)'
      BY <1>4, <2>1 DEF Hop
    <3>. QED  BY <3>1 DEF Kept
  <2>2. CASE k = k1 /\ c = c1 /\ i = i1
    <3>1. At(k2, c2, i2, f, n)'
      BY <1>4, <2>2 DEF Hop
    <3>. QED  BY <3>1 DEF Kept
  <2>3. CASE k = k1 /\ c = c1 /\ i # i1
    <3>1. i - 1 \in Nat /\ i - 1 >= 1 /\ (i - 1) + 1 = i
      BY <1>4, <2>3
    <3>2. At(k1, c1, i - 1, f, n)'
      BY <1>4, <2>3, <3>1 DEF Hop
    <3>. QED  BY <3>1, <3>2 DEF Kept
  <2>. QED  BY <2>1, <2>2, <2>3
<1>. QED  BY <1>2, <1>3, <1>4 DEF Single, Kept

LEMMA StaysThere ==
    ASSUME NEW f, NEW n, Single(f, n), sent'[f] = sent[f],
           \A k, c : \A i \in Nat : At(k, c, i, f, n)' => At(k, c, i, f, n)
    PROVE  Single(f, n)'
  BY DEF Single

LEMMA PutsHop ==
    ASSUME IInv, NEW c \in Conn, Puts(c), NEW f \in Flow, NEW n \in 1..MaxPacket
    PROVE  Hop("reader", None, 0, "queue", c, Len(queue[c]) + 1, f, n)
<1>1. /\ UNCHANGED <<inflight, wire, arrived>> /\ reader.at \notin {"idle", "after"}
      /\ reader' = Idle \/ reader'.at = "after"
  BY DEF Puts
<1>2. reader.pkt \in Packet
  BY <1>1 DEF IInv, Reads
<1>3. /\ \A d \in Conn \ {c} : queue'[d] = queue[d]
      /\ Len(queue'[c]) = Len(queue[c]) + 1 /\ Len(queue[c]) \in Nat
      /\ \A i \in 1..Len(queue[c]) : queue'[c][i] = queue[c][i]
      /\ queue'[c][Len(queue[c]) + 1] = reader.pkt
  BY <1>2, Accepts DEF Puts, IInv
<1>4. \A i \in Nat : i \in 1..Len(queue'[c]) <=> i \in 1..Len(queue[c]) \/ i = Len(queue[c]) + 1
  BY <1>3
<1>5. n # 0 /\ Idle.pkt.no = 0 /\ Idle.at = "idle"
  BY DEF Idle, NoPacket
<1>6. SUFFICES ASSUME NEW k, NEW d, NEW i \in Nat
               PROVE  At(k, d, i, f, n)' <=>
                        \/ k = "queue" /\ d = c /\ i = Len(queue[c]) + 1
                           /\ At("reader", None, 0, f, n)
                        \/ k = "reader" /\ d = None /\ i >= 1 /\ At("reader", None, i + 1, f, n)
                        \/ ~ (k = "reader" /\ d = None) /\ At(k, d, i, f, n)
  BY DEF Hop
<1>7. ~ At("reader", None, i + 1, f, n)
  BY DEF At
<1>8. At("reader", None, 0, f, n) <=> reader.pkt.flow = f /\ reader.pkt.no = n
  BY <1>1 DEF At
<1>9. CASE k = "queue" /\ d = c
  BY <1>3, <1>4, <1>7, <1>8, <1>9 DEF At
<1>10. CASE k = "queue" /\ d # c
  BY <1>3, <1>7, <1>10 DEF At
<1>11. CASE k = "reader"
  BY <1>1, <1>5, <1>7, <1>11 DEF At
<1>12. CASE k \notin {"queue", "reader"}
  BY <1>1, <1>12 DEF At
<1>. QED  BY <1>9, <1>10, <1>11, <1>12

LEMMA TakeHop ==
    ASSUME IInv, NEW c \in Conn, Take(c), NEW f \in Flow, NEW n \in 1..MaxPacket
    PROVE  Hop("queue", c, 1, "hand", c, 0, f, n)
<1>1. UNCHANGED <<wire, arrived, reader>> /\ inflight[c] = NoPacket
  BY DEF Take
<1>2. /\ Head(queue[c]) = queue[c][1] /\ Len(Tail(queue[c])) = Len(queue[c]) - 1
      /\ \A i \in 1..Len(Tail(queue[c])) : Tail(queue[c])[i] = queue[c][i + 1]
      /\ Len(queue[c]) \in Nat /\ 1 <= Len(queue[c])
  BY Leaves DEF Take, IInv, Types
<1>3. /\ queue'[c] = Tail(queue[c]) /\ inflight'[c] = queue[c][1]
      /\ \A d \in Conn \ {c} : queue'[d] = queue[d] /\ inflight'[d] = inflight[d]
  BY <1>2 DEF Take, IInv, Types
<1>4. \A i \in Nat : i \in 1..Len(Tail(queue[c])) <=> i >= 1 /\ i + 1 \in 1..Len(queue[c])
  BY <1>2
<1>5. n # 0 /\ NoPacket.no = 0
  BY DEF NoPacket
<1>6. SUFFICES ASSUME NEW k, NEW d, NEW i \in Nat
               PROVE  At(k, d, i, f, n)' <=>
                        \/ k = "hand" /\ d = c /\ i = 0 /\ At("queue", c, 1, f, n)
                        \/ k = "queue" /\ d = c /\ i >= 1 /\ At("queue", c, i + 1, f, n)
                        \/ ~ (k = "queue" /\ d = c) /\ At(k, d, i, f, n)
  BY DEF Hop
<1>7. CASE k = "queue" /\ d = c
  BY <1>2, <1>3, <1>4, <1>7 DEF At
<1>8. CASE k = "hand" /\ d = c
  <2>1. 1 \in 1..Len(queue[c])
    BY <1>2
  <2>. QED  BY <1>1, <1>3, <1>5, <1>8, <2>1 DEF At
<1>9. CASE k \in {"queue", "hand"} /\ d # c
  BY <1>3, <1>9 DEF At
<1>10. CASE k \notin {"queue", "hand"}
  BY <1>1, <1>10 DEF At
<1>. QED  BY <1>7, <1>8, <1>9, <1>10

LEMMA WriteHop ==
    ASSUME IInv, NEW c \in Conn, Write(c), NEW f \in Flow, NEW n \in 1..MaxPacket
    PROVE  Hop("hand", c, 0, "wire", c, Len(wire[c]) + 1, f, n)
<1>1. UNCHANGED <<queue, arrived, reader>>
  BY DEF Write
<1>2. /\ wire[c] \in Seq(Packet) /\ Len(wire[c]) \in Nat /\ inflight[c] \in Packet
      /\ wire'[c] = Append(wire[c], inflight[c]) /\ inflight'[c] = NoPacket
      /\ \A d \in Conn \ {c} : wire'[d] = wire[d] /\ inflight'[d] = inflight[d]
  BY DEF Write, IInv, Types
<1>3. /\ Len(wire'[c]) = Len(wire[c]) + 1
      /\ \A i \in 1..Len(wire[c]) : wire'[c][i] = wire[c][i]
      /\ wire'[c][Len(wire[c]) + 1] = inflight[c]
  BY <1>2, AppendProperties
<1>4. \A i \in Nat : i \in 1..Len(wire'[c]) <=> i \in 1..Len(wire[c]) \/ i = Len(wire[c]) + 1
  BY <1>2, <1>3
<1>5. n # 0 /\ NoPacket.no = 0
  BY DEF NoPacket
<1>6. SUFFICES ASSUME NEW k, NEW d, NEW i \in Nat
               PROVE  At(k, d, i, f, n)' <=>
                        \/ k = "wire" /\ d = c /\ i = Len(wire[c]) + 1 /\ At("hand", c, 0, f, n)
                        \/ k = "hand" /\ d = c /\ i >= 1 /\ At("hand", c, i + 1, f, n)
                        \/ ~ (k = "hand" /\ d = c) /\ At(k, d, i, f, n)
  BY DEF Hop
<1>7. ~ At("hand", c, i + 1, f, n)
  BY DEF At
<1>8. At("hand", c, 0, f, n) <=> inflight[c].flow = f /\ inflight[c].no = n
  BY DEF At
<1>9. CASE k = "wire" /\ d = c
  BY <1>3, <1>4, <1>7, <1>8, <1>9 DEF At
<1>10. CASE k = "hand" /\ d = c
  BY <1>2, <1>5, <1>7, <1>10 DEF At
<1>11. CASE k \in {"wire", "hand"} /\ d # c
  BY <1>2, <1>11 DEF At
<1>12. CASE k \notin {"wire", "hand"}
  BY <1>1, <1>12 DEF At
<1>. QED  BY <1>9, <1>10, <1>11, <1>12

LEMMA DeliverHop ==
    ASSUME IInv, NEW c \in Conn, Deliver(c), NEW f \in Flow, NEW n \in 1..MaxPacket
    PROVE  \E l \in Nat : Hop("wire", c, 1, "there", None, l, f, n)
<1>. DEFINE pkt == Head(wire[c])
            a == arrived[pkt.flow]
<1>1. UNCHANGED <<queue, inflight, reader>>
  BY DEF Deliver
<1>2. /\ wire[c] \in Seq(Packet) /\ pkt \in Packet /\ pkt = wire[c][1]
      /\ Len(Tail(wire[c])) = Len(wire[c]) - 1
      /\ \A i \in 1..Len(Tail(wire[c])) : Tail(wire[c])[i] = wire[c][i + 1]
      /\ Len(wire[c]) \in Nat /\ 1 <= Len(wire[c])
  BY Leaves DEF Deliver, IInv, Types
<1>3. pkt.flow \in Flow /\ pkt.no \in Nat
  BY <1>2, PacketFields
<1>4. /\ wire' = [wire EXCEPT ![c] = Tail(wire[c])]
      /\ arrived' = [arrived EXCEPT ![pkt.flow] = Append(a, pkt.no)]
  BY DEF Deliver
<1>. HIDE DEF pkt
<1>5. /\ wire'[c] = Tail(wire[c]) /\ \A d \in Conn \ {c} : wire'[d] = wire[d]
      /\ arrived'[pkt.flow] = Append(a, pkt.no) /\ a \in Seq(Nat) /\ Len(a) \in Nat
      /\ \A g \in Flow \ {pkt.flow} : arrived'[g] = arrived[g]
  BY <1>3, <1>4 DEF IInv, Types
<1>6. /\ Len(Append(a, pkt.no)) = Len(a) + 1
      /\ \A i \in 1..Len(a) : Append(a, pkt.no)[i] = a[i]
      /\ Append(a, pkt.no)[Len(a) + 1] = pkt.no
  BY <1>3, <1>5, AppendProperties
<1>7. /\ \A i \in Nat : i \in 1..Len(Tail(wire[c])) <=> i >= 1 /\ i + 1 \in 1..Len(wire[c])
      /\ \A i \in Nat : i \in 1..(Len(a) + 1) <=> i \in 1..Len(a) \/ i = Len(a) + 1
      /\ 1 \in 1..Len(wire[c])
  BY <1>2, <1>5
<1>8. c # None
  BY Constants
<1>9. SUFFICES ASSUME NEW k, NEW d, NEW i \in Nat
               PROVE  At(k, d, i, f, n)' <=>
                        \/ k = "there" /\ d = None /\ i = Len(a) + 1 /\ At("wire", c, 1, f, n)
                        \/ k = "wire" /\ d = c /\ i >= 1 /\ At("wire", c, i + 1, f, n)
                        \/ ~ (k = "wire" /\ d = c) /\ At(k, d, i, f, n)
  <2>1. Len(a) + 1 \in Nat
    BY <1>5
  <2>. HIDE DEF a
  <2>. QED  BY <2>1 DEF Hop
<1>10. At("wire", c, 1, f, n) <=> pkt.flow = f /\ pkt.no = n
  BY <1>2, <1>7 DEF At
<1>11. CASE k = "wire" /\ d = c
  BY <1>2, <1>5, <1>7, <1>11 DEF At
<1>12. CASE k = "wire" /\ d # c
  BY <1>5, <1>12 DEF At
<1>13. CASE k = "there" /\ f = pkt.flow
  BY <1>5, <1>6, <1>7, <1>10, <1>13 DEF At
<1>14. CASE k = "there" /\ f # pkt.flow
  BY <1>5, <1>10, <1>14 DEF At
<1>15. CASE k \notin {"wire", "there"}
  BY <1>1, <1>15 DEF At
<1>. QED  BY <1>11, <1>12, <1>13, <1>14, <1>15

Once == \A f \in Flow : \A n \in 1..MaxPacket : Single(f, n)

\* No connection has closed since it joined.
NoneClosed == \A c \in Conn : Joined(c) => alive[c]

AllKept == NoneClosed => \A f \in TcpFlow : \A n \in 1..sent[f] : Kept(f, n)

\* What the steps other than Read do to the places of a packet.
Safe(f, n) ==
    /\ Single(f, n)'
    /\ NoneClosed' => NoneClosed
    /\ sent' = sent
    /\ f \in TcpFlow /\ NoneClosed' /\ Kept(f, n) => Kept(f, n)'

LEMMA SameSafe ==
    ASSUME NEW f, NEW n, Single(f, n), sent' = sent, NoneClosed' => NoneClosed,
           \A k, c : \A i \in Nat : At(k, c, i, f, n)' <=> At(k, c, i, f, n)
    PROVE  Safe(f, n)
  BY StaysThere DEF Safe, Kept

LEMMA HopSafe ==
    ASSUME NEW f, NEW n, NEW k1, NEW c1, NEW i1 \in {0, 1}, NEW k2, NEW c2, NEW i2 \in Nat,
           Hop(k1, c1, i1, k2, c2, i2, f, n), <<k1, c1>> # <<k2, c2>>,
           \A i \in Nat : At(k1, c1, i, f, n) => i >= i1 /\ (i1 = 0 => i = 0),
           sent' = sent, Single(f, n), UNCHANGED lanes
    PROVE  Safe(f, n)
<1>1. NoneClosed' => NoneClosed
  BY DEF NoneClosed, Joined, lanes
<1>2. Single(f, n)' /\ (Kept(f, n) => Kept(f, n)')
  BY Hops
<1>. QED  BY <1>1, <1>2 DEF Safe

LEMMA ReaderSafe ==
    ASSUME IInv, NEW f \in Flow, NEW n \in 1..MaxPacket, Single(f, n),
           Turns \/ GivesUp \/ After \/ \E c \in Conn : Puts(c)
    PROVE  Safe(f, n)
<1>1. /\ UNCHANGED lanes /\ sent' = sent
      /\ NoneClosed' => NoneClosed
  BY DEF Turns, GivesUp, After, Puts, lanes, NoneClosed, Joined
<1>2. n # 0 /\ Idle.pkt.no = 0 /\ Idle.at = "idle"
  BY DEF Idle, NoPacket
<1>3. CASE Turns
  <2>1. UNCHANGED <<queue, inflight, wire, arrived>> /\ reader'.pkt = reader.pkt
        /\ reader.at # "after" /\ reader'.at # "after"
    BY <1>3 DEF Turns, data
  <2>2. \A k, c : \A i \in Nat : At(k, c, i, f, n)' <=> At(k, c, i, f, n)
    BY <2>1 DEF At
  <2>. QED  BY <1>1, <2>2, SameSafe
<1>4. CASE GivesUp
  <2>1. UNCHANGED <<queue, inflight, wire, arrived>> /\ reader' = Idle
        /\ reader.pkt.flow \notin TcpFlow
    BY <1>4 DEF GivesUp, data, IInv, Reads
  <2>2. \A k, c : \A i \in Nat : At(k, c, i, f, n)' => At(k, c, i, f, n)
    BY <1>2, <2>1 DEF At
  <2>3. f \in TcpFlow => \A k, c : \A i \in Nat : At(k, c, i, f, n) => At(k, c, i, f, n)'
    BY <2>1 DEF At
  <2>4. Single(f, n)'
    BY <1>1, <2>2, StaysThere
  <2>. QED  BY <1>1, <2>3, <2>4 DEF Safe, Kept
<1>5. CASE After
  <2>1. UNCHANGED <<queue, inflight, wire, arrived>> /\ reader' = Idle
        /\ reader.at = "after"
    BY <1>5 DEF After, data
  <2>2. \A k, c : \A i \in Nat : At(k, c, i, f, n)' <=> At(k, c, i, f, n)
    BY <1>2, <2>1 DEF At
  <2>. QED  BY <1>1, <2>2, SameSafe
<1>6. ASSUME NEW c \in Conn, Puts(c)
      PROVE  Safe(f, n)
  <2>1. Hop("reader", None, 0, "queue", c, Len(queue[c]) + 1, f, n)
    BY <1>6, PutsHop
  <2>2. Len(queue[c]) + 1 \in Nat
    BY DEF IInv, Types
  <2>3. \A i \in Nat : At("reader", None, i, f, n) => i >= 0 /\ i = 0
    BY DEF At
  <2>4. <<"reader", None>> # <<"queue", c>>
    OBVIOUS
  <2>. QED  BY <1>1, <2>1, <2>2, <2>3, <2>4, HopSafe
<1>. QED  BY <1>3, <1>4, <1>5, <1>6

LEMMA ConnectionSafe ==
    ASSUME IInv, NEW f \in Flow, NEW n \in 1..MaxPacket, Single(f, n),
           NEW c \in Conn, Take(c) \/ Write(c) \/ Deliver(c) \/ WireLost(c)
    PROVE  Safe(f, n)
<1>1. UNCHANGED lanes /\ sent' = sent
  BY DEF Take, Write, Deliver, WireLost
<1>2. CASE Take(c)
  <2>1. Hop("queue", c, 1, "hand", c, 0, f, n)
    BY <1>2, TakeHop
  <2>2. \A i \in Nat : At("queue", c, i, f, n) => i >= 1
    BY DEF At, IInv, Types
  <2>3. <<"queue", c>> # <<"hand", c>>
    OBVIOUS
  <2>. QED  BY <1>1, <2>1, <2>2, <2>3, HopSafe
<1>3. CASE Write(c)
  <2>1. Hop("hand", c, 0, "wire", c, Len(wire[c]) + 1, f, n)
    BY <1>3, WriteHop
  <2>2. Len(wire[c]) + 1 \in Nat
    BY DEF IInv, Types
  <2>3. \A i \in Nat : At("hand", c, i, f, n) => i >= 0 /\ i = 0
    BY DEF At
  <2>4. <<"hand", c>> # <<"wire", c>>
    OBVIOUS
  <2>. QED  BY <1>1, <2>1, <2>2, <2>3, <2>4, HopSafe
<1>4. CASE Deliver(c)
  <2>1. PICK l \in Nat : Hop("wire", c, 1, "there", None, l, f, n)
    BY <1>4, DeliverHop
  <2>2. \A i \in Nat : At("wire", c, i, f, n) => i >= 1
    BY DEF At, IInv, Types
  <2>3. <<"wire", c>> # <<"there", None>>
    OBVIOUS
  <2>. QED  BY <1>1, <2>1, <2>2, <2>3, HopSafe
<1>5. CASE WireLost(c)
  <2>1. /\ UNCHANGED <<queue, inflight, arrived, reader>> /\ ~alive[c]
        /\ wire[c] # <<>> /\ wire' = [wire EXCEPT ![c] = <<>>]
    BY <1>5 DEF WireLost
  <2>2. wire'[c] = <<>> /\ \A d \in Conn \ {c} : wire'[d] = wire[d]
    BY <2>1 DEF IInv, Types
  <2>3. 1..Len(<<>>) = {}
    OBVIOUS
  <2>4. \A k, d : \A i \in Nat : At(k, d, i, f, n)' => At(k, d, i, f, n)
    BY <2>1, <2>2, <2>3 DEF At
  <2>5. Single(f, n)'
    BY <1>1, <2>4, StaysThere
  <2>6. /\ NoneClosed' => NoneClosed
        /\ NoneClosed => ~Joined(c)
    BY <1>1, <2>1 DEF NoneClosed, Joined, lanes
  <2>7. Joined(c)
    BY <2>1 DEF IInv, Members
  <2>. QED  BY <1>1, <2>5, <2>6, <2>7 DEF Safe
<1>. QED  BY <1>2, <1>3, <1>4, <1>5

LEMMA StillSafe ==
    ASSUME IInv, NEW f \in Flow, NEW n \in 1..MaxPacket, Single(f, n),
           LanesMove \/ (UNCHANGED vars) \/ \E g \in TcpFlow : Expire(g)
    PROVE  Safe(f, n)
<1>1. UNCHANGED <<queue, inflight, wire, arrived, reader, sent>>
  BY DEF LanesMove, vars, Expire, data
<1>2. NoneClosed' => NoneClosed
  <2>1. \A c \in Conn : Joined(c) => Joined(c)' /\ (alive'[c] => alive[c])
    BY DEF LanesMove, vars, Expire, lanes, Joined
  <2>. QED  BY <2>1 DEF NoneClosed
<1>3. \A k, c : \A i \in Nat : At(k, c, i, f, n)' <=> At(k, c, i, f, n)
  BY <1>1 DEF At
<1>. QED  BY <1>1, <1>2, <1>3, SameSafe

\* Every step but Read.
LEMMA StepSafe ==
    ASSUME IInv, [AnyNext]_vars, NEW f \in Flow, NEW n \in 1..MaxPacket, Single(f, n),
           ~ \E g \in Flow, kind \in TcpKind \cup Datagram : Read(g, kind)
    PROVE  Safe(f, n)
<1>1. \/ Turns \/ GivesUp \/ After \/ (\E c \in Conn : Puts(c))
      \/ \E c \in Conn : Take(c) \/ Write(c) \/ Deliver(c) \/ WireLost(c)
      \/ LanesMove \/ (UNCHANGED vars) \/ \E g \in TcpFlow : Expire(g)
  BY RolesMove, LivesMove, ReaderSteps DEF AnyNext, Next
<1>. QED  BY <1>1, ReaderSafe, ConnectionSafe, StillSafe

\* A new packet is with the reader and nowhere else; the others stay.
LEMMA ReadPlaces ==
    ASSUME IInv, Once, NEW g \in Flow, NEW kind \in TcpKind \cup Datagram, Read(g, kind),
           NEW f \in Flow, NEW n \in 1..MaxPacket
    PROVE  /\ Single(f, n)'
           /\ (NoneClosed' => NoneClosed)
           /\ (Kept(f, n) => Kept(f, n)')
           /\ (n \in 1..sent'[f] => n \in 1..sent[f] \/ Kept(f, n)')
<1>1. /\ reader.at = "idle" /\ reader'.at # "after"
      /\ reader'.pkt.flow = g /\ reader'.pkt.no = sent[g] + 1
      /\ sent' = [sent EXCEPT ![g] = sent[g] + 1]
      /\ UNCHANGED <<lanes, queue, inflight, wire, arrived>>
  BY ReadStep DEF data
<1>2. /\ reader = Idle /\ Idle.pkt.no = 0 /\ n # 0
      /\ \A h \in Flow : sent[h] \in Nat /\ sent'[h] = IF h = g THEN sent[g] + 1 ELSE sent[h]
  BY <1>1, Constants DEF IInv, Types, Reads, Idle, NoPacket
<1>3. Single(f, n)
  BY DEF Once
<1>4. \A k, c : \A i \in Nat : At(k, c, i, f, n) => At(k, c, i, f, n)' /\ n <= sent[f]
  <2>1. \A k, c : \A i \in Nat : At(k, c, i, f, n) => k # "reader"
    BY <1>2 DEF At
  <2>2. \A k, c : \A i \in Nat : k # "reader" /\ At(k, c, i, f, n) => At(k, c, i, f, n)'
    BY <1>1 DEF At
  <2>. QED  BY <1>3, <2>1, <2>2 DEF Single
<1>5. \A k, c : \A i \in Nat : At(k, c, i, f, n)' =>
         \/ At(k, c, i, f, n)
         \/ k = "reader" /\ c = None /\ i = 0 /\ f = g /\ n = sent[g] + 1
  BY <1>1 DEF At
<1>6. f = g /\ n = sent[g] + 1 => At("reader", None, 0, f, n)'
  BY <1>1 DEF At
<1>7. Single(f, n)'
  <2>1. \A k, c : \A i \in Nat : At(k, c, i, f, n) => ~(f = g /\ n = sent[g] + 1)
    BY <1>2, <1>4
  <2>2. \A k, l, c, d : \A i, j \in Nat :
          At(k, c, i, f, n)' /\ At(l, d, j, f, n)' => k = l /\ c = d /\ i = j
    BY <1>3, <1>5, <2>1 DEF Single
  <2>3. \A k, c : \A i \in Nat : At(k, c, i, f, n)' => n <= sent'[f]
    BY <1>2, <1>4, <1>5
  <2>. QED  BY <2>2, <2>3 DEF Single
<1>8. NoneClosed' => NoneClosed
  BY <1>1 DEF NoneClosed, Joined, lanes
<1>9. Kept(f, n) => Kept(f, n)'
  BY <1>4 DEF Kept
<1>10. n \in 1..sent'[f] => n \in 1..sent[f] \/ Kept(f, n)'
  <2>1. n \in 1..sent'[f] => n \in 1..sent[f] \/ (f = g /\ n = sent[g] + 1)
    BY <1>2
  <2>2. f = g /\ n = sent[g] + 1 => Kept(f, n)'
    BY <1>6 DEF Kept
  <2>. QED  BY <2>1, <2>2
<1>. QED  BY <1>7, <1>8, <1>9, <1>10

LEMMA PlacesInv == IInv /\ Once /\ AllKept /\ [AnyNext]_vars => Once' /\ AllKept'
<1>. SUFFICES ASSUME IInv, Once, AllKept, [AnyNext]_vars
              PROVE  Once' /\ AllKept'
  OBVIOUS
<1>0. \A f \in TcpFlow : f \in Flow /\ \A n \in 1..sent[f] : n \in 1..MaxPacket
  BY Constants DEF IInv, Types, Flow
<1>1. ASSUME NEW g \in Flow, NEW kind \in TcpKind \cup Datagram, Read(g, kind)
      PROVE  Once' /\ AllKept'
  <2>1. \A f \in Flow : \A n \in 1..MaxPacket :
          /\ Single(f, n)'
          /\ (NoneClosed' => NoneClosed)
          /\ (Kept(f, n) => Kept(f, n)')
          /\ (n \in 1..sent'[f] => n \in 1..sent[f] \/ Kept(f, n)')
    BY <1>1, ReadPlaces
  <2>2. IInv'
    BY NextInv
  <2>3. ASSUME NoneClosed', NEW f \in TcpFlow, NEW n \in 1..sent'[f]
        PROVE  Kept(f, n)'
    <3>1. f \in Flow /\ n \in 1..MaxPacket
      BY <2>2, <2>3, <1>0, Constants DEF IInv, Types
    <3>2. n \in 1..sent[f] => Kept(f, n)
      BY <2>1, <2>3, <3>1 DEF AllKept
    <3>. HIDE DEF Kept, NoneClosed
    <3>. QED  BY <2>1, <2>3, <3>1, <3>2
  <2>. QED  BY <2>1, <2>3 DEF Once, AllKept
<1>2. CASE ~ \E g \in Flow, kind \in TcpKind \cup Datagram : Read(g, kind)
  <2>1. \A f \in Flow : \A n \in 1..MaxPacket : Safe(f, n)
    BY <1>2, StepSafe DEF Once
  <2>2. Once'
    BY <2>1 DEF Safe, Once
  <2>3. ASSUME NoneClosed', NEW f \in TcpFlow, NEW n \in 1..sent'[f]
        PROVE  Kept(f, n)'
    <3>1. f \in Flow
      BY <1>0
    <3>2. sent \in [Flow -> 0..MaxPacket] /\ IInv'
      BY NextInv DEF IInv, Types
    <3>3. n \in 1..MaxPacket
      BY <3>1, <3>2, Constants DEF IInv, Types
    <3>4. Safe(f, n)
      BY <2>1, <3>1, <3>3
    <3>. QED  BY <2>3, <3>4 DEF Safe, AllKept
  <2>. QED  BY <2>2, <2>3 DEF AllKept
<1>. QED  BY <1>1, <1>2

LEMMA PlacesInit == Init => Once /\ AllKept
<1>. SUFFICES ASSUME Init
              PROVE  Once /\ AllKept
  OBVIOUS
<1>1. ASSUME NEW f \in Flow, NEW n \in 1..MaxPacket
      PROVE  \A k, c : \A i \in Nat : ~At(k, c, i, f, n)
  <2>1. /\ \A c \in Conn : queue[c] = <<>> /\ wire[c] = <<>> /\ inflight[c] = NoPacket
        /\ arrived[f] = <<>> /\ reader.pkt = NoPacket /\ NoPacket.no = 0 /\ n # 0
        /\ 1..Len(<<>>) = {}
    BY DEF Init, Idle, NoPacket
  <2>. QED  BY <2>1 DEF At
<1>2. \A f \in TcpFlow : 1..sent[f] = {}
  BY DEF Init, Flow
<1>. QED  BY <1>1, <1>2 DEF Once, Single, AllKept

LEMMA AlwaysPlaced == AnySpec => [](IInv /\ Once /\ AllKept)
  BY InitInv, NextInv, PlacesInit, PlacesInv, PTL DEF AnySpec

-----------------------------------------------------------------------------
(* Counting the places.                                                    *)

LEMMA CopiesOfPlaces ==
    ASSUME IInv, NEW f \in Flow, NEW n \in 1..MaxPacket, Single(f, n)
    PROVE  /\ Copies(f, n) <= 1
           /\ Kept(f, n) => Copies(f, n) = 1
<1>. DEFINE Q == PlacesIn(queue, f, n)
            W == PlacesIn(wire, f, n)
            H == {c \in Conn : inflight[c].flow = f /\ inflight[c].no = n}
            A == {i \in DOMAIN arrived[f] : arrived[f][i] = n}
            R == reader.at # "after" /\ reader.pkt.flow = f /\ reader.pkt.no = n
<1>1. /\ \A c \in Conn : DOMAIN queue[c] = 1..Len(queue[c]) /\ DOMAIN wire[c] = 1..Len(wire[c])
      /\ DOMAIN arrived[f] = 1..Len(arrived[f])
  BY DEF IInv, Types
<1>2. \A p : p \in Q <=> \E c \in Conn : \E i \in 1..Len(queue[c]) :
                            p = <<c, i>> /\ At("queue", c, i, f, n)
  BY <1>1 DEF PlacesIn, At
<1>3. \A p : p \in W <=> \E c \in Conn : \E i \in 1..Len(wire[c]) :
                            p = <<c, i>> /\ At("wire", c, i, f, n)
  BY <1>1 DEF PlacesIn, At
<1>4. /\ \A c : c \in H <=> At("hand", c, 0, f, n)
      /\ \A i : i \in A <=> i \in 1..Len(arrived[f]) /\ At("there", None, i, f, n)
      /\ R <=> At("reader", None, 0, f, n)
  BY <1>1 DEF At
<1>5. \A k, l, c, d : \A i, j \in Nat :
         At(k, c, i, f, n) /\ At(l, d, j, f, n) => k = l /\ c = d /\ i = j
  BY DEF Single
<1>6. /\ \A c \in Conn : 1..Len(queue[c]) \subseteq Nat /\ 1..Len(wire[c]) \subseteq Nat
      /\ 1..Len(arrived[f]) \subseteq Nat /\ 0 \in Nat
  BY DEF IInv, Types
<1>. HIDE DEF Q, W, H, A, R
<1>7. /\ \A x, y \in Q : x = y
      /\ \A x, y \in W : x = y
      /\ \A x, y \in H : x = y
      /\ \A x, y \in A : x = y
  BY <1>2, <1>3, <1>4, <1>5, <1>6
<1>8. /\ Cardinality(Q) = IF Q = {} THEN 0 ELSE 1
      /\ Cardinality(W) = IF W = {} THEN 0 ELSE 1
      /\ Cardinality(H) = IF H = {} THEN 0 ELSE 1
      /\ Cardinality(A) = IF A = {} THEN 0 ELSE 1
  <2>1. Cardinality(Q) = IF Q = {} THEN 0 ELSE 1
    BY <1>7, AtMostOne
  <2>2. Cardinality(W) = IF W = {} THEN 0 ELSE 1
    BY <1>7, AtMostOne
  <2>3. Cardinality(H) = IF H = {} THEN 0 ELSE 1
    BY <1>7, AtMostOne
  <2>4. Cardinality(A) = IF A = {} THEN 0 ELSE 1
    BY <1>7, AtMostOne
  <2>. QED  BY <2>1, <2>2, <2>3, <2>4
<1>9. /\ Q # {} => W = {} /\ H = {} /\ A = {} /\ ~R
      /\ W # {} => H = {} /\ A = {} /\ ~R
      /\ H # {} => A = {} /\ ~R
      /\ A # {} => ~R
  <2>1. Q # {} => \E c, i : i \in Nat /\ At("queue", c, i, f, n)
    BY <1>2, <1>6
  <2>2. W # {} => \E c, i : i \in Nat /\ At("wire", c, i, f, n)
    BY <1>3, <1>6
  <2>3. H # {} => \E c, i : i \in Nat /\ At("hand", c, i, f, n)
    BY <1>4, <1>6
  <2>4. A # {} => \E c, i : i \in Nat /\ At("there", c, i, f, n)
    BY <1>4, <1>6
  <2>5. R => \E c, i : i \in Nat /\ At("reader", c, i, f, n)
    BY <1>4, <1>6
  <2>. QED  BY <1>5, <2>1, <2>2, <2>3, <2>4, <2>5
<1>10. Kept(f, n) => Q # {} \/ W # {} \/ H # {} \/ A # {} \/ R
  <2>1. SUFFICES ASSUME NEW k, NEW c, NEW i \in Nat, At(k, c, i, f, n)
                 PROVE  Q # {} \/ W # {} \/ H # {} \/ A # {} \/ R
    BY DEF Kept
  <2>2. CASE k = "queue"
    BY <1>2, <2>1, <2>2 DEF At
  <2>3. CASE k = "wire"
    BY <1>3, <2>1, <2>3 DEF At
  <2>4. CASE k = "hand"
    BY <1>4, <2>1, <2>4 DEF At
  <2>5. CASE k = "there"
    BY <1>4, <2>1, <2>5 DEF At
  <2>6. CASE k = "reader"
    BY <1>4, <2>1, <2>6 DEF At
  <2>. QED  BY <2>1, <2>2, <2>3, <2>4, <2>5, <2>6 DEF At
<1>11. Copies(f, n) = Cardinality(Q) + Cardinality(H) + Cardinality(W) + Cardinality(A)
                      + (IF R THEN 1 ELSE 0)
  BY DEF Copies, Q, W, H, A, R
<1>12. Copies(f, n) = (IF Q = {} THEN 0 ELSE 1) + (IF H = {} THEN 0 ELSE 1)
                      + (IF W = {} THEN 0 ELSE 1) + (IF A = {} THEN 0 ELSE 1)
                      + (IF R THEN 1 ELSE 0)
  BY <1>8, <1>11
<1>. QED  BY <1>9, <1>10, <1>12

LEMMA AnyNeverTwice == AnySpec => []NeverTwice
<1>1. IInv /\ Once => NeverTwice
  BY CopiesOfPlaces DEF Once, NeverTwice
<1>. QED  BY <1>1, AlwaysPlaced, PTL

\* No packet is ever in two places: a retry after "closed" never follows an
\* acceptance, even when the connection closes during the select.
THEOREM NoDuplicate == Spec => []NeverTwice
  BY SpecIsAny, AnyNeverTwice, PTL

\* While no connection has closed, every TCP packet read from the TUN is on
\* its way or has arrived: a full queue blocks the reader, it never drops.
THEOREM NeverDropped == Spec => []TcpNeverDropped
<1>1. ASSUME IInv, Once, AllKept, NoneClosed, NEW f \in TcpFlow, NEW n \in 1..sent[f]
      PROVE  Copies(f, n) = 1
  <2>1. f \in Flow /\ n \in 1..MaxPacket
    BY <1>1, Constants DEF IInv, Types, Flow
  <2>. QED  BY <1>1, <2>1, CopiesOfPlaces DEF Once, AllKept
<1>2. IInv /\ Once /\ AllKept => TcpNeverDropped
  BY <1>1 DEF TcpNeverDropped, NoneClosed, Joined
<1>. QED  BY <1>2, SpecIsAny, AlwaysPlaced, PTL

-----------------------------------------------------------------------------
(* The refinement of Delivery.                                             *)

\* Packet n of flow f is somewhere on connection c.
Carries(c, f, n) == \E k \in {"queue", "hand", "wire"} : \E i \in Nat : At(k, c, i, f, n)

\* Both sets by the places of the packets, in every state
Views ==
    /\ Held \subseteq Flow \X (1..MaxPacket)
    /\ \A f \in Flow : \A n \in 1..MaxPacket :
         <<f, n>> \in Held <=> At("reader", None, 0, f, n)
    /\ Carried \subseteq (Flow \X (1..MaxPacket)) \X Conn
    /\ \A f \in Flow : \A n \in 1..MaxPacket : \A c \in Conn :
         <<<<f, n>>, c>> \in Carried <=> Carries(c, f, n)

LEMMA HeldIs ==
    IInv => /\ Held \subseteq Flow \X (1..MaxPacket)
            /\ \A f \in Flow : \A n \in 1..MaxPacket :
                 <<f, n>> \in Held <=> At("reader", None, 0, f, n)
<1>. SUFFICES ASSUME IInv
              PROVE  /\ Held \subseteq Flow \X (1..MaxPacket)
                     /\ \A f \in Flow : \A n \in 1..MaxPacket :
                          <<f, n>> \in Held <=> At("reader", None, 0, f, n)
  OBVIOUS
<1>1. CASE reader.at = "idle"
  <2>1. reader.pkt.no = 0
    BY <1>1 DEF IInv, Reads, Idle, NoPacket
  <2>. QED  BY <1>1, <2>1 DEF Held, At
<1>2. CASE reader.at = "after"
  BY <1>2 DEF Held, At
<1>3. CASE reader.at \notin {"idle", "after"}
  <2>1. reader.pkt.flow \in Flow /\ reader.pkt.no \in 1..MaxPacket
    BY <1>3, PacketFields DEF IInv, Reads
  <2>2. Held = {<<reader.pkt.flow, reader.pkt.no>>}
    BY <1>3 DEF Held, Of
  <2>. QED  BY <1>3, <2>1, <2>2 DEF At
<1>. QED  BY <1>1, <1>2, <1>3

LEMMA CarriedIs ==
    IInv => /\ Carried \subseteq (Flow \X (1..MaxPacket)) \X Conn
            /\ \A f \in Flow : \A n \in 1..MaxPacket : \A c \in Conn :
                 <<<<f, n>>, c>> \in Carried <=> Carries(c, f, n)
<1>. SUFFICES ASSUME IInv
              PROVE  /\ Carried \subseteq (Flow \X (1..MaxPacket)) \X Conn
                     /\ \A f \in Flow : \A n \in 1..MaxPacket : \A c \in Conn :
                          <<<<f, n>>, c>> \in Carried <=> Carries(c, f, n)
  OBVIOUS
<1>1. ASSUME NEW c \in Conn, NEW pkt
      PROVE  pkt \in On(c) <=>
               /\ pkt \in Packet
               /\ \/ \E i \in 1..Len(queue[c]) : pkt = queue[c][i]
                  \/ pkt = inflight[c]
                  \/ \E i \in 1..Len(wire[c]) : pkt = wire[c][i]
  <2>1. /\ queue[c] \in Seq(Packet) /\ wire[c] \in Seq(Packet)
        /\ inflight[c] \in Packet \cup {NoPacket} /\ NoPacket \notin Packet
    BY Constants DEF IInv, Types
  <2>2. /\ Range(queue[c]) = {queue[c][i] : i \in 1..Len(queue[c])}
        /\ Range(wire[c]) = {wire[c][i] : i \in 1..Len(wire[c])}
        /\ Range(queue[c]) \subseteq Packet /\ Range(wire[c]) \subseteq Packet
    BY <2>1 DEF Range
  <2>. QED  BY <2>1, <2>2 DEF On
<1>2. ASSUME NEW c \in Conn, NEW f \in Flow, NEW n \in 1..MaxPacket
      PROVE  (\E pkt \in On(c) : pkt.flow = f /\ pkt.no = n) <=> Carries(c, f, n)
  <2>1. /\ queue[c] \in Seq(Packet) /\ wire[c] \in Seq(Packet)
        /\ inflight[c] \in Packet \cup {NoPacket} /\ NoPacket.no = 0 /\ n # 0
        /\ \A i \in 1..Len(queue[c]) : queue[c][i] \in Packet /\ i \in Nat
        /\ \A i \in 1..Len(wire[c]) : wire[c][i] \in Packet /\ i \in Nat
    BY DEF IInv, Types, NoPacket
  <2>2. Carries(c, f, n) <=>
          \/ \E i \in 1..Len(queue[c]) : queue[c][i].flow = f /\ queue[c][i].no = n
          \/ inflight[c].flow = f /\ inflight[c].no = n
          \/ \E i \in 1..Len(wire[c]) : wire[c][i].flow = f /\ wire[c][i].no = n
    BY <2>1 DEF Carries, At
  <2>3. inflight[c].no = n => inflight[c] \in Packet
    BY <2>1
  <2>4. ASSUME NEW pkt \in On(c), pkt.flow = f, pkt.no = n
        PROVE  Carries(c, f, n)
    BY <1>1, <2>2, <2>4
  <2>5. ASSUME Carries(c, f, n)
        PROVE  \E pkt \in On(c) : pkt.flow = f /\ pkt.no = n
    <3>1. CASE \E i \in 1..Len(queue[c]) : queue[c][i].flow = f /\ queue[c][i].no = n
      BY <1>1, <2>1, <3>1
    <3>2. CASE inflight[c].flow = f /\ inflight[c].no = n
      BY <1>1, <2>3, <3>2
    <3>3. CASE \E i \in 1..Len(wire[c]) : wire[c][i].flow = f /\ wire[c][i].no = n
      BY <1>1, <2>1, <3>3
    <3>. QED  BY <2>2, <2>5, <3>1, <3>2, <3>3
  <2>. QED  BY <2>4, <2>5
<1>3. \A x : x \in Carried <=>
        \E c \in Conn : \E pkt \in On(c) : x = <<<<pkt.flow, pkt.no>>, c>>
  BY DEF Carried, Of
<1>4. \A c \in Conn : \A pkt \in On(c) : pkt.flow \in Flow /\ pkt.no \in 1..MaxPacket
  BY <1>1, PacketFields
<1>5. Carried \subseteq (Flow \X (1..MaxPacket)) \X Conn
  BY <1>3, <1>4
<1>6. ASSUME NEW f \in Flow, NEW n \in 1..MaxPacket, NEW c \in Conn
      PROVE  <<<<f, n>>, c>> \in Carried <=> Carries(c, f, n)
  <2>1. <<<<f, n>>, c>> \in Carried <=> \E pkt \in On(c) : pkt.flow = f /\ pkt.no = n
    BY <1>3
  <2>. QED  BY <1>2, <2>1
<1>. QED  BY <1>5, <1>6

LEMMA ViewsAre == IInv => Views
  BY HeldIs, CarriedIs DEF Views

\* and after a step.
LEMMA ViewsThen == IInv' => Views'
  BY ViewsAre, PTL

\* A step that moves packets from one place of a connection to another.
LEMMA HopCarries ==
    ASSUME NEW c \in Conn, NEW f \in Flow, NEW n \in 1..MaxPacket,
           NEW k1 \in {"queue", "hand", "wire"}, NEW k2 \in {"queue", "hand", "wire"}, k1 # k2,
           NEW i1 \in {0, 1}, NEW i2 \in Nat, Hop(k1, c, i1, k2, c, i2, f, n),
           \A i \in Nat : At(k1, c, i, f, n) => i >= i1 /\ (i1 = 0 => i = 0)
    PROVE  \A d \in Conn : Carries(d, f, n)' <=> Carries(d, f, n)
<1>1. ASSUME NEW d \in Conn, Carries(d, f, n)
      PROVE  Carries(d, f, n)'
  <2>1. PICK k \in {"queue", "hand", "wire"}, i \in Nat : At(k, d, i, f, n)
    BY <1>1 DEF Carries
  <2>2. CASE ~ (k = k1 /\ d = c)
    <3>1. At(k, d, i, f, n)'
      BY <2>1, <2>2 DEF Hop
    <3>. QED  BY <3>1 DEF Carries
  <2>3. CASE k = k1 /\ d = c /\ i = i1
    <3>1. At(k2, c, i2, f, n)'
      BY <2>1, <2>3 DEF Hop
    <3>. QED  BY <2>3, <3>1 DEF Carries
  <2>4. CASE k = k1 /\ d = c /\ i # i1
    <3>1. i - 1 \in Nat /\ i - 1 >= 1 /\ (i - 1) + 1 = i
      BY <2>1, <2>4
    <3>2. At(k1, c, i - 1, f, n)'
      BY <2>1, <2>4, <3>1 DEF Hop
    <3>. QED  BY <2>4, <3>1, <3>2 DEF Carries
  <2>. QED  BY <2>2, <2>3, <2>4
<1>2. ASSUME NEW d \in Conn, Carries(d, f, n)'
      PROVE  Carries(d, f, n)
  <2>1. PICK k \in {"queue", "hand", "wire"}, i \in Nat : At(k, d, i, f, n)'
    BY <1>2 DEF Carries
  <2>2. /\ i + 1 \in Nat /\ i1 \in Nat
        /\ \/ d = c /\ At(k1, c, i1, f, n)
           \/ d = c /\ At(k1, c, i + 1, f, n)
           \/ At(k, d, i, f, n)
    BY <2>1 DEF Hop
  <2>. QED  BY <2>1, <2>2 DEF Carries
<1>. QED  BY <1>1, <1>2

LEMMA SameHeld ==
    ASSUME IInv, IInv',
           \A f \in Flow : \A n \in 1..MaxPacket :
             At("reader", None, 0, f, n)' <=> At("reader", None, 0, f, n)
    PROVE  Held' = Held
<1>1. ASSUME NEW x \in Flow \X (1..MaxPacket)
      PROVE  x \in Held' <=> x \in Held
  <2>1. PICK f \in Flow, n \in 1..MaxPacket : x = <<f, n>>
    OBVIOUS
  <2>2. /\ <<f, n>> \in Held <=> At("reader", None, 0, f, n)
        /\ <<f, n>> \in Held' <=> At("reader", None, 0, f, n)'
    BY ViewsAre, ViewsThen DEF Views
  <2>. QED  BY <2>1, <2>2
<1>2. Held \subseteq Flow \X (1..MaxPacket) /\ Held' \subseteq Flow \X (1..MaxPacket)
  BY ViewsAre, ViewsThen DEF Views
<1>. QED  BY <1>1, <1>2

LEMMA SameCarried ==
    ASSUME IInv, IInv',
           \A f \in Flow : \A n \in 1..MaxPacket : \A c \in Conn :
             Carries(c, f, n)' <=> Carries(c, f, n)
    PROVE  Carried' = Carried
<1>1. ASSUME NEW x \in (Flow \X (1..MaxPacket)) \X Conn
      PROVE  x \in Carried' <=> x \in Carried
  <2>1. PICK f \in Flow, n \in 1..MaxPacket, c \in Conn : x = <<<<f, n>>, c>>
    OBVIOUS
  <2>. QED  BY <2>1, ViewsAre, ViewsThen DEF Views
<1>. QED  BY <1>1, ViewsAre, ViewsThen DEF Views

\* Where nothing moves, nothing changes.
LEMMA StillCarried ==
    ASSUME UNCHANGED data
    PROVE  Carried' = Carried
  BY DEF data, Carried, On

LEMMA StillBroken ==
    ASSUME UNCHANGED lanes
    PROVE  Broken' = Broken
  BY DEF lanes, Broken

\* Nothing Delivery sees changes.
Unseen == UNCHANGED <<sent, Held, Carried, arrived, Broken>>

LEMMA TurnsUnseen ==
    ASSUME IInv, IInv', Turns
    PROVE  Unseen
<1>1. /\ reader.at # "after" /\ reader'.at # "after" /\ reader'.pkt = reader.pkt
      /\ UNCHANGED <<lanes, data, sent, arrived>>
  BY DEF Turns
<1>2. Held' = Held
  BY <1>1, SameHeld DEF At
<1>. QED  BY <1>1, <1>2, StillCarried, StillBroken DEF Unseen

LEMMA AfterUnseen ==
    ASSUME IInv, IInv', After
    PROVE  Unseen
<1>1. /\ reader.at = "after" /\ reader'.at = "idle" /\ UNCHANGED <<lanes, data, sent, arrived>>
  BY DEF After, Idle
<1>2. Held' = {} /\ Held = {}
  BY <1>1 DEF Held
<1>. QED  BY <1>1, <1>2, StillCarried, StillBroken DEF Unseen

LEMMA MovesUnseen ==
    ASSUME IInv, IInv', NEW c \in Conn, Take(c) \/ Write(c)
    PROVE  Unseen
<1>1. UNCHANGED <<lanes, reader, sent, arrived>>
  BY DEF Take, Write
<1>2. Held' = Held
  BY <1>1 DEF Held
<1>3. \A f \in Flow : \A n \in 1..MaxPacket : \A d \in Conn :
        Carries(d, f, n)' <=> Carries(d, f, n)
  <2>. SUFFICES ASSUME NEW f \in Flow, NEW n \in 1..MaxPacket
                PROVE  \A d \in Conn : Carries(d, f, n)' <=> Carries(d, f, n)
    OBVIOUS
  <2>1. CASE Take(c)
    <3>1. Hop("queue", c, 1, "hand", c, 0, f, n)
      BY <2>1, TakeHop
    <3>2. \A i \in Nat : At("queue", c, i, f, n) => i >= 1
      BY DEF At, IInv, Types
    <3>. QED  BY <3>1, <3>2, HopCarries
  <2>2. CASE Write(c)
    <3>1. Hop("hand", c, 0, "wire", c, Len(wire[c]) + 1, f, n)
      BY <2>2, WriteHop
    <3>2. Len(wire[c]) + 1 \in Nat
      BY DEF IInv, Types
    <3>3. \A i \in Nat : At("hand", c, i, f, n) => i >= 0 /\ i = 0
      BY DEF At
    <3>. QED  BY <3>1, <3>2, <3>3, HopCarries
  <2>. QED  BY <2>1, <2>2
<1>4. Carried' = Carried
  BY <1>3, SameCarried
<1>. QED  BY <1>1, <1>2, <1>4, StillBroken DEF Unseen

LEMMA GivesUpDrops ==
    ASSUME IInv, GivesUp
    PROVE  D!Next
<1>1. /\ reader.at \in {"tryUdp", "brief"} /\ reader'.at = "idle"
      /\ reader.pkt.flow \notin TcpFlow
      /\ UNCHANGED <<lanes, data, sent, arrived>>
  BY DEF GivesUp, Idle, IInv, Reads
<1>2. /\ Held = {Of(reader.pkt)} /\ Held' = {} /\ Of(reader.pkt)[1] = reader.pkt.flow
  BY <1>1 DEF Held, Of
<1>3. D!Drop(Of(reader.pkt))
  BY <1>1, <1>2, StillCarried, StillBroken DEF D!Drop
<1>. QED  BY <1>2, <1>3 DEF D!Next

LEMMA PutsAccepts ==
    ASSUME IInv, IInv', NEW c \in Conn, Puts(c)
    PROVE  D!Next
<1>. DEFINE p == Of(reader.pkt)
<1>1. /\ reader.at \notin {"idle", "after"} /\ reader'.at \in {"idle", "after"}
      /\ UNCHANGED <<lanes, sent, arrived>>
  BY DEF Puts, Idle
<1>2. Held = {p} /\ Held' = {}
  BY <1>1 DEF Held
<1>3. ASSUME NEW f \in Flow, NEW n \in 1..MaxPacket, NEW d \in Conn
      PROVE  Carries(d, f, n)' <=>
               Carries(d, f, n) \/ (d = c /\ At("reader", None, 0, f, n))
  <2>1. Hop("reader", None, 0, "queue", c, Len(queue[c]) + 1, f, n)
    BY PutsHop
  <2>2. Len(queue[c]) + 1 \in Nat
    BY DEF IInv, Types
  <2>3. \A k \in {"queue", "hand", "wire"} : \A i \in Nat :
          At(k, d, i, f, n)' <=>
            \/ k = "queue" /\ d = c /\ i = Len(queue[c]) + 1 /\ At("reader", None, 0, f, n)
            \/ At(k, d, i, f, n)
    BY <2>1 DEF Hop
  <2>. QED  BY <2>2, <2>3 DEF Carries
<1>4. ASSUME NEW f \in Flow, NEW n \in 1..MaxPacket
      PROVE  At("reader", None, 0, f, n) <=> <<f, n>> = p
  BY <1>2, HeldIs
<1>5. p \in Flow \X (1..MaxPacket)
  BY <1>2, HeldIs
<1>. HIDE DEF p
<1>6. Carried' = Carried \cup {<<p, c>>}
  <2>1. \A x \in (Flow \X (1..MaxPacket)) \X Conn :
          x \in Carried' <=> x \in Carried \/ x = <<p, c>>
    <3>1. SUFFICES ASSUME NEW f \in Flow, NEW n \in 1..MaxPacket, NEW d \in Conn
                   PROVE  <<<<f, n>>, d>> \in Carried' <=>
                            <<<<f, n>>, d>> \in Carried \/ <<<<f, n>>, d>> = <<p, c>>
      OBVIOUS
    <3>. QED  BY <1>3, <1>4, ViewsAre, ViewsThen DEF Views
  <2>. QED  BY <1>5, <2>1, ViewsAre, ViewsThen DEF Views
<1>7. D!Accept(p, c)
  BY <1>1, <1>2, <1>6, StillBroken DEF D!Accept
<1>. QED  BY <1>2, <1>7 DEF D!Next

LEMMA DeliverArrives ==
    ASSUME IInv, IInv', Once, NEW c \in Conn, Deliver(c)
    PROVE  D!Next
<1>. DEFINE pkt == Head(wire[c])
            p == Of(pkt)
<1>1. /\ pkt \in Packet /\ pkt = wire[c][1] /\ 1 \in 1..Len(wire[c])
  BY Leaves DEF Deliver, IInv, Types
<1>2. p \in Flow \X (1..MaxPacket) /\ p[1] = pkt.flow /\ p[2] = pkt.no
  BY <1>1, PacketFields DEF Of
<1>3. /\ arrived' = [arrived EXCEPT ![pkt.flow] = Append(arrived[pkt.flow], pkt.no)]
      /\ UNCHANGED <<lanes, reader, sent>>
  BY DEF Deliver
<1>4. ASSUME NEW f \in Flow, NEW n \in 1..MaxPacket
      PROVE  At("wire", c, 1, f, n) <=> <<f, n>> = p
  BY <1>1 DEF At, Of
<1>. HIDE DEF pkt, p
<1>5. ASSUME NEW f \in Flow, NEW n \in 1..MaxPacket, NEW d \in Conn
      PROVE  Carries(d, f, n)' <=> Carries(d, f, n) /\ ~(d = c /\ <<f, n>> = p)
  <2>1. PICK l \in Nat : Hop("wire", c, 1, "there", None, l, f, n)
    BY DeliverHop
  <2>2. \A k \in {"queue", "hand", "wire"} : \A i \in Nat :
          At(k, d, i, f, n)' <=>
            \/ k = "wire" /\ d = c /\ i >= 1 /\ At("wire", c, i + 1, f, n)
            \/ ~ (k = "wire" /\ d = c) /\ At(k, d, i, f, n)
    BY <2>1 DEF Hop
  <2>3. \A k, l1, e, d1 : \A i, j \in Nat :
          At(k, e, i, f, n) /\ At(l1, d1, j, f, n) => k = l1 /\ e = d1 /\ i = j
    BY DEF Once, Single
  <2>4. CASE <<f, n>> = p
    <3>1. At("wire", c, 1, f, n)
      BY <1>4, <2>4
    <3>2. \A i \in Nat : i >= 1 => ~At("wire", c, i + 1, f, n)
      <4>1. ASSUME NEW i \in Nat, i >= 1, At("wire", c, i + 1, f, n)
            PROVE  FALSE
        <5>1. i + 1 \in Nat /\ i + 1 # 1
          BY <4>1
        <5>. QED  BY <2>3, <3>1, <4>1, <5>1
      <4>. QED  BY <4>1
    <3>3. \A k \in {"queue", "hand", "wire"} : \A i \in Nat :
            At(k, d, i, f, n) => d = c /\ k = "wire"
      BY <2>3, <3>1
    <3>4. ~Carries(d, f, n)'
      BY <2>2, <3>2, <3>3 DEF Carries
    <3>5. d # c => ~Carries(d, f, n)
      BY <3>3 DEF Carries
    <3>. QED  BY <2>4, <3>4, <3>5
  <2>5. CASE <<f, n>> # p
    <3>1. ~At("wire", c, 1, f, n)
      BY <1>4, <2>5
    <3>2. ASSUME NEW i \in Nat, At("wire", c, i, f, n)
          PROVE  i - 1 \in Nat /\ i - 1 >= 1 /\ (i - 1) + 1 = i
      <4>1. i # 1 /\ i >= 1
        BY <3>1, <3>2 DEF At
      <4>. QED  BY <4>1
    <3>3. ASSUME Carries(d, f, n)
          PROVE  Carries(d, f, n)'
      <4>1. PICK k \in {"queue", "hand", "wire"}, i \in Nat : At(k, d, i, f, n)
        BY <3>3 DEF Carries
      <4>2. CASE k = "wire" /\ d = c
        <5>1. At("wire", c, i - 1, f, n)'
          BY <2>2, <3>2, <4>1, <4>2
        <5>. QED  BY <3>2, <4>1, <4>2, <5>1 DEF Carries
      <4>3. CASE ~ (k = "wire" /\ d = c)
        BY <2>2, <4>1, <4>3 DEF Carries
      <4>. QED  BY <4>2, <4>3
    <3>4. ASSUME Carries(d, f, n)'
          PROVE  Carries(d, f, n)
      <4>1. PICK k \in {"queue", "hand", "wire"}, i \in Nat : At(k, d, i, f, n)'
        BY <3>4 DEF Carries
      <4>2. i + 1 \in Nat /\ ((At("wire", c, i + 1, f, n) /\ d = c) \/ At(k, d, i, f, n))
        BY <2>2, <4>1
      <4>. QED  BY <4>2 DEF Carries
    <3>. QED  BY <2>5, <3>3, <3>4
  <2>. QED  BY <2>4, <2>5
<1>6. <<p, c>> \in Carried
  <2>1. PICK f \in Flow, n \in 1..MaxPacket : p = <<f, n>>
    BY <1>2
  <2>2. At("wire", c, 1, f, n)
    BY <1>4, <2>1
  <2>3. Carries(c, f, n)
    BY <2>2 DEF Carries
  <2>. QED  BY <2>1, <2>3, CarriedIs
<1>7. Carried' = Carried \ {<<p, c>>}
  <2>1. \A x \in (Flow \X (1..MaxPacket)) \X Conn :
          x \in Carried' <=> x \in Carried /\ x # <<p, c>>
    <3>1. SUFFICES ASSUME NEW f \in Flow, NEW n \in 1..MaxPacket, NEW d \in Conn
                   PROVE  <<<<f, n>>, d>> \in Carried' <=>
                            <<<<f, n>>, d>> \in Carried /\ <<<<f, n>>, d>> # <<p, c>>
      OBVIOUS
    <3>. QED  BY <1>5, ViewsAre, ViewsThen DEF Views
  <2>. QED  BY <2>1, ViewsAre, ViewsThen DEF Views
<1>8. Held' = Held
  BY <1>3 DEF Held
<1>9. D!Arrive(p, c)
  BY <1>2, <1>3, <1>6, <1>7, <1>8, StillBroken DEF D!Arrive
<1>10. <<p, c>>[1] = p /\ <<p, c>>[2] = c
  OBVIOUS
<1>. QED  BY <1>6, <1>9, <1>10 DEF D!Next

LEMMA WireLostLoses ==
    ASSUME IInv, IInv', NEW c \in Conn, WireLost(c)
    PROVE  D!Next
<1>1. /\ ~alive[c] /\ wire[c] # <<>> /\ wire' = [wire EXCEPT ![c] = <<>>]
      /\ UNCHANGED <<lanes, queue, inflight, reader, sent, arrived>>
  BY DEF WireLost
<1>2. c \in Broken
  BY <1>1 DEF IInv, Members, Joined, Broken
<1>3. wire'[c] = <<>> /\ (\A d \in Conn \ {c} : wire'[d] = wire[d]) /\ 1..Len(<<>>) = {}
  BY <1>1 DEF IInv, Types
<1>4. ASSUME NEW f \in Flow, NEW n \in 1..MaxPacket, NEW d \in Conn
      PROVE  /\ Carries(d, f, n)' => Carries(d, f, n)
             /\ d # c => (Carries(d, f, n) => Carries(d, f, n)')
  <2>1. \A k \in {"queue", "hand", "wire"} : \A i \in Nat :
          /\ At(k, d, i, f, n)' => At(k, d, i, f, n)
          /\ d # c /\ At(k, d, i, f, n) => At(k, d, i, f, n)'
    BY <1>1, <1>3 DEF At
  <2>. QED  BY <2>1 DEF Carries
<1>5. \A x \in (Flow \X (1..MaxPacket)) \X Conn :
        /\ x \in Carried' => x \in Carried
        /\ x \in Carried /\ x[2] # c => x \in Carried'
  <2>1. SUFFICES ASSUME NEW f \in Flow, NEW n \in 1..MaxPacket, NEW d \in Conn
                 PROVE  /\ <<<<f, n>>, d>> \in Carried' => <<<<f, n>>, d>> \in Carried
                        /\ <<<<f, n>>, d>> \in Carried /\ d # c => <<<<f, n>>, d>> \in Carried'
    OBVIOUS
  <2>. QED  BY <1>4, ViewsAre, ViewsThen DEF Views
<1>6. Carried' \subseteq Carried /\ \A x \in Carried \ Carried' : x[2] \in Broken
  BY <1>2, <1>5, ViewsAre, ViewsThen DEF Views
<1>7. Held' = Held
  BY <1>1 DEF Held
<1>8. D!Lose
  BY <1>1, <1>6, <1>7, StillBroken DEF D!Lose
<1>. QED  BY <1>8 DEF D!Next

LEMMA LanesBreak ==
    ASSUME LanesMove
    PROVE  D!Next
<1>1. /\ \A c \in Conn : Joined(c) => Joined(c)' /\ (alive'[c] => alive[c])
      /\ UNCHANGED <<data, reader, sent, arrived>>
  BY DEF LanesMove
<1>2. Broken \subseteq Broken' /\ Broken' \subseteq Conn
  BY <1>1 DEF Broken, Joined
<1>3. Held' = Held
  BY <1>1 DEF Held
<1>4. D!Break
  BY <1>1, <1>2, <1>3, StillCarried DEF D!Break
<1>. QED  BY <1>4 DEF D!Next

LEMMA ReadSends ==
    ASSUME IInv, NEW f \in Flow, NEW kind \in TcpKind \cup Datagram, Read(f, kind)
    PROVE  D!Next
<1>1. /\ reader.at = "idle" /\ reader'.at \in {"route", "snapshot", "primary"}
      /\ reader'.pkt.flow = f /\ reader'.pkt.no = sent[f] + 1
      /\ sent' = [sent EXCEPT ![f] = sent[f] + 1]
      /\ UNCHANGED <<lanes, data, arrived>>
  BY ReadStep
<1>2. Held = {} /\ Held' = {<<f, sent[f] + 1>>}
  BY <1>1 DEF Held, Of
<1>3. D!Send(f)
  BY <1>1, <1>2, StillCarried, StillBroken DEF D!Send
<1>. QED  BY <1>3 DEF D!Next

\* Every step of the client is a step of Delivery or changes nothing it shows.
LEMMA StepDelivers ==
    ASSUME IInv, IInv', Once, [AnyNext]_vars
    PROVE  [D!Next]_<<sent, Held, Carried, arrived, Broken>>
<1>1. CASE Turns
  BY <1>1, TurnsUnseen DEF Unseen
<1>2. CASE After
  BY <1>2, AfterUnseen DEF Unseen
<1>3. ASSUME NEW c \in Conn, Take(c) \/ Write(c)
      PROVE  Unseen
  BY <1>3, MovesUnseen
<1>4. ASSUME NEW f \in TcpFlow, Expire(f)
      PROVE  Unseen
  <2>1. UNCHANGED <<lanes, data, reader, sent, arrived>>
    BY <1>4 DEF Expire
  <2>2. Held' = Held
    BY <2>1 DEF Held
  <2>. QED  BY <2>1, <2>2, StillCarried, StillBroken DEF Unseen
<1>5. CASE UNCHANGED vars
  <2>1. UNCHANGED <<lanes, data, reader, sent, arrived>>
    BY <1>5 DEF vars
  <2>2. Held' = Held
    BY <2>1 DEF Held
  <2>. QED  BY <2>1, <2>2, StillCarried, StillBroken DEF Unseen
<1>6. Unseen \/ D!Next
  BY <1>1, <1>2, <1>3, <1>4, <1>5, GivesUpDrops, PutsAccepts, DeliverArrives, WireLostLoses,
     LanesBreak, ReadSends, RolesMove, LivesMove, ReaderSteps DEF AnyNext, Next, Unseen
<1>. QED  BY <1>6 DEF Unseen

LEMMA AnyDelivers == AnySpec => ImplementsDelivery
<1>1. Init => D!Init
  <2>. SUFFICES ASSUME Init
                PROVE  D!Init
    OBVIOUS
  <2>1. Held = {} /\ Broken = {}
    BY DEF Init, Idle, Held, Broken
  <2>2. \A c \in Conn : On(c) = {}
    <3>1. Range(<<>>) = {}
      BY DEF Range
    <3>. QED  BY <3>1 DEF Init, On
  <2>3. Carried = {}
    BY <2>2 DEF Carried
  <2>. QED  BY <2>1, <2>3 DEF Init, D!Init
<1>2. IInv /\ IInv' /\ Once /\ [AnyNext]_vars => [D!Next]_<<sent, Held, Carried, arrived, Broken>>
  BY StepDelivers
<1>. QED
  BY <1>1, <1>2, AlwaysPlaced, PTL DEF AnySpec, ImplementsDelivery, D!Spec, D!vars

\* The client forwards at most once and drops no TCP packet itself: a TCP
\* packet stays with the TUN reader until one connection accepts it, through
\* every retry, and is lost only with the connection that had accepted it.
THEOREM ClientImplementsDelivery == Spec => ImplementsDelivery
  BY SpecIsAny, AnyDelivers, PTL

\* What the data path needs of the pool is only that a connection which has
\* stopped serving never serves again: under every policy of promotion and
\* rotation with that property, decisions about many connections in one step
\* included, flows stay pinned to one lane and delivery is at most once.
THEOREM AnyPolicy ==
    AnySpec => FlowPinned /\ []OneServingLane /\ []NeverTwice /\ ImplementsDelivery
  BY AnyPinned, AnyOneLane, AnyNeverTwice, AnyDelivers, PTL
=============================================================================
