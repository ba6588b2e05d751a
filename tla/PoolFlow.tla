------------------------------ MODULE PoolFlow ------------------------------
(***************************************************************************)
(* The client's data path (internal/conn/pool.go): one goroutine reads     *)
(* packets from the TUN and puts each on the bounded queue of one          *)
(* connection; every connection has a writer goroutine and, once it is     *)
(* rotated out, a drainer. The reader looks connections up under Pool.mu   *)
(* and enqueues without it, so a connection may be rotated out, drained or *)
(* dead by the time the packet reaches its queue. Who is primary is the    *)
(* business of Pool.tla; here roles move as PoolRoles says.                *)
(***************************************************************************)
EXTENDS Integers, Sequences, FiniteSets, SequencesExt

CONSTANTS
    MaxConn,   \* connections 1..MaxConn, numbered in the order they join (bound)
    TcpFlow,   \* TCP five-tuples
    TcpKind,   \* which of "syn" (no ACK), "data", "fin" (FIN or RST) are sent
    Datagram,  \* which of "udp", "icmp" are sent
    Cap,       \* writeChSize
    MaxPacket  \* packets per flow (bound)

ASSUME PoolFlowAssumption ==
    /\ MaxConn \in Nat \ {0} /\ Cap \in Nat \ {0} /\ MaxPacket \in Nat
    /\ TcpKind \subseteq {"syn", "data", "fin"}
    /\ Datagram \subseteq {"udp", "icmp"}
    /\ TcpFlow \cap (Datagram \cup {"none"}) = {}

Conn == 1..MaxConn
None == 0
Flow == TcpFlow \cup Datagram
NoPacket == [flow |-> "none", no |-> 0, kind |-> "none"]
Packet == [flow : Flow, no : 1..MaxPacket, kind : TcpKind \cup Datagram]

VARIABLES
    role,     \* pooledConn.role; "none" before it joins
    alive,    \* pooledConn.alive
    queue,    \* pooledConn.writeCh
    inflight, \* the packet writeConn has taken and not yet written
    wire,     \* written to the WebSocket, not yet read by the server
    tcpFlows, \* Pool.tcpFlows: the bound connection of a flow, or None
    reader,   \* the TUN reader: where it is, its packet, its connections
    sent,     \* packets of each flow read from the TUN so far
    arrived,  \* per flow, the packet numbers in the order the server read them
    dropped,  \* the datagrams dispatchPacket gave up on
    finished \* history: the flows whose FIN or RST was enqueued

lanes == <<role, alive>>
data  == <<queue, inflight, wire>>
vars  == <<lanes, data, tcpFlows, reader, sent, arrived, dropped, finished>>

Alive(what) == {c \in Conn : alive[c] /\ role[c] = what}
Primaries   == Alive("primary")
FirstOf(S)  == CHOOSE c \in S : \A d \in S : c <= d
HasRoomMutant(c) == Len(queue[c]) <= Cap \* one packet too many

\* The send case of a select on writeCh is ready.
HasRoom(c)  == Len(queue[c]) < Cap
Queued(c, pkt) == [queue EXCEPT ![c] = Append(@, pkt)]

\* queueHighWatermark: 0.8 of the capacity.
UnderPressure(c) == 10 * Len(queue[c]) >= 8 * Cap

Idle == [at |-> "idle", pkt |-> NoPacket, to |-> None, bound |-> FALSE, tries |-> <<>>]

-----------------------------------------------------------------------------
(* The TUN reader. For TCP: enqueueTCP.                                    *)

\* A packet is read from the TUN; dispatchPacket chooses by traffic class.
Read(f, kind) ==
    /\ reader.at = "idle"
    /\ sent[f] < MaxPacket
    /\ IF f \in TcpFlow THEN kind \in TcpKind ELSE kind = f
    /\ kind = "syn" => f \notin finished \* (bound) a five-tuple is not reused
    /\ sent' = [sent EXCEPT ![f] = @ + 1]
    /\ reader' = [Idle EXCEPT !.pkt = [flow |-> f, no |-> sent[f] + 1, kind |-> kind],
                              !.at = IF f \in TcpFlow THEN "route"
                                     ELSE IF f = "udp" THEN "snapshot" ELSE "primary"]
    /\ UNCHANGED <<lanes, data, tcpFlows, arrived, dropped, finished>>

BoundMutant(f) == None \* nobody looks at the bindings

\* boundTCPConn: a binding counts while its connection lives and is not
\* draining.
Bound(f) ==
    LET c == tcpFlows[f] IN
    IF c # None /\ alive[c] /\ role[c] # "draining" THEN c ELSE None

Route ==
    /\ reader.at = "route"
    /\ reader' = IF Bound(reader.pkt.flow) # None
                 THEN [reader EXCEPT !.at = "check", !.to = Bound(reader.pkt.flow),
                                     !.bound = TRUE]
                 ELSE [reader EXCEPT !.at = "primary", !.bound = FALSE]
    /\ UNCHANGED <<lanes, data, tcpFlows, sent, arrived, dropped, finished>>

\* primaryOrWait returns. Without a live primary the reader waits here.
TakePrimary ==
    /\ reader.at = "primary"
    /\ Primaries # {}
    /\ reader' = [reader EXCEPT !.to = FirstOf(Primaries),
                                !.at = CASE reader.pkt.kind = "syn"  -> "burst"
                                         [] reader.pkt.kind = "icmp" -> "brief"
                                         [] OTHER -> "check"]
    /\ UNCHANGED <<lanes, data, tcpFlows, sent, arrived, dropped, finished>>

\* tcpBurstStandby for an initial SYN: a degraded or crowded primary gives
\* the new flow to the live standby with the most room (the first of them).
Burst ==
    /\ reader.at = "burst"
    /\ LET room(c) == Cap - Len(queue[c])
           best    == {c \in Alive("standby") : \A d \in Alive("standby") : room(c) >= room(d)}
       IN  \E degraded \in BOOLEAN :
             reader' = IF Primaries # {} /\ best # {}
                          /\ (degraded \/ UnderPressure(FirstOf(Primaries)))
                       THEN [reader EXCEPT !.at = "try", !.tries = <<FirstOf(best)>>]
                       ELSE [reader EXCEPT !.at = "check"]
    /\ UNCHANGED <<lanes, data, tcpFlows, sent, arrived, dropped, finished>>

\* tryEnqueue on that standby; the primary is next if it refuses.
TryBurst ==
    /\ reader.at = "try"
    /\ LET c == Head(reader.tries) IN
       IF alive[c] /\ HasRoom(c)
       THEN /\ queue' = Queued(c, reader.pkt)
            /\ reader' = [reader EXCEPT !.at = "after", !.to = c]
       ELSE /\ reader' = [reader EXCEPT !.at = "check"]
            /\ UNCHANGED queue
    /\ UNCHANGED <<lanes, inflight, wire, tcpFlows, sent, arrived, dropped, finished>>

ClosedMutant == \* the packet is given up with the connection
    /\ reader' = Idle
    /\ tcpFlows' = IF reader.bound THEN [tcpFlows EXCEPT ![reader.pkt.flow] = None]
                   ELSE tcpFlows

\* enqueue found the connection closed: a bound flow loses its binding
\* (removeTCPFlow) and the loop starts over.
Closed ==
    /\ reader' = [reader EXCEPT !.at = "route"]
    /\ tcpFlows' = IF reader.bound THEN [tcpFlows EXCEPT ![reader.pkt.flow] = None]
                   ELSE tcpFlows

\* enqueue, first the tests of alive and done.
Check ==
    /\ reader.at = "check"
    /\ \/ /\ alive[reader.to]
          /\ reader' = [reader EXCEPT !.at = "push"]
          /\ UNCHANGED tcpFlows
       \/ ~alive[reader.to] /\ Closed
    /\ UNCHANGED <<lanes, data, sent, arrived, dropped, finished>>

PushTwiceMutant == \* an accepted packet is reported closed, and retried
    /\ reader.at = "push"
    /\ \/ /\ HasRoom(reader.to)
          /\ queue' = Queued(reader.to, reader.pkt)
          /\ IF alive[reader.to]
             THEN reader' = [reader EXCEPT !.at = "after"] /\ UNCHANGED tcpFlows
             ELSE Closed
       \/ ~alive[reader.to] /\ Closed /\ UNCHANGED queue
    /\ UNCHANGED <<lanes, inflight, wire, sent, arrived, dropped, finished>>

PushDeafMutant == \* the select has no case for done
    /\ reader.at = "push"
    /\ HasRoom(reader.to)
    /\ queue' = Queued(reader.to, reader.pkt)
    /\ reader' = [reader EXCEPT !.at = "after"]
    /\ UNCHANGED <<lanes, inflight, wire, tcpFlows, sent, arrived, dropped, finished>>

\* enqueue, then the select: the queue has room, or the connection is closed;
\* with both, Go picks either. With neither the reader is blocked, and with it
\* every packet behind this one: the backpressure on the TUN.
Push ==
    /\ reader.at = "push"
    /\ \/ /\ HasRoom(reader.to)
          /\ queue' = Queued(reader.to, reader.pkt)
          /\ reader' = [reader EXCEPT !.at = "after"]
          /\ UNCHANGED tcpFlows
       \/ ~alive[reader.to] /\ Closed /\ UNCHANGED queue
    /\ UNCHANGED <<lanes, inflight, wire, sent, arrived, dropped, finished>>

AfterMutant == \* the flow is bound to the primary of now, not to the queue used
    /\ reader.at = "after"
    /\ tcpFlows' = [tcpFlows EXCEPT ![reader.pkt.flow] =
                      IF Primaries = {} THEN None ELSE FirstOf(Primaries)]
    /\ reader' = Idle
    /\ UNCHANGED <<lanes, data, sent, arrived, dropped, finished>>

\* afterTCPEnqueue: FIN or RST forgets the flow, anything else (re)binds it.
After ==
    /\ reader.at = "after"
    /\ tcpFlows' = [tcpFlows EXCEPT ![reader.pkt.flow] =
                      IF reader.pkt.kind = "fin" THEN None ELSE reader.to]
    /\ finished' = IF reader.pkt.kind = "fin" THEN finished \cup {reader.pkt.flow}
                   ELSE finished
    /\ reader' = Idle
    /\ UNCHANGED <<lanes, data, sent, arrived, dropped>>

-----------------------------------------------------------------------------
(* The TUN reader, for UDP (enqueueUDP) and ICMP.                          *)

\* Some connections in the order of the pool's list.
Listings(S) == {s \in [1..Cardinality(S) -> S] : \A i, j \in DOMAIN s : i < j => s[i] < s[j]}

\* burstCandidates, a snapshot: the primary, then the standbys.
Snapshot ==
    /\ reader.at = "snapshot"
    /\ \E first \in Listings(Primaries), others \in Listings(Alive("standby")) :
         reader' = [reader EXCEPT !.at = "tryUdp", !.tries = first \o others]
    /\ UNCHANGED <<lanes, data, tcpFlows, sent, arrived, dropped, finished>>

\* tryEnqueue on one candidate after the other.
TryUdp ==
    /\ reader.at = "tryUdp"
    /\ reader.tries # <<>>
    /\ LET c == Head(reader.tries) IN
       IF alive[c] /\ HasRoom(c)
       THEN queue' = Queued(c, reader.pkt) /\ reader' = Idle
       ELSE UNCHANGED queue /\ reader' = [reader EXCEPT !.tries = Tail(@)]
    /\ UNCHANGED <<lanes, inflight, wire, tcpFlows, sent, arrived, dropped, finished>>

LastResortMutant == \* waits for a primary as ICMP does
    /\ reader.at = "tryUdp"
    /\ reader.tries = <<>>
    /\ Primaries # {}
    /\ reader' = [reader EXCEPT !.at = "brief", !.to = FirstOf(Primaries)]
    /\ UNCHANGED <<lanes, data, tcpFlows, sent, arrived, dropped, finished>>

\* No candidate had room: the primary of this moment, if there is one.
LastResort ==
    /\ reader.at = "tryUdp"
    /\ reader.tries = <<>>
    /\ IF Primaries = {}
       THEN reader' = Idle /\ dropped' = dropped \cup {reader.pkt}
       ELSE /\ reader' = [reader EXCEPT !.at = "brief", !.to = FirstOf(Primaries)]
            /\ UNCHANGED dropped
    /\ UNCHANGED <<lanes, data, tcpFlows, sent, arrived, finished>>

\* enqueueWithTimeout, 10 ms for UDP and 100 ms for ICMP: accepted, or dropped
\* when the time is over or the connection is closed.
Brief ==
    /\ reader.at = "brief"
    /\ reader' = Idle
    /\ \/ /\ HasRoom(reader.to)
          /\ queue' = Queued(reader.to, reader.pkt)
          /\ UNCHANGED dropped
       \/ /\ ~HasRoom(reader.to) \/ ~alive[reader.to]
          /\ dropped' = dropped \cup {reader.pkt}
          /\ UNCHANGED queue
    /\ UNCHANGED <<lanes, inflight, wire, tcpFlows, sent, arrived, finished>>

Reader ==
    \/ Route \/ TakePrimary \/ Burst \/ TryBurst \/ Check \/ Push \/ After
    \/ Snapshot \/ TryUdp \/ LastResort \/ Brief

-----------------------------------------------------------------------------
(* A connection: writer, drainer, and the server at the other end.         *)

\* writeConn receives from writeCh.
Take(c) ==
    /\ alive[c]
    /\ inflight[c] = NoPacket
    /\ queue[c] # <<>>
    /\ inflight' = [inflight EXCEPT ![c] = Head(queue[c])]
    /\ queue' = [queue EXCEPT ![c] = Tail(@)]
    /\ UNCHANGED <<lanes, wire, tcpFlows, reader, sent, arrived, dropped, finished>>

\* writeConn's write succeeds.
Write(c) ==
    /\ alive[c]
    /\ inflight[c] # NoPacket
    /\ wire' = [wire EXCEPT ![c] = Append(@, inflight[c])]
    /\ inflight' = [inflight EXCEPT ![c] = NoPacket]
    /\ UNCHANGED <<lanes, queue, tcpFlows, reader, sent, arrived, dropped, finished>>

\* A read, write or ping fails and the connection closes itself; what it had
\* accepted and not written is lost with it.
Die(c) ==
    /\ alive[c]
    /\ alive' = [alive EXCEPT ![c] = FALSE]
    /\ UNCHANGED <<role, data, tcpFlows, reader, sent, arrived, dropped, finished>>

\* closeAfterDrain: writeCh was found empty (what writeConn has in hand, or
\* the reader puts there meanwhile, is not looked at), or five seconds are over.
DrainClose(c) ==
    /\ alive[c]
    /\ role[c] = "draining"
    /\ alive' = [alive EXCEPT ![c] = FALSE]
    /\ UNCHANGED <<role, data, tcpFlows, reader, sent, arrived, dropped, finished>>

\* The server reads the next frame; on a closed connection what was already
\* written may still arrive, or not.
Deliver(c) ==
    /\ wire[c] # <<>>
    /\ wire' = [wire EXCEPT ![c] = Tail(@)]
    /\ LET pkt == Head(wire[c]) IN
       arrived' = [arrived EXCEPT ![pkt.flow] = Append(@, pkt.no)]
    /\ UNCHANGED <<lanes, queue, inflight, tcpFlows, reader, sent, dropped, finished>>

WireLost(c) ==
    /\ ~alive[c]
    /\ wire[c] # <<>>
    /\ wire' = [wire EXCEPT ![c] = <<>>]
    /\ UNCHANGED <<lanes, queue, inflight, tcpFlows, reader, sent, arrived, dropped, finished>>

-----------------------------------------------------------------------------
(* The rest of the pool, as far as roles and bindings go.                  *)

Join(c) ==
    /\ role[c] = "none"
    /\ \A d \in 1..(c - 1) : role[d] # "none"
    /\ role' = [role EXCEPT ![c] = "standby"]
    /\ alive' = [alive EXCEPT ![c] = TRUE]
    /\ UNCHANGED <<data, tcpFlows, reader, sent, arrived, dropped, finished>>

\* The monitor, or the reader in primaryOrWait, promotes the first standby.
Promote ==
    /\ Primaries = {}
    /\ Alive("standby") # {}
    /\ role' = [role EXCEPT ![FirstOf(Alive("standby"))] = "primary"]
    /\ UNCHANGED <<alive, data, tcpFlows, reader, sent, arrived, dropped, finished>>

\* rotatePrimaryLocked; it moves the role and none of the bindings.
Rotate ==
    /\ Primaries # {}
    /\ Alive("standby") # {}
    /\ role' = [role EXCEPT ![FirstOf(Primaries)] = "draining",
                            ![FirstOf(Alive("standby"))] = "primary"]
    /\ UNCHANGED <<alive, data, tcpFlows, reader, sent, arrived, dropped, finished>>

\* What a connection has accepted and not yet written has packets of the flow.
Holds(c, f) == inflight[c].flow = f \/ \E i \in DOMAIN queue[c] : queue[c][i].flow = f

Waiting(f) == \E c \in Conn : Holds(c, f)

\* expireTCPFlows, for one binding: its connection is closed or draining, or
\* the flow was idle for two minutes. Two minutes outlast every packet of the
\* flow that still waits on the client (time is not modelled).
Expire(f) ==
    /\ tcpFlows[f] # None
    /\ Bound(f) = None \/ (~Waiting(f) /\ reader.pkt.flow # f)
    /\ tcpFlows' = [tcpFlows EXCEPT ![f] = None]
    /\ UNCHANGED <<lanes, data, reader, sent, arrived, dropped, finished>>

-----------------------------------------------------------------------------
\* Connect has just returned: one primary, nothing sent.
Init ==
    /\ role = [c \in Conn |-> IF c = 1 THEN "primary" ELSE "none"]
    /\ alive = [c \in Conn |-> c = 1]
    /\ queue = [c \in Conn |-> <<>>]
    /\ inflight = [c \in Conn |-> NoPacket]
    /\ wire = [c \in Conn |-> <<>>]
    /\ tcpFlows = [f \in TcpFlow |-> None]
    /\ reader = Idle
    /\ sent = [f \in Flow |-> 0]
    /\ arrived = [f \in Flow |-> <<>>]
    /\ dropped = {}
    /\ finished = {}

Next ==
    \/ \E f \in Flow, kind \in TcpKind \cup Datagram : Read(f, kind)
    \/ Route \/ TakePrimary \/ Burst \/ TryBurst \/ Check \/ Push \/ After
    \/ Snapshot \/ TryUdp \/ LastResort \/ Brief
    \/ \E c \in Conn :
        \/ Take(c) \/ Write(c) \/ Die(c) \/ DrainClose(c)
        \/ Deliver(c) \/ WireLost(c) \/ Join(c)
    \/ Promote
    \/ Rotate
    \/ \E f \in TcpFlow : Expire(f)

Spec == Init /\ [][Next]_vars

\* The goroutines run; a connection whose write hangs fails after 30 s, so a
\* taken packet is written or its connection dies; the monitor promotes.
Fairness ==
    /\ WF_vars(Reader)
    /\ \A c \in Conn : WF_vars(Take(c)) /\ WF_vars(Write(c) \/ (inflight[c] # NoPacket /\ Die(c)))
    /\ WF_vars(Promote)
    /\ \A c \in Conn : WF_vars(Join(c))

FairSpec == Spec /\ Fairness

-----------------------------------------------------------------------------
TypeOK ==
    /\ role \in [Conn -> {"none", "standby", "primary", "draining"}]
    /\ alive \in [Conn -> BOOLEAN]
    /\ \A c \in Conn : /\ Range(queue[c]) \cup Range(wire[c]) \subseteq Packet
                       /\ Len(queue[c]) <= Cap
                       /\ inflight[c] \in Packet \cup {NoPacket}
    /\ tcpFlows \in [TcpFlow -> Conn \cup {None}]
    /\ reader.to \in Conn \cup {None}
    /\ sent \in [Flow -> 0..MaxPacket]
    /\ dropped \subseteq Packet
    /\ finished \subseteq TcpFlow

\* A flow leaves its connection for another only when that one has stopped
\* serving, whatever the reader saw before it was preempted.
FlowPinned ==
    [][\A f \in TcpFlow : tcpFlows[f] # None /\ tcpFlows'[f] \notin {None, tcpFlows[f]} =>
           ~alive[tcpFlows[f]] \/ role[tcpFlows[f]] = "draining"]_vars

Lanes(f) == {c \in Conn : alive[c] /\ role[c] # "draining" /\ Holds(c, f)}

\* The packets of an open TCP flow that wait on the client wait on a single
\* serving connection: bursts, promotions and rebinding never split it over
\* two lanes that both make progress.
OneServingLane == \A f \in TcpFlow \ finished : Cardinality(Lanes(f)) <= 1

\* The places of packet n of flow f among lists of packets, one of each
\* connection.
PlacesIn(lists, f, n) ==
    {p \in UNION {{c} \X DOMAIN lists[c] : c \in Conn} :
        lists[p[1]][p[2]].flow = f /\ lists[p[1]][p[2]].no = n}

Copies(f, n) ==
    Cardinality(PlacesIn(queue, f, n))
    + Cardinality({c \in Conn : inflight[c].flow = f /\ inflight[c].no = n})
    + Cardinality(PlacesIn(wire, f, n))
    + Cardinality({i \in DOMAIN arrived[f] : arrived[f][i] = n})
    + (IF reader.at # "after" /\ reader.pkt.flow = f /\ reader.pkt.no = n THEN 1 ELSE 0)

\* No packet is ever in two places: a retry after "closed" never follows an
\* acceptance, even when the connection closes during the select.
NeverTwice == \A f \in Flow : \A n \in 1..MaxPacket : Copies(f, n) <= 1

\* While no connection has closed, every TCP packet read from the TUN is
\* still somewhere on its way: a full queue blocks the reader, it never drops.
TcpNeverDropped ==
    (\A c \in Conn : role[c] # "none" => alive[c]) =>
        \A f \in TcpFlow : \A n \in 1..sent[f] : Copies(f, n) = 1

\* What Delivery sees of the client: a packet the reader has not yet put on a
\* queue is held, and a connection carries what is in its queue, in its
\* writer's hand and on its wire.
Of(pkt) == <<pkt.flow, pkt.no>>
Held    == IF reader.at \in {"idle", "after"} THEN {} ELSE {Of(reader.pkt)}
On(c)   == (Range(queue[c]) \cup {inflight[c]} \cup Range(wire[c])) \ {NoPacket}
Carried == UNION {{<<Of(pkt), c>> : pkt \in On(c)} : c \in Conn}
Broken  == {c \in Conn : role[c] # "none" /\ ~alive[c]}

D == INSTANCE Delivery WITH Sure <- TcpFlow, held <- Held, carried <- Carried,
                            broken <- Broken

\* The client is an at-most-once forwarder that drops no TCP packet itself: a
\* TCP packet stays with the reader until a connection accepts it, through
\* every retry, and is lost only with the connection that had accepted it.
ImplementsDelivery == D!Spec

\* All connections there can be have joined, and none of them serves any more.
Exhausted == \A c \in Conn : role[c] # "none" /\ (~alive[c] \/ role[c] = "draining")

\* The reader always gets rid of its packet: no order of deaths, rotations and
\* full queues leaves it waiting for ever, and after an outage of all
\* connections the next one that is built takes the packet. Only when the
\* bounded supply of connections is exhausted does it wait on, with a TCP or an
\* ICMP packet. For ICMP that is more than docs/HANDOFF.md:167 says, a short
\* wait: primaryOrWait has no limit.
ReaderProgress == reader.at # "idle" ~> reader.at = "idle" \/ Exhausted

\* A UDP packet never waits for a connection, even when none is left, so it
\* never holds up the packets behind it.
UdpNeverWaits == reader.pkt.flow = "udp" ~> reader.at = "idle"

\* docs/ARCHITECTURE.md:144: a TCP flow keeps its order on its way to the server,
\* at least as long as no connection is lost.
FlowInOrder ==
    (\A c \in Conn : role[c] # "none" => alive[c]) =>
    \A f \in TcpFlow : \A i, j \in DOMAIN arrived[f] : i < j => arrived[f][i] < arrived[f][j]
=============================================================================
