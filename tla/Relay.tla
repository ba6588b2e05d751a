------------------------------- MODULE Relay -------------------------------
(***************************************************************************)
(* The relay server's forwarding core (internal/relay/server.go): the      *)
(* registry of client connections by virtual IP, and the TCP flow table    *)
(* that keeps a flow on one connection of its destination.                 *)
(*                                                                         *)
(* Every connection has a reader goroutine, which forwards what its client *)
(* sends, and a writer goroutine, which drains its WriteCh. Server.mu      *)
(* guards the registry and the flow table; `closed` is atomic and the      *)
(* queues are channels, so a reader works on a snapshot of the registry    *)
(* and on bindings that other readers, closes and unregistrations change   *)
(* under it.                                                               *)
(***************************************************************************)
EXTENDS Integers, Sequences, FiniteSets, SequencesExt

CONSTANTS
    Conn,      \* client connections
    Device,    \* devices, one virtual IP each
    DeviceOf,  \* the device of each connection
    TcpFlow,   \* TCP five-tuples
    Datagram,  \* pairs of hosts that exchange UDP, ICMP and other packets
    Target,    \* the destination device of each flow and pair
    Carries,   \* which flows and pairs arrive on each connection
    TcpKind,   \* which of "syn" (no ACK), "data", "fin" (FIN or RST) are sent
    Cap,       \* capacity of WriteCh
    MaxPacket, \* packets per flow (bound)
    None

ASSUME RelayAssumption ==
    /\ DeviceOf \in [Conn -> Device]
    /\ Target \in [TcpFlow \cup Datagram -> Device]
    /\ Carries \in [Conn -> SUBSET (TcpFlow \cup Datagram)]
    /\ \A c \in Conn : \A f \in Carries[c] : Target[f] # DeviceOf[c]
    /\ TcpKind \subseteq {"syn", "data", "fin"}
    /\ Cap \in Nat \ {0} /\ MaxPacket \in Nat
    /\ None \notin Conn

Flow == TcpFlow \cup Datagram

VARIABLES
    state,    \* "new", "registered", "gone": where handleConn is
    closed,   \* client.closed
    vipMap,   \* Server.vipMap (Server.clients always holds the same lists)
    queue,    \* client.WriteCh
    tcpFlows, \* Server.tcpFlows: the bound connection of a flow, or None
    reader,   \* each readLoop: where it is, its packet, snapshot and target
    sent,     \* packets of each flow read so far
    arrived,  \* per flow, the packet numbers written to the destination
    finished  \* history: the flows whose FIN or RST was enqueued

PlainKind == {"udp", "icmp"} \* "icmp" stands for every other class, too
registry == <<state, closed, vipMap>>
vars == <<registry, queue, tcpFlows, reader, sent, arrived, finished>>

Packet == [flow : Flow, no : 1..MaxPacket, kind : TcpKind \cup PlainKind]
Idle == [at |-> "idle", pkt |-> None, snap |-> <<>>, to |-> None, fallback |-> None,
         bound |-> FALSE]

HasRoomMutant(c) == Len(queue[c]) <= Cap \* one packet too many

HasRoom(c) == Len(queue[c]) < Cap
Enqueue(c, pkt) == queue' = [queue EXCEPT ![c] = Append(@, pkt)]
Pressured(c) == 10 * Len(queue[c]) >= 8 * Cap \* relayQueuePressure
FlowOf(r) == reader[r].pkt.flow
Goto(r, at) == reader' = [reader EXCEPT ![r].at = at]
Return(r)   == reader' = [reader EXCEPT ![r] = Idle]

\* selectPrimary: the first open connection of the snapshot, or None.
Primary(conns) ==
    LET open == {i \in DOMAIN conns : ~closed[conns[i]]}
    IN  IF open = {} THEN None ELSE conns[CHOOSE i \in open : \A j \in open : i <= j]

\* selectBestStandby: of the other open ones, the first with the most room.
BestStandby(conns, primary) ==
    LET open  == {i \in DOMAIN conns : ~closed[conns[i]] /\ conns[i] # primary}
        best  == {i \in open : \A j \in open : Len(queue[conns[i]]) <= Len(queue[conns[j]])}
    IN  IF open = {} THEN None ELSE conns[CHOOSE i \in best : \A j \in best : i <= j]

-----------------------------------------------------------------------------
(* A connection's life in handleConn.                                      *)

\* registerClient, after hello_ok.
Register(c) ==
    /\ state[c] = "new"
    /\ state' = [state EXCEPT ![c] = "registered"]
    /\ vipMap' = [vipMap EXCEPT ![DeviceOf[c]] = Append(@, c)]
    /\ UNCHANGED <<closed, queue, tcpFlows, reader, sent, arrived, finished>>

\* markClosed: a read or a write fails, or a ping is not answered. The
\* connection's context ends with it.
Close(c) ==
    /\ state[c] = "registered"
    /\ ~closed[c]
    /\ closed' = [closed EXCEPT ![c] = TRUE]
    /\ UNCHANGED <<state, vipMap, queue, tcpFlows, reader, sent, arrived, finished>>

UnregisterMutant(c) == \* removes the first connection of the VIP, not this one
    /\ state[c] = "registered"
    /\ closed[c]
    /\ reader[c].at = "idle"
    /\ state' = [state EXCEPT ![c] = "gone"]
    /\ vipMap' = [vipMap EXCEPT ![DeviceOf[c]] = Tail(@)]
    /\ tcpFlows' = [f \in TcpFlow |-> IF tcpFlows[f] = c THEN None ELSE tcpFlows[f]]
    /\ UNCHANGED <<closed, queue, reader, sent, arrived, finished>>

\* unregisterClient, once the read loop has returned: out of the registry,
\* and every flow bound to it is forgotten.
Unregister(c) ==
    /\ state[c] = "registered"
    /\ closed[c]
    /\ reader[c].at = "idle"
    /\ state' = [state EXCEPT ![c] = "gone"]
    /\ vipMap' = [vipMap EXCEPT ![DeviceOf[c]] = RemoveFirst(@, c)]
    /\ tcpFlows' = [f \in TcpFlow |-> IF tcpFlows[f] = c THEN None ELSE tcpFlows[f]]
    /\ UNCHANGED <<closed, queue, reader, sent, arrived, finished>>

\* writeLoop writes the next packet (what fails to be written is a Close).
Write(c) ==
    /\ state[c] = "registered"
    /\ ~closed[c]
    /\ queue[c] # <<>>
    /\ queue' = [queue EXCEPT ![c] = Tail(@)]
    /\ arrived' = [arrived EXCEPT ![Head(queue[c]).flow] = Append(@, Head(queue[c]).no)]
    /\ UNCHANGED <<registry, tcpFlows, reader, sent, finished>>

-----------------------------------------------------------------------------
(* readLoop and forwardPacket.                                             *)

\* A packet arrives and forwardPacket copies the destination's connections; a
\* destination without any loses it.
Read(r, f, kind) ==
    /\ state[r] = "registered"
    /\ ~closed[r]
    /\ reader[r].at = "idle"
    /\ f \in Carries[r]
    /\ kind \in IF f \in TcpFlow THEN TcpKind ELSE PlainKind
    /\ kind = "syn" => f \notin finished \* (bound) a five-tuple is not reused
    /\ sent[f] < MaxPacket
    /\ sent' = [sent EXCEPT ![f] = @ + 1]
    /\ reader' = IF vipMap[Target[f]] = <<>> THEN reader
                 ELSE [reader EXCEPT ![r] =
                         [Idle EXCEPT !.at = IF f \in TcpFlow THEN "route" ELSE kind,
                                      !.pkt = [flow |-> f, no |-> sent[f] + 1, kind |-> kind],
                                      !.snap = vipMap[Target[f]]]]
    /\ UNCHANGED <<registry, queue, tcpFlows, arrived, finished>>

BoundMutant(f) == None \* nobody looks at the bindings

\* boundTCPClient.
Bound(f) == IF tcpFlows[f] # None /\ ~closed[tcpFlows[f]] THEN tcpFlows[f] ELSE None

\* One turn of enqueueTCP's loop up to its blocking select: the bound
\* connection, else the primary; an initial SYN meeting a crowded primary
\* tries the best standby first.
Route(r) ==
    /\ reader[r].at = "route"
    /\ LET b == Bound(FlowOf(r))
           p == Primary(reader[r].snap)
           s == BestStandby(reader[r].snap, p)
           go(at, c, fallback, isBound) ==
               reader' = [reader EXCEPT ![r].at = at, ![r].to = c, ![r].fallback = fallback,
                                        ![r].bound = isBound]
       IN  IF b # None THEN go("push", b, None, TRUE)
           ELSE IF p = None THEN Return(r)
           ELSE IF reader[r].pkt.kind = "syn" /\ Pressured(p) /\ s # None
                THEN go("try", s, p, FALSE)
                ELSE go("push", p, None, FALSE)
    /\ UNCHANGED <<registry, queue, tcpFlows, sent, arrived, finished>>

\* tryEnqueueRelay on the standby; the primary that was chosen with it is next.
TryStandby(r) ==
    /\ reader[r].at = "try"
    /\ LET c == reader[r].to
       IN  IF ~closed[c] /\ HasRoom(c)
           THEN /\ Enqueue(c, reader[r].pkt)
                /\ reader' = [reader EXCEPT ![r].at = "after", ![r].fallback = None]
           ELSE /\ reader' = [reader EXCEPT ![r].at = "push", ![r].to = reader[r].fallback,
                                            ![r].fallback = None]
                /\ UNCHANGED queue
    /\ UNCHANGED <<registry, tcpFlows, sent, arrived, finished>>

\* The target is closed: removeTCPFlow if it came from the table, whatever
\* the table says by now, and another turn of the loop.
TargetClosed(r) ==
    /\ closed[reader[r].to]
    /\ Goto(r, "route")
    /\ tcpFlows' = IF reader[r].bound THEN [tcpFlows EXCEPT ![FlowOf(r)] = None]
                   ELSE tcpFlows

PushTwiceMutant(r) == \* an accepted packet is reported closed, and retried
    /\ reader[r].at = "push"
    /\ \/ /\ HasRoom(reader[r].to)
          /\ Enqueue(reader[r].to, reader[r].pkt)
          /\ IF closed[reader[r].to] THEN TargetClosed(r)
             ELSE Goto(r, "after") /\ UNCHANGED tcpFlows
       \/ TargetClosed(r) /\ UNCHANGED queue
    /\ UNCHANGED <<registry, sent, arrived, finished>>

PushForeverMutant(r) == \* the select has no case for the reader's own context
    /\ reader[r].at = "push"
    /\ \/ /\ HasRoom(reader[r].to)
          /\ Enqueue(reader[r].to, reader[r].pkt)
          /\ Goto(r, "after")
          /\ UNCHANGED tcpFlows
       \/ TargetClosed(r) /\ UNCHANGED queue
    /\ UNCHANGED <<registry, sent, arrived, finished>>

\* enqueueTCPToClient's select. With several cases ready Go picks any, so a
\* packet may enter the queue of a connection that is closed already.
Push(r) ==
    /\ reader[r].at = "push"
    /\ \/ /\ HasRoom(reader[r].to)
          /\ Enqueue(reader[r].to, reader[r].pkt)
          /\ Goto(r, "after")
          /\ UNCHANGED tcpFlows
       \/ TargetClosed(r) /\ UNCHANGED queue
       \/ /\ closed[r] \* the reader's own connection ended
          /\ Return(r)
          /\ UNCHANGED <<queue, tcpFlows>>
    /\ UNCHANGED <<registry, sent, arrived, finished>>

\* The select after 30 seconds of a full queue: the packet is dropped.
PushTimeout(r) ==
    /\ reader[r].at = "push"
    /\ ~HasRoom(reader[r].to)
    /\ Return(r)
    /\ UNCHANGED <<registry, queue, tcpFlows, sent, arrived, finished>>

\* afterTCPEnqueue.
After(r) ==
    /\ reader[r].at = "after"
    /\ tcpFlows' = [tcpFlows EXCEPT ![FlowOf(r)] =
                      IF reader[r].pkt.kind = "fin" THEN None ELSE reader[r].to]
    /\ finished' = IF reader[r].pkt.kind = "fin" THEN finished \cup {FlowOf(r)} ELSE finished
    /\ Return(r)
    /\ UNCHANGED <<registry, queue, sent, arrived>>

\* enqueueUDP's attempts without waiting: the primary, then the best standby;
\* with neither, the wait of UdpWait on the primary, if there is one.
Udp(r) ==
    /\ reader[r].at = "udp"
    /\ LET p == Primary(reader[r].snap)
           s == BestStandby(reader[r].snap, p)
       IN  IF p # None /\ HasRoom(p) THEN Enqueue(p, reader[r].pkt) /\ Return(r)
           ELSE IF s # None /\ HasRoom(s) THEN Enqueue(s, reader[r].pkt) /\ Return(r)
           ELSE /\ UNCHANGED queue
                /\ IF p = None THEN Return(r)
                   ELSE reader' = [reader EXCEPT ![r].at = "udpWait", ![r].to = p]
    /\ UNCHANGED <<registry, tcpFlows, sent, arrived, finished>>

\* The wait ends: accepted, or closed, cancelled or 10 milliseconds over.
UdpWait(r) ==
    /\ reader[r].at = "udpWait"
    /\ \/ HasRoom(reader[r].to) /\ Enqueue(reader[r].to, reader[r].pkt)
       \/ UNCHANGED queue
    /\ Return(r)
    /\ UNCHANGED <<registry, tcpFlows, sent, arrived, finished>>

\* enqueuePrimaryWithTimeout: a turn of its loop takes the primary, if any ...
Icmp(r) ==
    /\ reader[r].at = "icmp"
    /\ LET p == Primary(reader[r].snap)
       IN  IF p = None THEN Return(r)
           ELSE reader' = [reader EXCEPT ![r].at = "icmpWait", ![r].to = p]
    /\ UNCHANGED <<registry, queue, tcpFlows, sent, arrived, finished>>

IcmpWaitMutant(r) == \* an accepted packet is tried again on the next primary
    /\ reader[r].at = "icmpWait"
    /\ \/ /\ HasRoom(reader[r].to)
          /\ Enqueue(reader[r].to, reader[r].pkt)
          /\ IF closed[reader[r].to] THEN Goto(r, "icmp") ELSE Return(r)
       \/ closed[reader[r].to] /\ Goto(r, "icmp") /\ UNCHANGED queue
       \/ Return(r) /\ UNCHANGED queue
    /\ UNCHANGED <<registry, tcpFlows, sent, arrived, finished>>

\* ... and waits for it: accepted; closed, which is another turn; cancelled, or
\* the time of all turns is over.
IcmpWait(r) ==
    /\ reader[r].at = "icmpWait"
    /\ \/ /\ HasRoom(reader[r].to)
          /\ Enqueue(reader[r].to, reader[r].pkt)
          /\ Return(r)
       \/ closed[reader[r].to] /\ Goto(r, "icmp") /\ UNCHANGED queue
       \/ Return(r) /\ UNCHANGED queue
    /\ UNCHANGED <<registry, tcpFlows, sent, arrived, finished>>

Waiting(f) ==
    \/ \E c \in Conn : ~closed[c] /\ \E i \in DOMAIN queue[c] : queue[c][i].flow = f
    \/ \E r \in Conn : reader[r].at # "idle" /\ FlowOf(r) = f

\* expireTCPFlows, for one binding: its connection is closed, or the flow was
\* idle for longer than any of its packets waits (time is not modelled).
Expire(f) ==
    /\ tcpFlows[f] # None
    /\ closed[tcpFlows[f]] \/ ~Waiting(f)
    /\ tcpFlows' = [tcpFlows EXCEPT ![f] = None]
    /\ UNCHANGED <<registry, queue, reader, sent, arrived, finished>>

-----------------------------------------------------------------------------
Init ==
    /\ state = [c \in Conn |-> "new"]
    /\ closed = [c \in Conn |-> FALSE]
    /\ vipMap = [d \in Device |-> <<>>]
    /\ queue = [c \in Conn |-> <<>>]
    /\ tcpFlows = [f \in TcpFlow |-> None]
    /\ reader = [c \in Conn |-> Idle]
    /\ sent = [f \in Flow |-> 0]
    /\ arrived = [f \in Flow |-> <<>>]
    /\ finished = {}

Next ==
    \/ \E c \in Conn : Register(c) \/ Close(c) \/ Unregister(c) \/ Write(c)
    \/ \E r \in Conn, f \in Flow, kind \in TcpKind \cup PlainKind : Read(r, f, kind)
    \/ \E r \in Conn : \/ Route(r) \/ TryStandby(r) \/ Push(r) \/ PushTimeout(r)
                       \/ After(r) \/ Udp(r) \/ UdpWait(r) \/ Icmp(r) \/ IcmpWait(r)
    \/ \E f \in TcpFlow : Expire(f)

Spec == Init /\ [][Next]_vars

\* The goroutines of a connection run. Nothing obliges the writers to make
\* progress, nor the 30 second timer to be the case that is taken.
Fairness ==
    \A c \in Conn :
        /\ WF_vars(Route(c) \/ TryStandby(c) \/ Push(c) \/ After(c)
                    \/ Udp(c) \/ UdpWait(c) \/ Icmp(c) \/ IcmpWait(c))
        /\ WF_vars(Unregister(c))

FairSpec == Spec /\ Fairness

-----------------------------------------------------------------------------
TypeOK ==
    /\ state \in [Conn -> {"new", "registered", "gone"}]
    /\ closed \in [Conn -> BOOLEAN]
    /\ \A d \in Device : Range(vipMap[d]) \subseteq Conn
    /\ \A c \in Conn : Len(queue[c]) <= Cap /\ Range(queue[c]) \subseteq Packet
    /\ tcpFlows \in [TcpFlow -> Conn \cup {None}]
    /\ \A r \in Conn : /\ reader[r].pkt \in Packet \cup {None}
                       /\ {reader[r].to, reader[r].fallback} \subseteq Conn \cup {None}
    /\ sent \in [Flow -> 0..MaxPacket]
    /\ finished \subseteq TcpFlow

\* The registry lists a connection exactly once from registration to
\* unregistration and never afterwards, under the device it belongs to, so
\* a destination is reachable as long as one of its connections is.
RegistryExact ==
    \A c \in Conn, d \in Device :
        Cardinality({i \in DOMAIN vipMap[d] : vipMap[d][i] = c}) =
            IF state[c] = "registered" /\ DeviceOf[c] = d THEN 1 ELSE 0

\* A flow is moved to another connection only when the one it was bound to is
\* closed, whatever closes, unregistrations and other readers come between
\* the lookup and the binding.
FlowMovesFromClosed ==
    [][\A f \in TcpFlow : tcpFlows[f] # None /\ tcpFlows'[f] \notin {None, tcpFlows[f]} =>
           closed[tcpFlows[f]]]_vars

Lanes(f) == {c \in Conn : ~closed[c] /\ \E i \in DOMAIN queue[c] : queue[c][i].flow = f}

\* The packets of an open TCP flow wait in the queue of a single open
\* connection of the destination.
OneServingLane == \A f \in TcpFlow \ finished : Cardinality(Lanes(f)) <= 1

Copies(f, n) ==
    Cardinality({p \in Conn \X (1..Cap) :
                   /\ p[2] <= Len(queue[p[1]])
                   /\ queue[p[1]][p[2]].flow = f /\ queue[p[1]][p[2]].no = n})
    + Cardinality({i \in DOMAIN arrived[f] : arrived[f][i] = n})
    + Cardinality({r \in Conn : /\ reader[r].at \notin {"idle", "after"}
                                /\ FlowOf(r) = f /\ reader[r].pkt.no = n})

\* No packet is forwarded twice, retries on closed connections included.
NeverTwice == \A f \in Flow : \A n \in 1..MaxPacket : Copies(f, n) <= 1

\* What Delivery sees of the relay: a packet a reader is forwarding is held, and
\* a connection of the destination carries what is in its queue.
Of(pkt) == <<pkt.flow, pkt.no>>
Forwarding == {r \in Conn : reader[r].at \notin {"idle", "after"}}
Held    == {Of(reader[r].pkt) : r \in Forwarding}
Carried == UNION {{<<Of(pkt), c>> : pkt \in Range(queue[c])} : c \in Conn}
Broken  == {c \in Conn : closed[c]}

D == INSTANCE Delivery WITH Sure <- {}, held <- Held, carried <- Carried, broken <- Broken

\* The relay forwards at most once: what a reader has given to one connection
\* is tried on no other, through retries, standbys and time limits, and what
\* was given up does not come back.
ImplementsDelivery == D!Spec

\* A closed connection leaves the registry, even if its reader is held up by
\* a destination that takes nothing any more.
ClosedLeaves == \A c \in Conn : closed[c] ~> state[c] = "gone"
=============================================================================
