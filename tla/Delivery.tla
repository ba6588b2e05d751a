------------------------------ MODULE Delivery ------------------------------
(***************************************************************************)
(* What a forwarder of packets promises, with nothing of how: a packet is  *)
(* held by the forwarder until one connection accepts it, arrives at most  *)
(* once, and is lost only with the connection that had accepted it; of     *)
(* some flows the forwarder drops nothing itself.                          *)
(***************************************************************************)
EXTENDS Naturals, Sequences

CONSTANTS
    Flow,
    Sure, \* the flows of which no packet is dropped before it is accepted
    Conn

VARIABLES
    sent,    \* packets of each flow handed to the forwarder
    held,    \* packets <<flow, number>> no connection has accepted yet
    carried, \* pairs of a packet and the connection that has it
    arrived, \* per flow, the numbers that arrived, in order
    broken   \* connections that have ended

vars == <<sent, held, carried, arrived, broken>>

Init ==
    /\ sent = [f \in Flow |-> 0]
    /\ held = {}
    /\ carried = {}
    /\ arrived = [f \in Flow |-> <<>>]
    /\ broken = {}

Send(f) ==
    /\ sent' = [sent EXCEPT ![f] = @ + 1]
    /\ \/ held' = held \cup {<<f, sent[f] + 1>>}
       \/ f \notin Sure /\ UNCHANGED held
    /\ UNCHANGED <<carried, arrived, broken>>

Drop(p) ==
    /\ p \in held
    /\ p[1] \notin Sure
    /\ held' = held \ {p}
    /\ UNCHANGED <<sent, carried, arrived, broken>>

Accept(p, c) ==
    /\ p \in held
    /\ held' = held \ {p}
    /\ carried' = carried \cup {<<p, c>>}
    /\ UNCHANGED <<sent, arrived, broken>>

\* Also on a connection that has ended: what was written may still arrive.
Arrive(p, c) ==
    /\ <<p, c>> \in carried
    /\ carried' = carried \ {<<p, c>>}
    /\ arrived' = [arrived EXCEPT ![p[1]] = Append(@, p[2])]
    /\ UNCHANGED <<sent, held, broken>>

Break ==
    /\ broken \subseteq broken' /\ broken' \subseteq Conn
    /\ UNCHANGED <<sent, held, carried, arrived>>

Lose ==
    /\ carried' \subseteq carried
    /\ \A x \in carried \ carried' : x[2] \in broken
    /\ UNCHANGED <<sent, held, arrived, broken>>

Next ==
    \/ \E f \in Flow : Send(f)
    \/ \E p \in held : Drop(p) \/ \E c \in Conn : Accept(p, c)
    \/ \E x \in carried : Arrive(x[1], x[2])
    \/ Break
    \/ Lose

Spec == Init /\ [][Next]_vars
=============================================================================
