----------------------------- MODULE PoolRoles -----------------------------
(***************************************************************************)
(* What the pool promises its users, with nothing of how: each connection  *)
(* goes from absent to standby, from standby to primary, from primary to   *)
(* draining and out again; it can be lost at any point; there is at most   *)
(* one primary, and rotation never leaves a gap between two of them.       *)
(***************************************************************************)
CONSTANT Conn
VARIABLE stage \* what a user of the pool sees of each connection

Stage == {"none", "standby", "primary", "draining"}

Is(what) == {c \in Conn : stage[c] = what}

Init == stage = [c \in Conn |-> "none"]

\* The first connection of the pool.
Open(c) ==
    /\ Is("none") = Conn
    /\ stage' = [stage EXCEPT ![c] = "primary"]

Join(c) ==
    /\ stage[c] = "none"
    /\ stage' = [stage EXCEPT ![c] = "standby"]

\* Connections break or are closed.
Lose(S) == stage' = [c \in Conn |-> IF c \in S THEN "none" ELSE stage[c]]

\* One decision about roles: connections only move forward, and if there was
\* a primary there is one afterwards.
Reassign ==
    /\ stage' \in [Conn -> Stage]
    /\ \A c \in Conn :
        \/ stage'[c] = stage[c]
        \/ stage[c] = "standby" /\ stage'[c] \in {"primary", "draining"}
        \/ stage[c] = "primary" /\ stage'[c] = "draining"
    /\ \A c, d \in Conn : stage'[c] = "primary" /\ stage'[d] = "primary" => c = d
    /\ Is("primary") # {} => \E c \in Conn : stage'[c] = "primary"

Next ==
    \/ \E c \in Conn : Open(c) \/ Join(c)
    \/ \E S \in SUBSET Conn : Lose(S)
    \/ Reassign

Spec == Init /\ [][Next]_stage
=============================================================================
