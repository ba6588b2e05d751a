--------------------------- MODULE PoolRefinement ---------------------------
(***************************************************************************)
(* What a step of the pool may do to roles, for every number of            *)
(* connections, and from it that the pool implements PoolRoles.            *)
(*                                                                         *)
(* The argument: promotion and rotation move each connection forward only, *)
(* and leave a live primary where there was one (NormalizedMoves,          *)
(* RotatedMoves); a monitor tick composes up to three of them on the list  *)
(* without its dead connections (TickMoves).                               *)
(***************************************************************************)
EXTENDS PoolProofs

\* The ways a role may move in one decision.
Forward(a, b) ==
    \/ b = a
    \/ a = "standby" /\ b \in {"primary", "draining"}
    \/ a = "primary" /\ b = "draining"

-----------------------------------------------------------------------------
\* The first member of S in the list exists if any member of S is in the list.
LEMMA FirstExists ==
    ASSUME NEW list \in Seq(Conn), NEW S, NEW c \in Range(list) \cap S
    PROVE  First(list, S) # {}
<1>. DEFINE I == {i \in 1..Len(list) : list[i] \in S}
<1>1. Len(list) \in Nat /\ DOMAIN list = 1..Len(list)
  OBVIOUS
<1>2. PICK i \in 1..Len(list) : c = list[i]
  BY <1>1 DEF Range
<1>3. i \in I /\ I \in SUBSET Nat
  BY <1>1, <1>2
<1>4. PICK m \in I : \A k \in I : m <= k
  <2>. DEFINE R == OpToRel(<, Nat)
  <2>1. PICK m \in I : \A k \in I : ~ (<<k, m>> \in R)
    <3>1. IsWellFoundedOn(R, Nat)
      BY NatLessThanWellFounded
    <3>. HIDE DEF R, I
    <3>. QED  BY <1>3, <3>1, WFMin
  <2>2. \A k \in I : ~ (k < m)
    BY <1>3, <2>1 DEF OpToRel
  <2>. QED  BY <1>3, <2>2
<1>5. \A k \in 1..(m - 1) : list[k] \notin S
  BY <1>1, <1>4
<1>6. list[m] \in First(list, S)
  BY <1>1, <1>4, <1>5 DEF First
<1>. QED  BY <1>6

\* normalizePrimaryLocked on a list with at most one live primary changes
\* nothing, or promotes one live standby when there is no primary.
LEMMA NormalizedMoves ==
    ASSUME NEW list \in Seq(Conn), NEW r \in [Conn -> Role],
           \A c, d \in AliveAs(list, r, "primary") : c = d
    PROVE  /\ \A c \in Conn : Forward(r[c], Normalized(list, r)[c])
           /\ AliveAs(list, r, "primary") # {} =>
                AliveAs(list, Normalized(list, r), "primary") # {}
<1>. DEFINE primaries == AliveAs(list, r, "primary")
            standbys  == AliveAs(list, r, "standby")
<1>1. \A c \in Conn : Normalized(list, r)[c] =
                        IF c \in Serving(list, r) THEN "primary"
                        ELSE IF c \in primaries THEN "standby" ELSE r[c]
  BY DEF Normalized
<1>2. primaries \subseteq Conn /\ primaries \subseteq Range(list)
  BY RangeOfList DEF AliveAs
<1>3. CASE primaries # {}
  <2>1. Serving(list, r) = First(list, primaries)
    BY <1>3 DEF Serving
  <2>2. PICK p \in primaries : TRUE
    BY <1>3
  <2>3. First(list, primaries) # {} /\ First(list, primaries) \subseteq primaries
    BY <1>2, <2>2, FirstExists, FirstIsUnique
  <2>4. Serving(list, r) = primaries
    BY <2>1, <2>3
  <2>5. \A c \in primaries : r[c] = "primary"
    BY DEF AliveAs
  <2>6. \A c \in Conn : Normalized(list, r)[c] = r[c]
    BY <1>1, <2>4, <2>5
  <2>7. p \in AliveAs(list, Normalized(list, r), "primary")
    BY <1>2, <2>2, <2>6 DEF AliveAs
  <2>. QED  BY <2>6, <2>7 DEF Forward
<1>4. CASE primaries = {}
  <2>1. Serving(list, r) = First(list, standbys)
    BY <1>4 DEF Serving
  <2>2. Serving(list, r) \subseteq standbys
    BY <2>1, FirstIsUnique
  <2>3. \A c \in Serving(list, r) : r[c] = "standby"
    BY <2>2 DEF AliveAs
  <2>. QED  BY <1>1, <1>4, <2>3 DEF Forward
<1>. QED  BY <1>3, <1>4

\* rotatePrimaryLocked retires the primary only together with the promotion of
\* a live standby.
LEMMA RotatedMoves ==
    ASSUME NEW list \in Seq(Conn), NEW r \in [Conn -> Role],
           \A c, d \in AliveAs(list, r, "primary") : c = d
    PROVE  /\ \A c \in Conn : Forward(r[c], Rotated(list, r)[c])
           /\ AliveAs(list, r, "primary") # {} =>
                AliveAs(list, Rotated(list, r), "primary") # {}
<1>. DEFINE primaries == AliveAs(list, r, "primary")
            standbys  == AliveAs(list, r, "standby")
            t         == Rotated(list, r)
<1>1. CASE primaries = {}
  BY <1>1, NormalizedMoves DEF Rotated
<1>2. CASE primaries # {} /\ Retiring(list, r) = {}
  BY <1>2 DEF Rotated, Forward
<1>3. CASE primaries # {} /\ Retiring(list, r) # {}
  <2>1. \A c \in Conn :
          t[c] = IF c \in Retiring(list, r) THEN "draining"
                 ELSE IF c \in First(list, standbys) THEN "primary" ELSE r[c]
    BY <1>3 DEF Rotated
  <2>2. standbys # {} /\ Retiring(list, r) = First(list, primaries)
    BY <1>3 DEF Retiring
  <2>3. PICK s \in standbys : TRUE
    BY <2>2
  <2>4. s \in Range(list) \cap standbys
    BY <2>3 DEF AliveAs
  <2>5. First(list, standbys) # {}
    BY <2>4, FirstExists
  <2>6. /\ \A c \in Retiring(list, r) : c \in Range(list) /\ r[c] = "primary"
        /\ \A c \in First(list, standbys) : c \in Range(list) /\ alive[c] /\ r[c] = "standby"
    <3>1. Retiring(list, r) \subseteq Range(list) \cap primaries
      BY <2>2, FirstIsUnique
    <3>2. First(list, standbys) \subseteq Range(list) \cap standbys
      BY FirstIsUnique
    <3>. QED  BY <3>1, <3>2 DEF AliveAs
  <2>7. \A c \in Conn : Forward(r[c], t[c])
    BY <2>1, <2>6 DEF Forward
  <2>8. PICK d \in First(list, standbys) : TRUE
    BY <2>5
  <2>9. d \in Conn /\ d \in Range(list) /\ alive[d] /\ t[d] = "primary"
    <3>1. d \in Conn /\ d \in Range(list) /\ alive[d] /\ r[d] = "standby"
      BY <2>6, <2>8, RangeOfList
    <3>2. d \notin Retiring(list, r)
      BY <2>6, <3>1
    <3>. QED  BY <2>1, <2>8, <3>1, <3>2
  <2>10. d \in AliveAs(list, t, "primary")
    BY <2>9 DEF AliveAs
  <2>. QED  BY <2>7, <2>10
<1>. QED  BY <1>1, <1>2, <1>3

\* A whole monitor tick: the live connections of the list move forward, the
\* dead ones lose their role, and where there was a live primary there is one.
LEMMA TickMoves ==
    ASSUME IInv, MonitorTick
    PROVE  /\ \A c \in Live : Forward(role[c], role'[c])
           /\ \A c \in Listed \ Live : role'[c] = "none"
           /\ AliveAs(conns, role, "primary") # {} =>
                AliveAs(conns', role', "primary") # {}
<1>. USE DEF IInv
<1>1. PICK list \in [1..Cardinality(Live) -> Live], aged, pressed, slow, critical \in BOOLEAN :
        /\ Pruned(list)
        /\ conns' = list
        /\ Tick(list, aged, pressed, slow, critical)
  BY DEF MonitorTick
<1>. DEFINE first == Normalized(list, Kept)
            turn  == IF aged THEN Rotated(list, first) ELSE first
            renew == critical /\ criticalLatencyTicks + 1 >= Samples
            last  == IF renew THEN Rotated(list, turn) ELSE turn
            some(r) == AliveAs(list, r, "primary") # {}
            one(r)  == r \in [Conn -> Role] /\ \A c, d \in AliveAs(list, r, "primary") : c = d
<1>2. Live \subseteq Conn /\ list \in Seq(Conn) /\ Range(list) = Live
  BY <1>1, LiveIsShorter DEF Pruned
<1>3. role' = last
  BY <1>1 DEF Tick
<1>4. Kept \in [Conn -> Role] /\ \A c \in Live : Kept[c] = role[c]
  BY <1>2 DEF Kept, TypeOK, Role
<1>5. AliveAs(list, Kept, "primary") = AliveAs(conns, role, "primary")
  BY <1>2, <1>4 DEF AliveAs, Live, Listed
<1>6. one(Kept)
  <2>1. \A c, d \in AliveAs(conns, role, "primary") : c = d
    BY DEF SinglePrimary, AliveAs, Listed
  <2>. QED  BY <1>4, <1>5, <2>1
<1>7. one(first) /\ (\A c \in Conn : Forward(Kept[c], first[c])) /\ (some(Kept) => some(first))
  BY <1>2, <1>6, NormalizedFacts, NormalizedMoves
<1>8. one(turn) /\ (\A c \in Conn : Forward(first[c], turn[c])) /\ (some(first) => some(turn))
  <2>. HIDE DEF first
  <2>1. CASE aged
    BY <1>2, <1>7, <2>1, RotatedFacts, RotatedMoves
  <2>2. CASE ~aged
    BY <1>7, <2>2 DEF Forward
  <2>. QED  BY <2>1, <2>2
<1>9. (\A c \in Conn : Forward(turn[c], last[c])) /\ (some(turn) => some(last))
  <2>. HIDE DEF turn, renew
  <2>1. CASE renew
    BY <1>2, <1>8, <2>1, RotatedMoves
  <2>2. CASE ~renew
    BY <1>8, <2>2 DEF Forward
  <2>. QED  BY <2>1, <2>2
<1>. HIDE DEF first, turn, renew, last
<1>10. \A c \in Live : Forward(role[c], last[c])
  BY <1>2, <1>4, <1>7, <1>8, <1>9 DEF Forward
<1>11. \A c \in Listed \ Live : role'[c] = "none"
  <2>1. Listed \subseteq Conn
    BY RangeOfList DEF Listed, TypeOK
  <2>2. Range(conns') = Live /\ \A c \in Conn \ Range(conns') : role'[c] = "none"
    BY TickRoles
  <2>. QED  BY <2>1, <2>2
<1>12. AliveAs(conns, role, "primary") # {} => AliveAs(conns', role', "primary") # {}
  BY <1>1, <1>3, <1>5, <1>7, <1>8, <1>9
<1>. QED  BY <1>3, <1>10, <1>11, <1>12

-----------------------------------------------------------------------------
(* The two actions that decide about roles, as one.                        *)

\* In the TUN reader's decision as in the monitor's, a live connection's role
\* only moves forward, and a live primary is never lost without another.
LEMMA DecisionMoves ==
    ASSUME IInv, PrimaryOrWait \/ MonitorTick
    PROVE  /\ alive' = alive
           /\ role' \in [Conn -> Role]
           /\ \A c \in Conn : alive[c] => Forward(role[c], role'[c])
           /\ AliveAs(conns, role, "primary") # {} =>
                AliveAs(conns', role', "primary") # {}
<1>. USE DEF IInv
<1>1. CASE PrimaryOrWait
  <2>1. /\ alive' = alive /\ role' = Normalized(conns, role)
        /\ AliveAs(conns, role, "primary") = {}
    BY <1>1 DEF PrimaryOrWait
  <2>2. conns \in Seq(Conn) /\ role \in [Conn -> Role]
    BY DEF TypeOK
  <2>. QED  BY <2>1, <2>2, NormalizedFacts, NormalizedMoves
<1>2. CASE MonitorTick
  <2>1. alive' = alive
    BY <1>2 DEF MonitorTick
  <2>2. /\ \A c \in Live : Forward(role[c], role'[c])
        /\ AliveAs(conns, role, "primary") # {} => AliveAs(conns', role', "primary") # {}
    BY <1>2, TickMoves
  <2>3. /\ role' \in [Conn -> Role]
        /\ \A c \in Conn \ Live : role'[c] = "none"
    BY <1>2, TickRoles
  <2>4. \A c \in Conn : alive[c] => Forward(role[c], role'[c])
    BY <2>2, <2>3 DEF Live, UnlistedIdle, Forward
  <2>. QED  BY <2>1, <2>2, <2>3, <2>4
<1>. QED  BY <1>1, <1>2

\* Before Connect nothing plays a role.
LEMMA NothingBefore ==
    ASSUME IInv, phase = "new"
    PROVE  Listed = {} /\ \A c \in Conn : role[c] = "none"
BY DEF IInv, NewIsEmpty, UnlistedIdle, Listed, Range

-----------------------------------------------------------------------------
(* The action properties of the pool.                                      *)

\* A connection rotated out never serves again, whoever decides about roles
\* afterwards and however often.
THEOREM RetiredForGood == Spec => RetiredStaysRetired
<1>. DEFINE Stays == \A c \in Conn : role[c] = "draining" =>
                       \/ role'[c] = "draining"
                       \/ role'[c] = "none" /\ (alive[c] => phase' = "closed")
<1>1. ASSUME IInv, Next
      PROVE  Stays
  <2>. USE <1>1 DEF IInv
  <2>1. CASE Connect
    BY <2>1, NothingBefore DEF Connect
  <2>2. CASE JoinStandby
    <3>1. PICK d \in Conn \ Listed : role' = [role EXCEPT ![d] = "standby"]
      BY <2>2 DEF JoinStandby
    <3>. QED  BY <3>1 DEF UnlistedIdle, TypeOK
  <2>3. CASE PrimaryOrWait
    <3>1. conns \in Seq(Conn) /\ role \in [Conn -> Role] /\ role' = Normalized(conns, role)
      BY <2>3 DEF PrimaryOrWait, TypeOK
    <3>2. Drains(role') = Drains(role)
      BY <3>1, NormalizedFacts
    <3>. QED  BY <3>2 DEF Drains
  <2>4. CASE MonitorTick
    <3>1. \A c \in Listed \ Live : role'[c] = "none" /\ ~alive[c]
      BY <2>4, TickMoves DEF Live
    <3>2. \A c \in Live : role[c] = "draining" => role'[c] = "draining"
      BY <2>4, TickMoves DEF Forward
    <3>. QED  BY <3>1, <3>2 DEF UnlistedIdle
  <2>5. CASE CloseAll
    BY <2>5 DEF CloseAll
  <2>6. CASE UNCHANGED role
    BY <2>6
  <2>. QED
    BY <2>1, <2>2, <2>3, <2>4, <2>5, <2>6
    DEF Next, ConnectFail, BuildFails, StartConn, FinishBuild, Die, DrainClose, Cancel, MonitorEnds
<1>2. IInv /\ [Next]_vars => [Stays]_vars
  BY <1>1
<1>. QED  BY <1>2, Inductive, PTL DEF Spec, RetiredStaysRetired

\* A connection of the list that the data path may use. A slot taken again is a
\* new connection, which joins from outside the list.
Serves(c) == c \in Listed /\ alive[c] /\ role[c] # "draining"

NeverServesAgain == [][\A c \in Listed : Serves(c)' => Serves(c)]_vars

\* No decision of the pool brings back a connection that broke, was closed or
\* was rotated out: all that the data path needs of the pool's policy (theorem
\* AnyPolicy of PoolFlowProofs).
THEOREM NoneServesAgain == Spec => NeverServesAgain
<1>. DEFINE Stays == \A c \in Listed : Serves(c)' => Serves(c)
<1>1. ASSUME IInv, Next
      PROVE  Stays
  <2>. USE <1>1 DEF IInv
  <2>1. CASE Connect
    BY <2>1, NothingBefore DEF Connect, NewIsEmpty, Listed, Range
  <2>2. CASE JoinStandby
    <3>1. PICK d \in Conn \ Listed : /\ role'  = [role EXCEPT ![d] = "standby"]
                                     /\ alive' = [alive EXCEPT ![d] = TRUE]
      BY <2>2 DEF JoinStandby
    <3>2. \A c \in Listed : c \in Conn /\ c # d
      BY <3>1 DEF Listed, Range, TypeOK
    <3>. QED  BY <3>1, <3>2 DEF Serves, TypeOK
  <2>3. CASE PrimaryOrWait
    <3>1. /\ conns \in Seq(Conn) /\ role \in [Conn -> Role] /\ role' = Normalized(conns, role)
          /\ UNCHANGED <<conns, alive>>
      BY <2>3 DEF PrimaryOrWait, TypeOK
    <3>2. Drains(role') = Drains(role)
      BY <3>1, NormalizedFacts
    <3>3. Listed \subseteq Conn
      BY <3>1 DEF Listed, Range
    <3>. QED  BY <3>1, <3>2, <3>3 DEF Drains, Serves
  <2>4. CASE MonitorTick
    <3>1. /\ \A c \in Listed \ Live : ~alive[c]
          /\ alive' = alive
      BY <2>4 DEF Live, MonitorTick
    <3>2. \A c \in Live : role[c] = "draining" => role'[c] = "draining"
      BY <2>4, TickMoves DEF Forward
    <3>. QED  BY <3>1, <3>2 DEF Serves
  <2>5. CASE CloseAll
    <3>1. Listed \subseteq Conn /\ \A c \in Conn : ~alive'[c]
      BY <2>5 DEF CloseAll, Listed, Range, TypeOK
    <3>. QED  BY <3>1 DEF Serves
  <2>6. ASSUME NEW d \in Conn, Die(d) \/ DrainClose(d)
        PROVE  Stays
    <3>1. alive' = [alive EXCEPT ![d] = FALSE] /\ UNCHANGED <<conns, role>>
      BY <2>6 DEF Die, DrainClose
    <3>2. \A c \in Conn : alive'[c] => alive[c]
      BY <3>1 DEF TypeOK
    <3>3. Listed \subseteq Conn
      BY DEF Listed, Range, TypeOK
    <3>. QED  BY <3>1, <3>2, <3>3 DEF Serves
  <2>7. CASE UNCHANGED <<conns, role, alive>>
    BY <2>7 DEF Serves, Listed
  <2>. QED
    BY <2>1, <2>2, <2>3, <2>4, <2>5, <2>6, <2>7
    DEF Next, ConnectFail, BuildFails, StartConn, FinishBuild, Cancel, MonitorEnds
<1>2. IInv /\ [Next]_vars => [Stays]_vars
  BY <1>1
<1>. QED  BY <1>2, Inductive, PTL DEF Spec, NeverServesAgain

\* Rotation of either kind, alone or both in one tick, never leaves the pool
\* without a live primary when it had one.
THEOREM NoGap == Spec => HandoverMakesBeforeBreaks
<1>. DEFINE Hands == \A c \in Listed : alive[c] /\ role[c] = "primary" =>
                       \/ role'[c] = "primary"
                       \/ phase' = "closed"
                       \/ \E d \in Range(conns') \ {c} : alive'[d] /\ role'[d] = "primary"
<1>1. ASSUME IInv, Next
      PROVE  Hands
  <2>. USE <1>1 DEF IInv
  <2>1. Listed \subseteq Conn
    BY RangeOfList DEF Listed, TypeOK
  <2>2. CASE Connect
    BY <2>2, NothingBefore DEF Connect
  <2>3. CASE JoinStandby
    <3>1. PICK d \in Conn \ Listed : role' = [role EXCEPT ![d] = "standby"]
      BY <2>3 DEF JoinStandby
    <3>. QED  BY <2>1, <3>1 DEF TypeOK
  <2>4. CASE PrimaryOrWait \/ MonitorTick
    <3>1. SUFFICES ASSUME NEW c \in Listed, alive[c], role[c] = "primary"
                   PROVE  \E d \in Range(conns') : alive'[d] /\ role'[d] = "primary"
      OBVIOUS
    <3>2. AliveAs(conns, role, "primary") # {}
      BY <3>1 DEF AliveAs, Listed
    <3>3. alive' = alive /\ AliveAs(conns', role', "primary") # {}
      BY <2>4, <3>2, DecisionMoves
    <3>. QED  BY <3>3 DEF AliveAs
  <2>5. CASE CloseAll
    BY <2>5 DEF CloseAll
  <2>6. CASE UNCHANGED role
    BY <2>6
  <2>. QED
    BY <2>2, <2>3, <2>4, <2>5, <2>6
    DEF Next, ConnectFail, BuildFails, StartConn, FinishBuild, Die, DrainClose, Cancel, MonitorEnds
<1>2. IInv /\ [Next]_vars => [Hands]_vars
  BY <1>1
<1>. QED  BY <1>2, Inductive, PTL DEF Spec, HandoverMakesBeforeBreaks

\* The timeout detector learns only from connections that died in service.
THEOREM OnlyDeathsTeach == Spec => PlannedClosesTeachNothing
<1>. DEFINE Learns == samples' > samples \/ detected' # detected =>
                        \E c \in Listed \ Range(conns') : ~alive[c] /\ role[c] # "draining"
<1>1. ASSUME IInv, Next
      PROVE  Learns
  <2>. USE <1>1 DEF IInv
  <2>1. CASE MonitorTick
    <3>. DEFINE unplanned == (Listed \ Live) \ plannedClose
    <3>1. CASE unplanned = {}
      <4>1. Cardinality(unplanned) = 0
        BY <3>1, FS_EmptySet
      <4>2. RecordDisconnects(unplanned)
        BY <2>1 DEF MonitorTick
      <4>3. samples' = samples /\ detected' = detected
        BY <3>1, <4>1, <4>2, PoolAssumption DEF RecordDisconnects, LesserOf, TypeOK
      <4>. QED  BY <4>3 DEF TypeOK
    <3>2. CASE unplanned # {}
      <4>1. PICK c \in Listed \ Live : c \notin plannedClose
        BY <3>2
      <4>2. c \in Conn /\ role[c] # "draining"
        BY <4>1, RangeOfList DEF Listed, TypeOK, PlannedIffDraining
      <4>3. Range(conns') = Live
        BY <2>1, TickRoles
      <4>. QED  BY <4>1, <4>2, <4>3 DEF Live
    <3>. QED  BY <3>1, <3>2
  <2>2. CASE UNCHANGED detector
    BY <2>2 DEF detector, TypeOK
  <2>. QED
    BY <2>1, <2>2
    DEF Next, Connect, ConnectFail, BuildFails, JoinStandby, StartConn, FinishBuild, Die,
        DrainClose, PrimaryOrWait, Cancel, CloseAll, MonitorEnds
<1>2. IInv /\ [Next]_vars => [Learns]_vars
  BY <1>1
<1>. QED  BY <1>2, Inductive, PTL DEF Spec, PlannedClosesTeachNothing

-----------------------------------------------------------------------------
(* The refinement.                                                         *)

\* The mapping of Roles: a dead connection is no connection.
Seen == [c \in Conn |-> IF alive[c] THEN role[c] ELSE "none"]

\* Whoever decides, the decision is one PoolRoles allows.
LEMMA DecisionRefines ==
    ASSUME IInv, IInv', PrimaryOrWait \/ MonitorTick
    PROVE  Roles!Reassign
<1>. USE DEF IInv
<1>1. /\ alive' = alive
      /\ role' \in [Conn -> Role]
      /\ \A c \in Conn : alive[c] => Forward(role[c], role'[c])
      /\ AliveAs(conns, role, "primary") # {} => AliveAs(conns', role', "primary") # {}
  BY DecisionMoves
<1>2. Seen' \in [Conn -> Roles!Stage]
  BY <1>1 DEF Seen, Role, Roles!Stage
<1>3. \A c \in Conn :
        \/ Seen'[c] = Seen[c]
        \/ Seen[c] = "standby" /\ Seen'[c] \in {"primary", "draining"}
        \/ Seen[c] = "primary" /\ Seen'[c] = "draining"
  BY <1>1 DEF Seen, Forward
<1>4. \A c, d \in Conn : Seen'[c] = "primary" /\ Seen'[d] = "primary" => c = d
  BY DEF Seen, UnlistedIdle, SinglePrimary
<1>5. (\E c \in Conn : Seen[c] = "primary") => \E c \in Conn : Seen'[c] = "primary"
  <2>1. SUFFICES ASSUME NEW c \in Conn, Seen[c] = "primary"
                 PROVE  \E d \in Conn : Seen'[d] = "primary"
    OBVIOUS
  <2>2. c \in AliveAs(conns, role, "primary")
    BY <2>1 DEF Seen, UnlistedIdle, AliveAs, Listed
  <2>3. PICK d \in AliveAs(conns', role', "primary") : TRUE
    BY <1>1, <2>2
  <2>4. d \in Range(conns') /\ alive'[d] /\ role'[d] = "primary"
    BY <1>1, <2>3 DEF AliveAs
  <2>5. d \in Conn
    BY <2>4, RangeOfList DEF TypeOK
  <2>. QED  BY <2>4, <2>5 DEF Seen
<1>. QED  BY <1>2, <1>3, <1>4, <1>5 DEF Seen, Roles!Reassign, Roles!Is

\* Every step of the pool is a step of PoolRoles or changes nothing it shows.
LEMMA StepRefines ==
    ASSUME IInv, IInv', [Next]_vars
    PROVE  [Roles!Next]_Seen
<1>. USE DEF IInv
<1>1. CASE Connect
  <2>1. PICK c \in Conn : /\ role'  = [role EXCEPT ![c] = "primary"]
                          /\ alive' = [alive EXCEPT ![c] = TRUE]
    BY <1>1 DEF Connect
  <2>2. \A d \in Conn : role[d] = "none"
    BY <1>1, NothingBefore DEF Connect
  <2>3. Roles!Open(c)
    BY <2>1, <2>2 DEF Roles!Open, Roles!Is, TypeOK
  <2>. QED  BY <2>3 DEF Roles!Next
<1>2. CASE JoinStandby
  <2>1. PICK c \in Conn \ Listed : /\ role'  = [role EXCEPT ![c] = "standby"]
                                   /\ alive' = [alive EXCEPT ![c] = TRUE]
    BY <1>2 DEF JoinStandby
  <2>2. Roles!Join(c)
    BY <2>1 DEF Roles!Join, TypeOK, UnlistedIdle
  <2>. QED  BY <2>1, <2>2 DEF Roles!Next
<1>3. ASSUME NEW c \in Conn, Die(c) \/ DrainClose(c)
      PROVE  [Roles!Next]_Seen
  <2>1. role' = role /\ alive' = [alive EXCEPT ![c] = FALSE]
    BY <1>3 DEF Die, DrainClose
  <2>2. Roles!Lose({c})
    BY <2>1 DEF Roles!Lose, TypeOK
  <2>. QED  BY <2>2 DEF Roles!Next
<1>4. CASE CloseAll
  <2>1. Roles!Lose(Conn)
    BY <1>4 DEF CloseAll, Roles!Lose
  <2>. QED  BY <2>1 DEF Roles!Next
<1>5. CASE PrimaryOrWait \/ MonitorTick
  BY <1>5, DecisionRefines DEF Roles!Next
<1>6. CASE UNCHANGED <<role, alive>>
  BY <1>6 DEF Seen
<1>. QED
  BY <1>1, <1>2, <1>3, <1>4, <1>5, <1>6
  DEF Next, ConnectFail, BuildFails, StartConn, FinishBuild, Cancel, MonitorEnds, vars

\* The pool implements PoolRoles.
THEOREM PoolImplementsRoles == Spec => ImplementsRoles
<1>1. Init => Roles!Init
  BY DEF Init, Roles!Init
<1>2. IInv /\ IInv' /\ [Next]_vars => [Roles!Next]_Seen
  BY StepRefines
<1>. QED  BY <1>1, <1>2, Inductive, PTL DEF Spec, ImplementsRoles, Roles!Spec, Seen
=============================================================================
