----------------------------- MODULE PoolProofs -----------------------------
(***************************************************************************)
(* The safety of the connection pool for every number of connections,      *)
(* every capacity and every threshold.                                     *)
(*                                                                         *)
(* No invariant of Pool is inductive alone: capacity needs the count of    *)
(* builders, the count needs the types, a join needs to know that a slot   *)
(* outside the list plays no role. IInv is their conjunction with the two  *)
(* facts that are missing, and each of its parts is kept by a lemma.       *)
(***************************************************************************)
EXTENDS Pool, FiniteSetTheorems, TLAPS

\* A connection outside the list plays no role.
UnlistedIdle == \A c \in Conn : c \notin Listed => role[c] = "none"

\* Before Connect there is nothing, and no builder either.
NewIsEmpty ==
    phase \in {"new", "failed"} =>
        /\ ~monitoring
        /\ conns = <<>>
        /\ dialing = 0 /\ joining = {} /\ finishing = 0 /\ pendingBuilds = 0

IInv ==
    /\ TypeOK
    /\ UnlistedIdle
    /\ NewIsEmpty
    /\ PendingAccounting
    /\ CapacityRespected
    /\ SinglePrimary
    /\ PlannedIffDraining

-----------------------------------------------------------------------------
(* The operators Pool is built from.                                       *)

\* First picks members of the list that are in S, and no two of them.
LEMMA FirstIsUnique ==
    ASSUME NEW list \in Seq(Conn), NEW S
    PROVE  /\ First(list, S) \subseteq Range(list) \cap S
           /\ \A c, d \in First(list, S) : c = d
<1>1. First(list, S) \subseteq Range(list) \cap S
  BY DEF First, Range
<1>2. ASSUME NEW c \in First(list, S), NEW d \in First(list, S)
      PROVE  c = d
  <2>1. PICK i \in DOMAIN list : /\ c = list[i] /\ list[i] \in S
                                 /\ \A k \in 1..(i - 1) : list[k] \notin S
    BY DEF First
  <2>2. PICK j \in DOMAIN list : /\ d = list[j] /\ list[j] \in S
                                 /\ \A k \in 1..(j - 1) : list[k] \notin S
    BY DEF First
  <2>3. DOMAIN list = 1..Len(list) /\ Len(list) \in Nat
    OBVIOUS
  <2>4. ~(i < j) /\ ~(j < i)
    BY <2>1, <2>2, <2>3
  <2>. QED  BY <2>1, <2>2, <2>3, <2>4
<1>. QED  BY <1>1, <1>2

\* The members of a list are connections.
LEMMA RangeOfList ==
    ASSUME NEW list \in Seq(Conn)
    PROVE  Range(list) \subseteq Conn
BY DEF Range

\* Removing connections from the list does not make it longer.
LEMMA LiveIsShorter ==
    ASSUME TypeOK
    PROVE  /\ Live \subseteq Conn
           /\ IsFiniteSet(Live)
           /\ Cardinality(Live) \in Nat
           /\ Cardinality(Live) <= Len(conns)
<1>1. conns \in Seq(Conn) /\ Len(conns) \in Nat /\ DOMAIN conns = 1..Len(conns)
  BY DEF TypeOK
<1>2. conns \in Surjection(1..Len(conns), Listed)
  BY <1>1 DEF Surjection, Listed, Range
<1>3. IsFiniteSet(1..Len(conns)) /\ Cardinality(1..Len(conns)) = Len(conns)
  BY <1>1, FS_Interval
<1>4. IsFiniteSet(Listed) /\ Cardinality(Listed) <= Len(conns)
  BY <1>2, <1>3, FS_Surjection
<1>5. Live \subseteq Listed
  BY DEF Live
<1>6. IsFiniteSet(Live) /\ Cardinality(Live) <= Cardinality(Listed)
  BY <1>4, <1>5, FS_Subset
<1>7. Cardinality(Live) \in Nat /\ Cardinality(Listed) \in Nat
  BY <1>4, <1>6, FS_CardinalityType
<1>. QED  BY <1>1, <1>4, <1>5, <1>6, <1>7, RangeOfList DEF Listed

Drains(r) == {c \in Conn : r[c] = "draining"}

\* normalizePrimaryLocked leaves at most one live primary whatever it found,
\* retires nobody and gives no role to a connection outside the list.
LEMMA NormalizedFacts ==
    ASSUME NEW list \in Seq(Conn), NEW r \in [Conn -> Role]
    PROVE  /\ Normalized(list, r) \in [Conn -> Role]
           /\ \A c, d \in AliveAs(list, Normalized(list, r), "primary") : c = d
           /\ Drains(Normalized(list, r)) = Drains(r)
           /\ \A c \in Conn \ Range(list) : Normalized(list, r)[c] = r[c]
<1>. DEFINE n == Normalized(list, r)
            primaries == AliveAs(list, r, "primary")
            standbys  == AliveAs(list, r, "standby")
<1>1. \A c \in Serving(list, r) : /\ c \in Range(list) /\ alive[c]
                                  /\ r[c] \in {"primary", "standby"}
  <2>1. Serving(list, r) \subseteq Range(list) \cap (primaries \cup standbys)
    BY FirstIsUnique DEF Serving
  <2>. QED  BY <2>1 DEF AliveAs
<1>2. \A c, d \in Serving(list, r) : c = d
  BY FirstIsUnique DEF Serving
<1>3. \A c \in Conn : n[c] = IF c \in Serving(list, r) THEN "primary"
                             ELSE IF c \in primaries THEN "standby" ELSE r[c]
  BY DEF Normalized
<1>4. n \in [Conn -> Role]
  BY DEF Normalized, Role
<1>5. \A c \in AliveAs(list, n, "primary") : c \in Serving(list, r)
  BY <1>3, RangeOfList DEF AliveAs
<1>6. \A c \in Conn : n[c] = "draining" <=> r[c] = "draining"
  BY <1>1, <1>3 DEF AliveAs
<1>7. \A c \in Conn \ Range(list) : n[c] = r[c]
  BY <1>1, <1>3 DEF AliveAs
<1>. QED  BY <1>2, <1>4, <1>5, <1>6, <1>7 DEF Drains

\* rotatePrimaryLocked keeps at most one live primary, retires exactly
\* Retiring and gives no role to a connection outside the list.
LEMMA RotatedFacts ==
    ASSUME NEW list \in Seq(Conn), NEW r \in [Conn -> Role],
           \A c, d \in AliveAs(list, r, "primary") : c = d
    PROVE  /\ Rotated(list, r) \in [Conn -> Role]
           /\ \A c, d \in AliveAs(list, Rotated(list, r), "primary") : c = d
           /\ Drains(Rotated(list, r)) = Drains(r) \cup Retiring(list, r)
           /\ \A c \in Conn \ Range(list) : Rotated(list, r)[c] = r[c]
<1>. DEFINE t == Rotated(list, r)
            primaries == AliveAs(list, r, "primary")
            standbys  == AliveAs(list, r, "standby")
<1>1. CASE primaries = {}
  <2>1. t = Normalized(list, r)
    BY <1>1 DEF Rotated
  <2>2. Retiring(list, r) = {}
    BY <1>1, FirstIsUnique DEF Retiring
  <2>. QED  BY <2>1, <2>2, NormalizedFacts
<1>2. CASE primaries # {} /\ Retiring(list, r) = {}
  BY <1>2 DEF Rotated
<1>3. CASE primaries # {} /\ Retiring(list, r) # {}
  <2>1. \A c \in Conn :
          t[c] = IF c \in Retiring(list, r) THEN "draining"
                 ELSE IF c \in First(list, standbys) THEN "primary" ELSE r[c]
    BY <1>3 DEF Rotated
  <2>2. Retiring(list, r) = First(list, primaries)
    BY <1>3 DEF Retiring
  <2>3. /\ Retiring(list, r) \subseteq Range(list) \cap primaries
        /\ First(list, standbys) \subseteq Range(list) \cap standbys
        /\ \A c, d \in First(list, standbys) : c = d
    BY <2>2, FirstIsUnique
  <2>4. \A c \in primaries : c \in Retiring(list, r)
    BY <1>3, <2>3
  <2>5. t \in [Conn -> Role]
    BY <1>3 DEF Rotated, Role
  <2>6. \A c \in AliveAs(list, t, "primary") : c \in First(list, standbys)
    BY <2>1, <2>4, RangeOfList DEF AliveAs
  <2>7. \A c \in Conn : t[c] = "draining" <=> r[c] = "draining" \/ c \in Retiring(list, r)
    BY <2>1, <2>3 DEF AliveAs
  <2>8. Retiring(list, r) \subseteq Conn
    BY <2>3, RangeOfList
  <2>9. \A c \in Conn \ Range(list) : t[c] = r[c]
    BY <2>1, <2>3
  <2>. QED  BY <2>3, <2>5, <2>6, <2>7, <2>8, <2>9 DEF Drains
<1>. QED  BY <1>1, <1>2, <1>3

\* scheduleBuildLocked keeps the count of builders, and starts none beyond
\* the room the list and the pending builds leave.
LEMMA ScheduleFacts ==
    ASSUME NEW list, Len(list) \in Nat, NEW calls \in Nat,
           dialing \in Nat, pendingBuilds \in Nat, ScheduleBuilds(list, calls)
    PROVE  /\ dialing' \in Nat /\ pendingBuilds' \in Nat
           /\ pendingBuilds' - pendingBuilds = dialing' - dialing
           /\ dialing <= pendingBuilds /\ Len(list) + dialing <= MaxTotal
                => Len(list) + dialing' <= MaxTotal
BY PoolAssumption DEF ScheduleBuilds, LesserOf

\* The builders that are counted include those that dial.
LEMMA DialingIsCounted ==
    ASSUME TypeOK, PendingAccounting
    PROVE  /\ IsFiniteSet(joining) /\ Cardinality(joining) \in Nat
           /\ dialing <= pendingBuilds
<1>1. IsFiniteSet(joining)
  BY PoolAssumption, FS_Subset DEF TypeOK
<1>2. Cardinality(joining) \in Nat
  BY <1>1, FS_CardinalityType
<1>. QED  BY <1>1, <1>2 DEF TypeOK, PendingAccounting

-----------------------------------------------------------------------------
(* monitorTick, the one action that prunes, promotes, rotates twice and     *)
(* builds in a single step.                                                 *)

\* Roles and lists after a tick.
LEMMA TickRoles ==
    ASSUME IInv, MonitorTick
    PROVE  /\ conns' \in Seq(Conn)
           /\ Len(conns') \in Nat /\ Len(conns') <= Len(conns)
           /\ Range(conns') = Live
           /\ role' \in [Conn -> Role]
           /\ \A c, d \in AliveAs(conns', role', "primary") : c = d
           /\ plannedClose' = Drains(role')
           /\ \A c \in Conn \ Range(conns') : role'[c] = "none"
<1>. USE DEF IInv
<1>1. PICK list \in [1..Cardinality(Live) -> Live], aged, pressed, slow, critical \in BOOLEAN :
        /\ Pruned(list)
        /\ conns' = list
        /\ Tick(list, aged, pressed, slow, critical)
  BY DEF MonitorTick
<1>. DEFINE kept  == Kept
            first == Normalized(list, kept)
            turn  == IF aged THEN Rotated(list, first) ELSE first
            renew == critical /\ criticalLatencyTicks + 1 >= Samples
            last  == IF renew THEN Rotated(list, turn) ELSE turn
<1>2. /\ Live \subseteq Conn /\ Cardinality(Live) \in Nat
      /\ Cardinality(Live) <= Len(conns)
  BY LiveIsShorter
<1>3. list \in Seq(Conn) /\ Len(list) = Cardinality(Live)
  BY <1>2
<1>4. Range(list) = Live
  BY <1>1 DEF Pruned
<1>5. /\ kept \in [Conn -> Role]
      /\ Drains(kept) = plannedClose \ (Listed \ Live)
      /\ \A c \in Conn \ Range(list) : kept[c] = "none"
  <2>1. kept \in [Conn -> Role]
    BY DEF TypeOK, Role, Kept
  <2>2. \A c \in Conn : kept[c] = "draining" <=> role[c] = "draining" /\ c \notin Listed \ Live
    BY DEF Kept
  <2>3. Drains(kept) = plannedClose \ (Listed \ Live)
    BY <2>2 DEF PlannedIffDraining, Drains
  <2>4. \A c \in Conn \ Range(list) : kept[c] = "none"
    BY <1>4 DEF UnlistedIdle, Kept
  <2>. QED  BY <2>1, <2>3, <2>4
<1>6. /\ first \in [Conn -> Role]
      /\ \A c, d \in AliveAs(list, first, "primary") : c = d
      /\ Drains(first) = Drains(kept)
      /\ \A c \in Conn \ Range(list) : first[c] = "none"
  BY <1>3, <1>5, NormalizedFacts
<1>7. /\ turn \in [Conn -> Role]
      /\ \A c, d \in AliveAs(list, turn, "primary") : c = d
      /\ Drains(turn) = Drains(first) \cup (IF aged THEN Retiring(list, first) ELSE {})
      /\ \A c \in Conn \ Range(list) : turn[c] = "none"
  <2>. HIDE DEF first
  <2>. QED  BY <1>3, <1>6, RotatedFacts
<1>8. /\ last \in [Conn -> Role]
      /\ \A c, d \in AliveAs(list, last, "primary") : c = d
      /\ Drains(last) = Drains(turn) \cup (IF renew THEN Retiring(list, turn) ELSE {})
      /\ \A c \in Conn \ Range(list) : last[c] = "none"
  <2>. HIDE DEF turn, renew
  <2>. QED  BY <1>3, <1>7, RotatedFacts
<1>9. plannedClose' = (plannedClose \ (Listed \ Live))
                         \cup (IF aged THEN Retiring(list, first) ELSE {})
                         \cup (IF renew THEN Retiring(list, turn) ELSE {})
  BY <1>1 DEF Marked, Tick
<1>10. conns' = list /\ role' = last
  BY <1>1 DEF Tick
<1>11. plannedClose' = Drains(role')
  <2>. HIDE DEF kept, first, turn, renew, last
  <2>. QED  BY <1>5, <1>6, <1>7, <1>8, <1>9, <1>10
<1>. HIDE DEF kept, first, turn, renew, last
<1>. QED  BY <1>2, <1>3, <1>4, <1>8, <1>10, <1>11

\* Builders after a tick.
LEMMA TickBuilders ==
    ASSUME IInv, MonitorTick
    PROVE  /\ dialing' \in Nat /\ pendingBuilds' \in Nat
           /\ pendingBuilds' - pendingBuilds = dialing' - dialing
           /\ Len(conns') + dialing' <= MaxTotal
<1>. USE DEF IInv
<1>1. PICK calls \in Nat : ScheduleBuilds(conns', calls)
  <2>1. PICK list \in [1..Cardinality(Live) -> Live], aged, pressed, slow, critical \in BOOLEAN :
          /\ conns' = list
          /\ Tick(list, aged, pressed, slow, critical)
    BY DEF MonitorTick
  <2>. DEFINE renew == critical /\ criticalLatencyTicks + 1 >= Samples
              tests == {k \in {"aged", "pressed", "slow", "renew"} :
                          \/ k = "aged"    /\ aged
                          \/ k = "pressed" /\ pressed /\ pressureTicks + 1 >= Samples
                          \/ k = "slow"    /\ slow /\ latencyTicks + 1 >= Samples
                          \/ k = "renew"   /\ renew}
  <2>2. IsFiniteSet({"aged", "pressed", "slow", "renew"})
    <3>1. IsFiniteSet({} \cup {"aged"})
      BY FS_EmptySet, FS_AddElement
    <3>2. IsFiniteSet(({} \cup {"aged"}) \cup {"pressed"})
      BY <3>1, FS_AddElement
    <3>3. IsFiniteSet((({} \cup {"aged"}) \cup {"pressed"}) \cup {"slow"})
      BY <3>2, FS_AddElement
    <3>4. IsFiniteSet(((({} \cup {"aged"}) \cup {"pressed"}) \cup {"slow"}) \cup {"renew"})
      BY <3>3, FS_AddElement
    <3>5. ((({} \cup {"aged"}) \cup {"pressed"}) \cup {"slow"}) \cup {"renew"}
            = {"aged", "pressed", "slow", "renew"}
      OBVIOUS
    <3>. QED  BY <3>4, <3>5
  <2>3. IsFiniteSet(tests)
    <3>1. tests \subseteq {"aged", "pressed", "slow", "renew"}
      OBVIOUS
    <3>. QED  BY <2>2, <3>1, FS_Subset
  <2>4. Cardinality(tests) \in Nat
    BY <2>3, FS_CardinalityType
  <2>5. ScheduleBuilds(conns', IF phase = "up" THEN MaxTotal ELSE Cardinality(tests))
    BY <2>1 DEF Tick, Replacements
  <2>. QED  BY <2>4, <2>5, PoolAssumption
<1>2. Len(conns') \in Nat /\ Len(conns') <= Len(conns)
  BY TickRoles
<1>3. dialing \in Nat /\ pendingBuilds \in Nat /\ Len(conns) \in Nat
  BY DEF TypeOK
<1>4. dialing <= pendingBuilds
  BY DialingIsCounted
<1>5. Len(conns) + dialing <= MaxTotal
  BY DEF CapacityRespected
<1>6. Len(conns') + dialing <= MaxTotal
  BY <1>2, <1>3, <1>5, PoolAssumption
<1>. QED  BY <1>1, <1>2, <1>3, <1>4, <1>6, ScheduleFacts

\* Counters and the timeout detector after a tick.
LEMMA TickCounters ==
    ASSUME IInv, MonitorTick
    PROVE  /\ pressureTicks' \in 0..Samples
           /\ latencyTicks' \in 0..Samples
           /\ criticalLatencyTicks' \in 0..Samples
           /\ samples' \in 0..MinSample
           /\ detected' \in BOOLEAN
<1>. USE DEF IInv
<1>1. PICK list \in [1..Cardinality(Live) -> Live], aged, pressed, slow, critical \in BOOLEAN :
        Tick(list, aged, pressed, slow, critical)
  BY DEF MonitorTick
<1>2. RecordDisconnects((Listed \ Live) \ plannedClose)
  BY DEF MonitorTick
<1>3. \A n \in 0..Samples, holds \in BOOLEAN : Counted(n, holds) \in 0..Samples
  BY PoolAssumption DEF Counted, LesserOf
<1>4. /\ pressureTicks' \in 0..Samples
      /\ latencyTicks' \in 0..Samples
      /\ criticalLatencyTicks' \in 0..Samples
  <2>1. /\ pressureTicks' = Counted(pressureTicks, pressed)
        /\ latencyTicks' = Counted(latencyTicks, slow)
        /\ criticalLatencyTicks' = Counted(criticalLatencyTicks, critical)
    BY <1>1 DEF Tick
  <2>. QED  BY <1>3, <2>1 DEF TypeOK
<1>5. Cardinality((Listed \ Live) \ plannedClose) \in Nat
  <2>1. (Listed \ Live) \ plannedClose \subseteq Conn
    BY RangeOfList DEF Listed, TypeOK
  <2>. QED  BY <2>1, PoolAssumption, FS_Subset, FS_CardinalityType
<1>6. samples' \in 0..MinSample
  BY <1>2, <1>5, PoolAssumption DEF RecordDisconnects, LesserOf, TypeOK
<1>7. detected' \in BOOLEAN
  BY <1>2 DEF RecordDisconnects, TypeOK
<1>. QED  BY <1>4, <1>6, <1>7

-----------------------------------------------------------------------------
(* The invariant holds at first and every action keeps it.                 *)

LEMMA InitInv ==
    ASSUME Init
    PROVE  IInv
<1>. USE DEF Init
<1>1. Listed = {}
  BY DEF Listed, Range
<1>2. TypeOK
  <2>1. conns \in Seq(Conn)
    OBVIOUS
  <2>2. role \in [Conn -> Role] /\ alive \in [Conn -> BOOLEAN]
    BY DEF Role
  <2>3. /\ pressureTicks \in 0..Samples /\ latencyTicks \in 0..Samples
        /\ criticalLatencyTicks \in 0..Samples /\ samples \in 0..MinSample
    BY PoolAssumption
  <2>. QED  BY <2>1, <2>2, <2>3 DEF TypeOK
<1>3. PendingAccounting
  BY FS_EmptySet DEF PendingAccounting
<1>4. CapacityRespected
  BY PoolAssumption DEF CapacityRespected
<1>. QED
  BY <1>1, <1>2, <1>3, <1>4
  DEF IInv, UnlistedIdle, NewIsEmpty, SinglePrimary, PlannedIffDraining

\* Connect and the builders, which are the only actions that create connections.
LEMMA ConnectInv ==
    ASSUME IInv, Connect
    PROVE  IInv'
<1>. USE DEF IInv, Connect
<1>1. PICK c \in Conn : /\ conns' = <<c>>
                        /\ role'  = [role EXCEPT ![c] = "primary"]
                        /\ alive' = [alive EXCEPT ![c] = TRUE]
                        /\ ScheduleBuilds(<<c>>, MaxTotal)
  OBVIOUS
<1>2. conns = <<>> /\ dialing = 0 /\ joining = {} /\ finishing = 0 /\ pendingBuilds = 0
  BY DEF NewIsEmpty
<1>3. Listed = {} /\ Listed' = {c} /\ Len(conns') = 1
  BY <1>1, <1>2 DEF Listed, Range
<1>4. /\ dialing' \in Nat /\ pendingBuilds' \in Nat /\ pendingBuilds' = dialing'
      /\ 1 + dialing' <= MaxTotal
  BY <1>1, <1>2, PoolAssumption DEF ScheduleBuilds, LesserOf
<1>5. TypeOK'
  BY <1>1, <1>4 DEF TypeOK, Role, ticks, detector
<1>6. PendingAccounting'
  BY <1>2, <1>4, FS_EmptySet DEF PendingAccounting
<1>7. CapacityRespected'
  BY <1>3, <1>4 DEF CapacityRespected
<1>8. UnlistedIdle' /\ SinglePrimary'
  BY <1>1, <1>3 DEF UnlistedIdle, SinglePrimary, TypeOK
<1>9. PlannedIffDraining'
  BY <1>1, <1>3 DEF PlannedIffDraining, UnlistedIdle, TypeOK
<1>. QED  BY <1>5, <1>6, <1>7, <1>8, <1>9 DEF NewIsEmpty

LEMMA BuildersInv ==
    ASSUME IInv, BuildFails \/ (\E c \in Conn : StartConn(c)) \/ FinishBuild
    PROVE  IInv'
<1>. USE DEF IInv
<1>0. IsFiniteSet(joining) /\ Cardinality(joining) \in Nat
  BY DialingIsCounted
<1>1. CASE BuildFails
  <2>. USE <1>1 DEF BuildFails
  <2>1. TypeOK'
    BY DEF TypeOK, ticks, detector
  <2>2. PendingAccounting'
    BY <1>0 DEF PendingAccounting, TypeOK
  <2>3. CapacityRespected'
    BY PoolAssumption DEF CapacityRespected, TypeOK
  <2>. QED
    BY <2>1, <2>2, <2>3
    DEF UnlistedIdle, NewIsEmpty, SinglePrimary, PlannedIffDraining, Listed, TypeOK
<1>2. CASE \E c \in Conn : StartConn(c)
  <2>1. PICK c \in Conn : StartConn(c)
    BY <1>2
  <2>. USE <2>1 DEF StartConn
  <2>2. TypeOK'
    BY DEF TypeOK, ticks, detector
  <2>3. Cardinality(joining') = Cardinality(joining) - 1
    BY <1>0, FS_RemoveElement
  <2>4. PendingAccounting'
    BY <1>0, <2>3 DEF PendingAccounting, TypeOK
  <2>. QED
    BY <2>2, <2>4
    DEF CapacityRespected, UnlistedIdle, NewIsEmpty, SinglePrimary, PlannedIffDraining, Listed
<1>3. CASE FinishBuild
  <2>. USE <1>3 DEF FinishBuild
  <2>1. pendingBuilds' \in Nat
    BY <1>0 DEF PendingAccounting, TypeOK
  <2>2. TypeOK'
    BY <2>1 DEF TypeOK, ticks, detector
  <2>3. PendingAccounting'
    BY <1>0 DEF PendingAccounting, TypeOK
  <2>. QED
    BY <2>2, <2>3
    DEF CapacityRespected, UnlistedIdle, NewIsEmpty, SinglePrimary, PlannedIffDraining, Listed, TypeOK
<1>. QED  BY <1>1, <1>2, <1>3

\* Appending to the list.
LEMMA RangeOfAppend ==
    ASSUME NEW list \in Seq(Conn), NEW c \in Conn
    PROVE  /\ Append(list, c) \in Seq(Conn)
           /\ Len(Append(list, c)) = Len(list) + 1
           /\ Range(Append(list, c)) = Range(list) \cup {c}
<1>1. /\ Append(list, c) \in Seq(Conn)
      /\ Len(Append(list, c)) = Len(list) + 1
      /\ Len(list) \in Nat
      /\ DOMAIN list = 1..Len(list)
      /\ DOMAIN Append(list, c) = 1..(Len(list) + 1)
      /\ \A i \in 1..Len(list) : Append(list, c)[i] = list[i]
      /\ Append(list, c)[Len(list) + 1] = c
  OBVIOUS
<1>2. ASSUME NEW d \in Range(Append(list, c))
      PROVE  d \in Range(list) \cup {c}
  <2>1. PICK i \in 1..(Len(list) + 1) : d = Append(list, c)[i]
    BY <1>1 DEF Range
  <2>2. i \in 1..Len(list) \/ i = Len(list) + 1
    BY <1>1
  <2>. QED  BY <1>1, <2>1, <2>2 DEF Range
<1>3. ASSUME NEW d \in Range(list) \cup {c}
      PROVE  d \in Range(Append(list, c))
  <2>1. CASE d \in Range(list)
    <3>1. PICK i \in 1..Len(list) : d = list[i]
      BY <1>1, <2>1 DEF Range
    <3>2. i \in 1..(Len(list) + 1)
      BY <1>1
    <3>. QED  BY <1>1, <3>1, <3>2 DEF Range
  <2>2. CASE d = c
    <3>1. Len(list) + 1 \in 1..(Len(list) + 1)
      BY <1>1
    <3>. QED  BY <1>1, <2>2, <3>1 DEF Range
  <2>. QED  BY <2>1, <2>2
<1>. QED  BY <1>1, <1>2, <1>3

LEMMA JoinInv ==
    ASSUME IInv, JoinStandby
    PROVE  IInv'
<1>. USE DEF IInv, JoinStandby
<1>1. PICK c \in Conn \ (Listed \cup joining) :
        /\ conns'   = Append(conns, c)
        /\ role'    = [role EXCEPT ![c] = "standby"]
        /\ alive'   = [alive EXCEPT ![c] = TRUE]
        /\ joining' = joining \cup {c}
  OBVIOUS
<1>2. conns \in Seq(Conn) /\ Len(conns) \in Nat
  BY DEF TypeOK
<1>3. conns' \in Seq(Conn) /\ Len(conns') = Len(conns) + 1 /\ Listed' = Listed \cup {c}
  BY <1>1, <1>2, RangeOfAppend DEF Listed
<1>4. TypeOK'
  BY <1>1, <1>3 DEF TypeOK, Role, ticks, detector
<1>5. Cardinality(joining) \in Nat /\ Cardinality(joining') = Cardinality(joining) + 1
  BY <1>1, DialingIsCounted, FS_AddElement
<1>6. PendingAccounting'
  BY <1>5 DEF PendingAccounting, TypeOK
<1>7. CapacityRespected'
  BY <1>2, <1>3, PoolAssumption DEF CapacityRespected, TypeOK
<1>8. UnlistedIdle'
  BY <1>1, <1>3 DEF UnlistedIdle, TypeOK
<1>9. SinglePrimary'
  BY <1>1, <1>3, RangeOfList DEF SinglePrimary, TypeOK, Listed
<1>10. role[c] = "none"
  BY <1>1 DEF UnlistedIdle
<1>11. PlannedIffDraining'
  BY <1>1, <1>10 DEF PlannedIffDraining, TypeOK
<1>12. NewIsEmpty'
  BY DEF NewIsEmpty
<1>. QED  BY <1>4, <1>6, <1>7, <1>8, <1>9, <1>11, <1>12

\* A connection ends by itself or because it was drained.
LEMMA EndsInv ==
    ASSUME IInv, NEW c \in Conn, Die(c) \/ DrainClose(c)
    PROVE  IInv'
<1>. USE DEF IInv, Die, DrainClose
<1>1. alive' = [alive EXCEPT ![c] = FALSE]
  OBVIOUS
<1>2. UNCHANGED <<phase, monitoring, conns, role, plannedClose, builders, ticks, detector>>
  OBVIOUS
<1>3. TypeOK'
  BY <1>1, <1>2 DEF TypeOK, builders, ticks, detector
<1>4. SinglePrimary'
  BY <1>1, <1>2, RangeOfList DEF SinglePrimary, TypeOK, Listed
<1>. QED
  BY <1>2, <1>3, <1>4
  DEF UnlistedIdle, NewIsEmpty, PendingAccounting, CapacityRespected, PlannedIffDraining,
      Listed, builders

\* The TUN reader promotes.
LEMMA PrimaryOrWaitInv ==
    ASSUME IInv, PrimaryOrWait
    PROVE  IInv'
<1>. USE DEF IInv, PrimaryOrWait
<1>1. conns \in Seq(Conn) /\ Len(conns) \in Nat /\ role \in [Conn -> Role]
  BY DEF TypeOK
<1>2. /\ role' \in [Conn -> Role]
      /\ \A c, d \in AliveAs(conns, role', "primary") : c = d
      /\ Drains(role') = Drains(role)
      /\ \A c \in Conn \ Listed : role'[c] = role[c]
  BY <1>1, NormalizedFacts DEF Listed
<1>3. PICK calls \in {0, 1} : ScheduleBuilds(conns, calls)
  OBVIOUS
<1>4. /\ dialing' \in Nat /\ pendingBuilds' \in Nat
      /\ pendingBuilds' - pendingBuilds = dialing' - dialing
      /\ Len(conns) + dialing' <= MaxTotal
  <2>1. dialing \in Nat /\ pendingBuilds \in Nat /\ dialing <= pendingBuilds
    BY DialingIsCounted DEF TypeOK
  <2>. QED  BY <1>1, <1>3, <2>1, ScheduleFacts DEF CapacityRespected
<1>5. TypeOK'
  BY <1>2, <1>4 DEF TypeOK, ticks, detector
<1>6. PendingAccounting'
  <2>1. Cardinality(joining') = Cardinality(joining) /\ finishing' = finishing
    OBVIOUS
  <2>2. /\ dialing \in Nat /\ pendingBuilds \in Nat /\ finishing \in Nat
        /\ Cardinality(joining) \in Nat
    BY DialingIsCounted DEF TypeOK
  <2>3. pendingBuilds = dialing + Cardinality(joining) + finishing
    BY DEF PendingAccounting
  <2>4. /\ dialing' \in Nat /\ pendingBuilds' \in Nat
        /\ pendingBuilds' - pendingBuilds = dialing' - dialing
    BY <1>4
  <2>5. pendingBuilds' = dialing' + Cardinality(joining) + finishing
    <3>. HIDE DEF PrimaryOrWait, IInv
    <3>. QED  BY <2>2, <2>3, <2>4
  <2>. QED  BY <2>1, <2>5 DEF PendingAccounting
<1>7. CapacityRespected'
  BY <1>4 DEF CapacityRespected
<1>8. SinglePrimary'
  BY <1>2 DEF SinglePrimary, AliveAs, Listed
<1>9. PlannedIffDraining'
  BY <1>2 DEF PlannedIffDraining, Drains
<1>10. UnlistedIdle'
  BY <1>2 DEF UnlistedIdle, Listed
<1>11. NewIsEmpty'
  BY DEF NewIsEmpty
<1>. QED  BY <1>5, <1>6, <1>7, <1>8, <1>9, <1>10, <1>11

\* The monitor prunes, promotes, rotates and builds.
LEMMA MonitorTickInv ==
    ASSUME IInv, MonitorTick
    PROVE  IInv'
<1>. USE DEF IInv
<1>0. monitoring /\ UNCHANGED <<phase, monitoring, alive, joining, finishing>>
  BY DEF MonitorTick
<1>1. TypeOK'
  <2>1. /\ conns' \in Seq(Conn) /\ role' \in [Conn -> Role]
        /\ plannedClose' \subseteq Conn
    BY TickRoles DEF Drains
  <2>. QED  BY <1>0, <2>1, TickBuilders, TickCounters DEF TypeOK
<1>2. PendingAccounting'
  <2>1. Cardinality(joining') = Cardinality(joining) /\ finishing' = finishing
    BY <1>0
  <2>2. /\ dialing \in Nat /\ pendingBuilds \in Nat /\ finishing \in Nat
        /\ Cardinality(joining) \in Nat
    BY DialingIsCounted DEF TypeOK
  <2>3. pendingBuilds = dialing + Cardinality(joining) + finishing
    BY DEF PendingAccounting
  <2>4. /\ dialing' \in Nat /\ pendingBuilds' \in Nat
        /\ pendingBuilds' - pendingBuilds = dialing' - dialing
    BY TickBuilders
  <2>5. pendingBuilds' = dialing' + Cardinality(joining) + finishing
    BY <2>2, <2>3, <2>4
  <2>. QED  BY <2>1, <2>5 DEF PendingAccounting
<1>3. CapacityRespected'
  BY TickBuilders DEF CapacityRespected
<1>4. SinglePrimary'
  BY <1>0, TickRoles DEF SinglePrimary, AliveAs, Listed
<1>5. PlannedIffDraining'
  BY TickRoles DEF PlannedIffDraining, Drains
<1>6. UnlistedIdle'
  BY TickRoles DEF UnlistedIdle, Listed
<1>7. NewIsEmpty'
  BY <1>0 DEF NewIsEmpty
<1>. QED  BY <1>1, <1>2, <1>3, <1>4, <1>5, <1>6, <1>7

\* The end of Connect that fails, and shutdown.
LEMMA PhasesInv ==
    ASSUME IInv, ConnectFail \/ Cancel \/ CloseAll \/ MonitorEnds
    PROVE  IInv'
<1>. USE DEF IInv
<1>1. CASE ConnectFail
  BY <1>1
  DEF ConnectFail, TypeOK, UnlistedIdle, NewIsEmpty, PendingAccounting, CapacityRespected,
      SinglePrimary, PlannedIffDraining, Listed, builders, ticks, detector
<1>2. CASE Cancel
  BY <1>2
  DEF Cancel, TypeOK, UnlistedIdle, NewIsEmpty, PendingAccounting, CapacityRespected,
      SinglePrimary, PlannedIffDraining, Listed, builders, ticks, detector
<1>3. CASE CloseAll
  <2>. USE <1>3 DEF CloseAll
  <2>1. Listed' = {} /\ Len(conns') = 0
    BY DEF Listed, Range
  <2>2. TypeOK'
    BY DEF TypeOK, Role, builders, ticks, detector
  <2>3. CapacityRespected'
    <3>1. Len(conns) \in Nat /\ dialing \in Nat /\ MaxTotal \in Nat
      BY PoolAssumption DEF TypeOK
    <3>. QED  BY <2>1, <3>1 DEF CapacityRespected, builders
  <2>. QED
    BY <2>1, <2>2, <2>3
    DEF UnlistedIdle, NewIsEmpty, PendingAccounting, SinglePrimary, PlannedIffDraining, builders
<1>4. CASE MonitorEnds
  BY <1>4
  DEF MonitorEnds, TypeOK, UnlistedIdle, NewIsEmpty, PendingAccounting, CapacityRespected,
      SinglePrimary, PlannedIffDraining, Listed, builders, ticks, detector
<1>. QED  BY <1>1, <1>2, <1>3, <1>4

\* IInv is inductive.
LEMMA NextInv ==
    ASSUME IInv, [Next]_vars
    PROVE  IInv'
<1>1. CASE Next
  BY <1>1, ConnectInv, PhasesInv, BuildersInv, JoinInv, EndsInv, PrimaryOrWaitInv, MonitorTickInv
  DEF Next
<1>2. CASE UNCHANGED vars
  BY <1>2
  DEF IInv, TypeOK, UnlistedIdle, NewIsEmpty, PendingAccounting, CapacityRespected,
      SinglePrimary, PlannedIffDraining, Listed, vars, builders, ticks, detector
<1>. QED  BY <1>1, <1>2

LEMMA Inductive == Spec => []IInv
<1>1. Init => IInv
  BY InitInv
<1>2. IInv /\ [Next]_vars => IInv'
  BY NextInv
<1>. QED  BY <1>1, <1>2, PTL DEF Spec

-----------------------------------------------------------------------------
(* The invariants of the pool, for all values of its constants.            *)

\* Every variable of the pool keeps its type; in particular pendingBuilds,
\* which buildStandby decrements without a test, never becomes negative.
THEOREM TypeCorrect == Spec => []TypeOK
<1>1. IInv => TypeOK
  BY DEF IInv
<1>. QED  BY <1>1, Inductive, PTL

\* However promotion, both rotations, builds and deaths interleave, the pool
\* never has two live primaries.
THEOREM OnePrimary == Spec => []SinglePrimary
<1>1. IInv => SinglePrimary
  BY DEF IInv
<1>. QED  BY <1>1, Inductive, PTL

\* Listed connections and dials under way never exceed maxTotal, whoever
\* schedules builds and however often.
THEOREM WithinCapacity == Spec => []CapacityRespected
<1>1. IInv => CapacityRespected
  BY DEF IInv
<1>. QED  BY <1>1, Inductive, PTL

\* pendingBuilds is exactly the number of builders that have not ended.
THEOREM BuildersAccounted == Spec => []PendingAccounting
<1>1. IInv => PendingAccounting
  BY DEF IInv
<1>. QED  BY <1>1, Inductive, PTL

\* The connections the timeout detector does not learn from are exactly those
\* the client rotated out.
THEOREM PlannedAreDraining == Spec => []PlannedIffDraining
<1>1. IInv => PlannedIffDraining
  BY DEF IInv
<1>. QED  BY <1>1, Inductive, PTL
=============================================================================
