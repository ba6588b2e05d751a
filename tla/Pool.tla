-------------------------------- MODULE Pool --------------------------------
(***************************************************************************)
(* The client's connection pool (internal/conn/pool.go): which WebSocket   *)
(* connections exist, what role each plays, and who may change that.       *)
(*                                                                         *)
(* Goroutines: the one-second monitor, the TUN reader waiting for a        *)
(* primary, one builder per scheduled standby, the three goroutines of     *)
(* every started connection (read, write, heartbeat, all of which end in   *)
(* close()), one drainer per retired primary, and Run's shutdown.          *)
(* Pool.mu makes each critical section one action. `alive` is atomic and   *)
(* is flipped outside the mutex, so Die and DrainClose interleave freely.  *)
(* A flip in the middle of a monitor tick is one of two things: before the *)
(* tick (the tick prunes the connection) or after it.                      *)
(***************************************************************************)
EXTENDS Integers, Sequences, FiniteSets, Functions

CONSTANTS
    Conn,      \* pooledConn objects; a slot is reused once nothing refers to it
    MaxTotal,  \* Pool.maxTotal
    Samples,   \* queuePressureSamples = latencyHighSamples = latencyCriticalTicks
    MinSample  \* minSamplesToDetect of the TimeoutDetector

ASSUME PoolAssumption ==
    /\ MaxTotal \in Nat \ {0}
    /\ Samples \in Nat \ {0}
    /\ MinSample \in Nat \ {0}
    /\ IsFiniteSet(Conn)
    /\ Cardinality(Conn) >= MaxTotal

VARIABLES
    phase,         \* "new"; "failed" or "up"; "cancelled" (ctx.Done); "closed" (closeAll ran)
    monitoring,    \* the monitor goroutine runs
    conns,         \* Pool.conns, in list order
    role,          \* pooledConn.role; "none" for a slot not listed
    alive,         \* pooledConn.alive
    plannedClose,  \* the connections whose plannedClose flag is set
    dialing,       \* builders inside buildConn
    joining,       \* connections a builder has listed and not started yet
    finishing,     \* builders about to run their deferred decrement
    pendingBuilds, \* Pool.pendingBuilds
    pressureTicks, latencyTicks, criticalLatencyTicks, \* saturated at Samples
    samples,       \* lifetimes the TimeoutDetector has recorded, saturated
    detected       \* TimeoutDetector.detected > 0

builders == <<dialing, joining, finishing, pendingBuilds>>
ticks    == <<pressureTicks, latencyTicks, criticalLatencyTicks>>
detector == <<samples, detected>>
vars     == <<phase, monitoring, conns, role, alive, plannedClose, builders, ticks, detector>>

Role == {"none", "primary", "standby", "draining"}

Listed == Range(conns)
Live   == {c \in Listed : alive[c]}

LesserOf(a, b) == IF a < b THEN a ELSE b

-----------------------------------------------------------------------------
(* Choosing a primary. Every loop of the code takes the first match in list *)
(* order; First is that connection, or nothing, as a set.                  *)

First(list, S) ==
    {list[i] : i \in {j \in DOMAIN list :
                        list[j] \in S /\ \A k \in 1..(j - 1) : list[k] \notin S}}

AliveAs(list, r, what) == {c \in Range(list) : alive[c] /\ r[c] = what}

ServingMutant(list, r) == \* promotes any live connection
    First(list, IF AliveAs(list, r, "primary") # {}
                THEN AliveAs(list, r, "primary")
                ELSE {c \in Range(list) : alive[c]})

NoPromotionMutant(list, r) == First(list, AliveAs(list, r, "primary"))

\* The connection normalizePrimaryLocked returns: the first live primary or,
\* when there is none, the first live standby, which it promotes. (A second
\* loop over live connections that are not draining finds nothing new: a live
\* connection that is not draining is a primary or a standby.)
Serving(list, r) ==
    First(list, IF AliveAs(list, r, "primary") # {}
                THEN AliveAs(list, r, "primary")
                ELSE AliveAs(list, r, "standby"))

\* The roles after normalizePrimaryLocked; a surplus primary is demoted.
Normalized(list, r) ==
    [c \in Conn |-> IF c \in Serving(list, r) THEN "primary"
                    ELSE IF c \in AliveAs(list, r, "primary") THEN "standby"
                    ELSE r[c]]

RetiringMutant(list, r) == First(list, AliveAs(list, r, "primary")) \* no standby needed

\* The primary rotatePrimaryLocked retires: none unless a live standby can
\* take over.
Retiring(list, r) ==
    IF AliveAs(list, r, "standby") = {}
    THEN {}
    ELSE First(list, AliveAs(list, r, "primary"))

RotatedMutant(list, r) == \* the old primary keeps its role
    [c \in Conn |-> IF c \in First(list, AliveAs(list, r, "standby")) THEN "primary"
                    ELSE r[c]]

\* The roles after rotatePrimaryLocked.
Rotated(list, r) ==
    IF AliveAs(list, r, "primary") = {} THEN Normalized(list, r)
    ELSE IF Retiring(list, r) = {} THEN r
    ELSE [c \in Conn |->
            IF c \in Retiring(list, r) THEN "draining"
            ELSE IF c \in First(list, AliveAs(list, r, "standby")) THEN "primary"
            ELSE r[c]]

-----------------------------------------------------------------------------
(* Builders.                                                               *)

ScheduleBuildsMutant(list, calls) == \* forgets the builders already under way
    LET room    == IF Len(list) < MaxTotal THEN MaxTotal - Len(list) ELSE 0
        started == LesserOf(calls, room)
    IN  /\ pendingBuilds' = pendingBuilds + started
        /\ dialing' = dialing + started

\* `calls` calls of scheduleBuildLocked: each starts a builder while the list
\* and the pending builds leave room.
ScheduleBuilds(list, calls) ==
    LET room    == IF Len(list) + pendingBuilds < MaxTotal
                   THEN MaxTotal - Len(list) - pendingBuilds ELSE 0
        started == LesserOf(calls, room)
    IN  /\ pendingBuilds' = pendingBuilds + started
        /\ dialing' = dialing + started

\* Pool.Connect: the first connection becomes the primary at once and
\* ensureStandbys schedules builders for the rest of the pool.
Connect ==
    /\ phase = "new"
    /\ \E c \in Conn :
        /\ conns' = <<c>>
        /\ role'  = [role EXCEPT ![c] = "primary"]
        /\ alive' = [alive EXCEPT ![c] = TRUE]
        /\ ScheduleBuilds(<<c>>, MaxTotal)
    /\ phase' = "up"
    /\ monitoring' = TRUE
    /\ UNCHANGED <<plannedClose, joining, finishing, ticks, detector>>

\* The dial, the hello, or the TUN set-up of Connect fails: the client exits.
ConnectFail ==
    /\ phase = "new"
    /\ phase' = "failed"
    /\ UNCHANGED <<monitoring, conns, role, alive, plannedClose, builders, ticks, detector>>

BuildFailsLeakMutant == \* an early return skips the decrement
    /\ dialing > 0
    /\ dialing' = dialing - 1
    /\ UNCHANGED <<phase, monitoring, conns, role, alive, plannedClose, joining,
                   finishing, pendingBuilds, ticks, detector>>

BuildFailsTwiceMutant == \* the failed build decrements, and so does the defer
    /\ dialing > 0
    /\ dialing' = dialing - 1
    /\ finishing' = finishing + 1
    /\ pendingBuilds' = pendingBuilds - 1
    /\ UNCHANGED <<phase, monitoring, conns, role, alive, plannedClose, joining,
                   ticks, detector>>

\* buildStandby: buildConn returns an error, or the connection is closed
\* unlisted because the server assigned another virtual IP than the TUN has or
\* because the list is full (by CapacityRespected it never is).
BuildFails ==
    /\ dialing > 0
    /\ dialing' = dialing - 1
    /\ finishing' = finishing + 1
    /\ UNCHANGED <<phase, monitoring, conns, role, alive, plannedClose, joining, pendingBuilds,
                   ticks, detector>>

\* buildStandby: the connection joins as a standby under the mutex. It is in
\* the list, and can be promoted, before startConn runs. Neither the context
\* nor closeAll is looked at: a build that completes late joins all the same.
JoinStandby ==
    /\ dialing > 0
    /\ Len(conns) < MaxTotal
    /\ \E c \in Conn \ (Listed \cup joining) :
        /\ conns'   = Append(conns, c)
        /\ role'    = [role EXCEPT ![c] = "standby"]
        /\ alive'   = [alive EXCEPT ![c] = TRUE]
        /\ joining' = joining \cup {c}
    /\ dialing' = dialing - 1
    /\ UNCHANGED <<phase, monitoring, plannedClose, finishing, pendingBuilds, ticks, detector>>

\* startConn: the connection's own goroutines start, outside the mutex.
StartConn(c) ==
    /\ c \in joining
    /\ joining' = joining \ {c}
    /\ finishing' = finishing + 1
    /\ UNCHANGED <<phase, monitoring, conns, role, alive, plannedClose, dialing, pendingBuilds,
                   ticks, detector>>

\* The deferred decrement of buildStandby, whatever became of the build.
FinishBuild ==
    /\ finishing > 0
    /\ finishing' = finishing - 1
    /\ pendingBuilds' = pendingBuilds - 1
    /\ UNCHANGED <<phase, monitoring, conns, role, alive, plannedClose, dialing, joining, ticks,
                   detector>>

-----------------------------------------------------------------------------
(* Ends of a connection.                                                   *)

\* readConn, writeConn or heartbeatConn of a started connection fails.
Die(c) ==
    /\ c \in Listed \ joining
    /\ alive[c]
    /\ alive' = [alive EXCEPT ![c] = FALSE]
    /\ UNCHANGED <<phase, monitoring, conns, role, plannedClose, builders, ticks, detector>>

DrainCloseMutant(c) == \* the wait ends without closing the connection
    /\ c \in Listed
    /\ role[c] = "draining"
    /\ UNCHANGED vars

\* closeAfterDrain: the retired connection's queue emptied, or the wait of
\* five seconds is over.
DrainClose(c) ==
    /\ c \in Listed
    /\ role[c] = "draining"
    /\ alive[c]
    /\ alive' = [alive EXCEPT ![c] = FALSE]
    /\ UNCHANGED <<phase, monitoring, conns, role, plannedClose, builders, ticks, detector>>

-----------------------------------------------------------------------------
(* The two goroutines that assign roles.                                   *)

\* primaryOrWait, in the TUN reader: no live primary, so ensurePrimaryLocked.
\* It prunes nothing. The context is tested before the mutex is taken, so
\* the later phases are possible too.
PrimaryOrWait ==
    /\ phase \in {"up", "cancelled", "closed"}
    /\ AliveAs(conns, role, "primary") = {}
    /\ role' = Normalized(conns, role)
    /\ ScheduleBuilds(conns, IF phase = "up" /\ Serving(conns, role) = {} THEN 1 ELSE 0)
    /\ UNCHANGED <<phase, monitoring, conns, alive, plannedClose, joining, finishing, ticks,
                   detector>>

\* `list` is conns without its dead members, in the same order.
Pruned(list) ==
    /\ Range(list) = Live
    /\ \A i, j \in DOMAIN list : i < j =>
         \E m, n \in DOMAIN conns : m < n /\ conns[m] = list[i] /\ conns[n] = list[j]

\* RecordDisconnect for each connection pruned without a planned close. Each
\* lifetime counts unless it was under five seconds; with MinSample of them
\* recorded, tryDetect may find a cluster, and what it found stays.
RecordDisconnects(unplanned) ==
    /\ samples' \in samples..LesserOf(MinSample, samples + Cardinality(unplanned))
    /\ \/ detected' = detected
       \/ /\ unplanned # {}
          /\ samples' = MinSample
          /\ detected' = TRUE

MarkedMutant(retired) == plannedClose \ (Listed \ Live) \* the flag is never set

\* The plannedClose flags after a tick that pruned the dead connections and
\* retired `retired`.
Marked(retired) == (plannedClose \ (Listed \ Live)) \cup retired

\* A consecutive-sample counter: it grows while the condition holds of a live
\* primary and restarts from zero otherwise.
Counted(n, holds) == IF holds THEN LesserOf(n + 1, Samples) ELSE 0

\* The roles without those of the connections the tick prunes.
Kept == [c \in Conn |-> IF c \in Listed \ Live THEN "none" ELSE role[c]]

\* How many of the tick's four tests schedule a build of their own.
Replacements(aged, pressed, slow, renew) ==
    Cardinality({k \in {"aged", "pressed", "slow", "renew"} :
        \/ k = "aged"    /\ aged
        \/ k = "pressed" /\ pressed /\ pressureTicks + 1 >= Samples
        \/ k = "slow"    /\ slow /\ latencyTicks + 1 >= Samples
        \/ k = "renew"   /\ renew})

\* monitorTick once `list` is what is left of the pool. `aged`: the primary's
\* age as a primary exceeds the rotation interval, impossible for one
\* promoted by this very tick. `pressed`, `slow`, `critical`: the primary's
\* queue depth and write latency as read by the three tests. A cancelled
\* context silences ensurePrimaryLocked and ensureStandbysLocked, not the
\* other builds.
Tick(list, aged, pressed, slow, critical) ==
    LET first == Normalized(list, Kept)
        turn  == IF aged THEN Rotated(list, first) ELSE first
        renew == critical /\ criticalLatencyTicks + 1 >= Samples
    IN  /\ aged => detected' /\ AliveAs(list, Kept, "primary") # {}
        /\ pressed \/ slow \/ critical => AliveAs(list, turn, "primary") # {}
        /\ pressureTicks' = Counted(pressureTicks, pressed)
        /\ latencyTicks' = Counted(latencyTicks, slow)
        /\ criticalLatencyTicks' = Counted(criticalLatencyTicks, critical)
        /\ role' = IF renew THEN Rotated(list, turn) ELSE turn
        /\ plannedClose' = Marked((IF aged THEN Retiring(list, first) ELSE {})
                                    \cup (IF renew THEN Retiring(list, turn) ELSE {}))
        /\ ScheduleBuilds(list, IF phase = "up" THEN MaxTotal
                                ELSE Replacements(aged, pressed, slow, renew))

\* monitorTick, the whole handler under the mutex.
MonitorTick ==
    /\ monitoring
    /\ \E list \in [1..Cardinality(Live) -> Live] :
        /\ Pruned(list)
        /\ conns' = list
        /\ RecordDisconnects((Listed \ Live) \ plannedClose)
        /\ \E aged, pressed, slow, critical \in BOOLEAN :
             Tick(list, aged, pressed, slow, critical)
    /\ UNCHANGED <<phase, monitoring, alive, joining, finishing>>

-----------------------------------------------------------------------------
(* Shutdown.                                                               *)

Cancel ==
    /\ phase = "up"
    /\ phase' = "cancelled"
    /\ UNCHANGED <<monitoring, conns, role, alive, plannedClose, builders, ticks, detector>>

\* closeAll. Builders and drainers are not waited for.
CloseAll ==
    /\ phase = "cancelled"
    /\ phase' = "closed"
    /\ conns' = <<>>
    /\ role'  = [c \in Conn |-> "none"]
    /\ alive' = [c \in Conn |-> FALSE]
    /\ plannedClose' = {}
    /\ UNCHANGED <<monitoring, builders, ticks, detector>>

\* The monitor takes the ctx.Done case of its select; a tick that was due may
\* still run before that, even after closeAll.
MonitorEnds ==
    /\ phase \in {"cancelled", "closed"}
    /\ monitoring
    /\ monitoring' = FALSE
    /\ UNCHANGED <<phase, conns, role, alive, plannedClose, builders, ticks, detector>>
-----------------------------------------------------------------------------
Init ==
    /\ phase = "new"
    /\ monitoring = FALSE
    /\ conns = <<>>
    /\ role  = [c \in Conn |-> "none"]
    /\ alive = [c \in Conn |-> FALSE]
    /\ plannedClose = {}
    /\ dialing = 0 /\ joining = {} /\ finishing = 0 /\ pendingBuilds = 0
    /\ pressureTicks = 0 /\ latencyTicks = 0 /\ criticalLatencyTicks = 0
    /\ samples = 0 /\ detected = FALSE

Next ==
    \/ Connect
    \/ ConnectFail
    \/ BuildFails
    \/ JoinStandby
    \/ \E c \in Conn : StartConn(c)
    \/ FinishBuild
    \/ \E c \in Conn : Die(c)
    \/ \E c \in Conn : DrainClose(c)
    \/ PrimaryOrWait
    \/ MonitorTick
    \/ Cancel
    \/ CloseAll
    \/ MonitorEnds

Spec == Init /\ [][Next]_vars

-----------------------------------------------------------------------------
(* Safety.                                                                 *)

\* Every variable has its type: the only invariant of this module that says
\* no more than that.
TypeOK ==
    /\ phase \in {"new", "failed", "up", "cancelled", "closed"}
    /\ monitoring \in BOOLEAN
    /\ conns \in Seq(Conn)
    /\ role \in [Conn -> Role]
    /\ alive \in [Conn -> BOOLEAN]
    /\ plannedClose \subseteq Conn
    /\ dialing \in Nat
    /\ joining \subseteq Conn
    /\ finishing \in Nat
    /\ pendingBuilds \in Nat
    /\ pressureTicks \in 0..Samples
    /\ latencyTicks \in 0..Samples
    /\ criticalLatencyTicks \in 0..Samples
    /\ samples \in 0..MinSample
    /\ detected \in BOOLEAN

\* At most one live connection is the primary, although the monitor, the TUN
\* reader and both kinds of rotation promote standbys and any connection may
\* die at any moment (dispatch sends new flows to the first live primary).
SinglePrimary ==
    \A c, d \in Listed :
        alive[c] /\ alive[d] /\ role[c] = "primary" /\ role[d] = "primary" => c = d

\* The pool never holds, counting the dials under way, more than MaxTotal
\* connections: rotation, both promoters and every builder together. So
\* buildStandby's "list is full" branch is never taken.
CapacityRespected == Len(conns) + dialing <= MaxTotal

\* Pool.pendingBuilds counts exactly the builders that exist, whichever way
\* each of them ends; a leak would stop the pool from ever refilling.
PendingAccounting == pendingBuilds = dialing + Cardinality(joining) + finishing

\* A connection is excluded from timeout learning (plannedClose) exactly when
\* it was rotated out, in every order of rotation, death and pruning.
PlannedIffDraining == plannedClose = {c \in Conn : role[c] = "draining"}

\* A connection rotated out never serves again: it stays draining until it
\* leaves the list, dead.
RetiredStaysRetired ==
    [][\A c \in Conn : role[c] = "draining" =>
           \/ role'[c] = "draining"
           \/ role'[c] = "none" /\ (alive[c] => phase' = "closed")]_vars

\* Make before break: a live primary loses the role only when another live
\* connection has it after the same step (or the pool shuts down).
HandoverMakesBeforeBreaks ==
    [][\A c \in Listed : alive[c] /\ role[c] = "primary" =>
           \/ role'[c] = "primary"
           \/ phase' = "closed"
           \/ \E d \in Range(conns') \ {c} : alive'[d] /\ role'[d] = "primary"]_vars

\* Connections the client closed on purpose teach the timeout detector
\* nothing: it learns only in a step that drops a connection which died in
\* service.
PlannedClosesTeachNothing ==
    [][samples' > samples \/ detected' # detected =>
           \E c \in Listed \ Range(conns') : ~alive[c] /\ role[c] # "draining"]_vars

\* What a user sees of the pool: a dead connection is no connection.
Roles == INSTANCE PoolRoles
           WITH stage <- [c \in Conn |-> IF alive[c] THEN role[c] ELSE "none"]

\* Every behaviour of the pool is one PoolRoles allows: a whole monitor tick,
\* with its pruning, promotion and up to two rotations, is one decision.
ImplementsRoles == Roles!Spec

-----------------------------------------------------------------------------
(* Liveness. Goroutines run; the server accepts a dial if it is tried often *)
(* enough. Nothing obliges a connection to stay alive.                     *)

Fairness ==
    /\ WF_vars(MonitorTick)
    /\ WF_vars(BuildFails \/ JoinStandby)
    /\ SF_vars(JoinStandby)
    /\ \A c \in Conn : WF_vars(StartConn(c)) /\ WF_vars(DrainClose(c))
    /\ WF_vars(FinishBuild)
    /\ WF_vars(CloseAll)
    /\ WF_vars(MonitorEnds)

FairSpec == Spec /\ Fairness

HasPrimary == AliveAs(conns, role, "primary") # {}

\* Once no connection that serves or stands by breaks any more, a pool that is
\* up gets a primary and keeps one, however often it rotates, drains and
\* builds after that.
PrimaryRecovers ==
    <>[][\A c \in Conn : role[c] # "draining" => ~Die(c)]_vars =>
        <>[](phase = "up" => HasPrimary)

\* A retired connection does leave the pool, which frees its place for a new
\* standby.
RetiredLeaves ==
    \A c \in Conn : phase = "up" /\ role[c] = "draining" ~> role[c] # "draining"

\* After shutdown every builder ends, and none is started again.
BuildersEnd == (phase = "closed") ~> [](pendingBuilds = 0)
=============================================================================
