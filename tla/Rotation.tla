------------------------------ MODULE Rotation ------------------------------
(***************************************************************************)
(* Planned rotation against a middlebox that cuts every connection at a    *)
(* fixed age: the TimeoutDetector (internal/conn/timeout.go) learns the    *)
(* age from disconnects, the monitor rotates the primary early.            *)
(* Time is discrete; one unit is a monitor interval long enough for a      *)
(* standby to be built, and the durations of the code are in units.        *)
(* The roles, the order of the list and the pruning are those of Pool.     *)
(***************************************************************************)
EXTENDS Integers, Sequences, FiniteSets, SequencesExt

CONSTANTS
    Limits,    \* the ages at which the middlebox may cut; one is drawn for good
    MaxTotal,  \* Pool.maxTotal
    Tolerance, \* clusterTolerance
    MinAge,    \* RecordDisconnect ignores shorter lives (five seconds)
    MaxFaults  \* disconnects at other ages (bound)

maxSamples == 5
minSamplesToDetect == 3

ASSUME RotationAssumption ==
    /\ MaxTotal \in Nat \ {0} /\ Tolerance \in Nat /\ MinAge \in Nat /\ MaxFaults \in Nat
    /\ Limits \subseteq Nat \ {0} /\ Limits # {}

VARIABLES
    limit,    \* the middlebox's age limit
    conns,    \* Pool.conns: role, age (ConnState.Age), tenure (primaryAge), alive
    samples,  \* TimeoutDetector.samples
    detected, \* TimeoutDetector.detected; 0 for nothing detected
    faults,   \* disconnects so far that were not the middlebox's
    cut       \* history: the primaries the middlebox has cut in the last unit,
              \* with what they were and what was detected then
vars == <<limit, conns, samples, detected, faults, cut>>

Standby == [role |-> "standby", age |-> 0, tenure |-> 0, alive |-> TRUE]

-----------------------------------------------------------------------------
(* TimeoutDetector.                                                        *)

SmallestOf(s) == CHOOSE x \in Range(s) : \A y \in Range(s) : x <= y
Within(s, x)  == Cardinality({i \in DOMAIN s : s[i] - x \in (-Tolerance)..Tolerance})

LastFewAllMutant(s) == s \* nothing is forgotten

LastFewPairMutant(s) == \* fewer are kept than tryDetect asks for
    IF Len(s) > 2 THEN SubSeq(s, Len(s) - 1, Len(s)) ELSE s

\* What RecordDisconnect keeps of the samples.
LastFew(s) == IF Len(s) > maxSamples THEN SubSeq(s, Len(s) - maxSamples + 1, Len(s)) ELSE s

\* The samples after the first k of `ages` were recorded; shorter lives than
\* MinAge are not among them.
Window(ages, k) == LastFew(samples \o SubSeq(ages, 1, k))

ConvincingMutant(s) == Len(s) >= 2 \* any two samples will do

\* tryDetect: enough samples near the smallest one.
Convincing(s) ==
    /\ Len(s) >= minSamplesToDetect
    /\ Within(s, SmallestOf(s)) >= minSamplesToDetect

\* RecordDisconnect for each of `ages` in turn: the last window that convinces
\* gives the limit; if none does, what was detected before stays.
Detected(ages) ==
    LET convincing == {k \in DOMAIN ages : Convincing(Window(ages, k))}
    IN  IF convincing = {} THEN detected
        ELSE SmallestOf(Window(ages, CHOOSE k \in convincing : \A j \in convincing : j <= k))

\* RotationInterval is 0.8 of what was detected.
PastRotation(tenure, det) == det > 0 /\ 10 * tenure > 8 * det

-----------------------------------------------------------------------------
(* One unit of time.                                                       *)

Older(c) == [c EXCEPT !.age = @ + 1, !.tenure = IF c.role = "primary" THEN @ + 1 ELSE @,
                      !.alive = @ /\ c.age + 1 < limit]

IndexOf(cs, what) == {i \in DOMAIN cs : cs[i].role = what}
FirstOf(cs, what) == CHOOSE i \in IndexOf(cs, what) : \A j \in IndexOf(cs, what) : i <= j
Promoted(cs, i) == [cs EXCEPT ![i].role = "primary", ![i].tenure = 0]

\* ensurePrimaryLocked on a list without dead connections.
Ensured(cs) ==
    IF IndexOf(cs, "primary") = {} /\ IndexOf(cs, "standby") # {}
    THEN Promoted(cs, FirstOf(cs, "standby"))
    ELSE cs

RotatedMutant(cs, det) == cs \* the interval is never compared

\* The rotation test of monitorTick, with rotatePrimaryLocked. The retired
\* connection drains within the unit and leaves without a sample.
Rotated(cs, det) ==
    IF /\ IndexOf(cs, "primary") # {} /\ IndexOf(cs, "standby") # {}
       /\ PastRotation(cs[FirstOf(cs, "primary")].tenure, det)
    THEN LET p == FirstOf(cs, "primary")
             n == Promoted(cs, FirstOf(cs, "standby"))
         IN  RemoveAt(n, p)
    ELSE cs

\* ensureStandbysLocked; every build succeeds within the unit.
Refilled(cs) == cs \o [i \in 1..(MaxTotal - Len(cs)) |-> Standby]

\* The positions of S in the order of the list, as monitorTick walks it.
Listings(S) == {s \in [1..Cardinality(S) -> S] : \A i, j \in DOMAIN s : i < j => s[i] < s[j]}

\* Time passes: connections age, the middlebox cuts those at the limit, and
\* monitorTick prunes, records, promotes, rotates and refills.
Unit ==
    \E aged \in {[i \in DOMAIN conns |-> Older(conns[i])]} :
    \E kept \in Listings({i \in DOMAIN conns : aged[i].alive}) :
    \E dead \in Listings({i \in DOMAIN conns : ~aged[i].alive /\ aged[i].age >= MinAge}) :
    \E ages \in {[k \in DOMAIN dead |-> aged[dead[k]].age]} :
        /\ samples' = Window(ages, Len(ages))
        /\ detected' = Detected(ages)
        /\ conns' = Refilled(Rotated(Ensured([k \in DOMAIN kept |-> aged[kept[k]]]), detected'))
        /\ cut' = {[conn |-> c, det |-> detected] :
                     c \in {d \in Range(aged) : d.role = "primary" /\ d.age = limit}}
        /\ UNCHANGED <<limit, faults>>

\* A connection fails for another reason before the next unit.
Fault(i) ==
    /\ faults < MaxFaults
    /\ conns[i].alive
    /\ conns' = [conns EXCEPT ![i].alive = FALSE]
    /\ faults' = faults + 1
    /\ UNCHANGED <<limit, samples, detected, cut>>

Init ==
    /\ limit \in Limits
    /\ conns = Refilled(<<[Standby EXCEPT !.role = "primary"]>>)
    /\ samples = <<>> /\ detected = 0
    /\ faults = 0 /\ cut = {}

Next == Unit \/ \E i \in DOMAIN conns : Fault(i)

Spec == Init /\ [][Next]_vars /\ WF_vars(Unit)

-----------------------------------------------------------------------------
TypeOK ==
    /\ limit \in Limits
    /\ Len(conns) = MaxTotal
    /\ \A i \in DOMAIN conns : /\ conns[i].role \in {"primary", "standby"}
                               /\ conns[i].age \in 0..limit
                               /\ conns[i].tenure \in 0..conns[i].age
    /\ Len(samples) <= maxSamples
    /\ Range(samples) \subseteq MinAge..limit
    /\ detected \in 0..limit
    /\ faults \in 0..MaxFaults

\* Once its limit is learned exactly, the middlebox cuts a primary only if
\* that one had already used up the margin (a fifth of the limit, less one
\* unit) as a standby before its promotion: rotation protects every connection
\* that was young when it took over, as long as faults leave a standby.
CutOnlyOldStandby ==
    faults < MaxTotal - 1 =>
        \A x \in cut : x.det = limit => 10 * (x.conn.age - x.conn.tenure) >= 2 * limit - 10

\* The limit is learned: whatever other faults came first, a middlebox that
\* keeps cutting at one age is recognised.
LimitLearned == <>(detected > 0)

\* What is learned comes from evidence: with a limit of L and no more than
\* MaxFaults other disconnects, fewer than minSamplesToDetect of them cannot
\* make the detector believe an age no middlebox cut lies close to.
NoPhantomLimit ==
    faults < minSamplesToDetect /\ detected > 0 => limit - detected <= Tolerance

\* docs/ARCHITECTURE.md:172: with the limit known, rotation is early enough for the
\* primary never to be cut.
RotationIsEarly == \A x \in cut : x.det # limit
=============================================================================
