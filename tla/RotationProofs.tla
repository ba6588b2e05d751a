--------------------------- MODULE RotationProofs ---------------------------
(***************************************************************************)
(* The timeout detector and the planned rotation for every limit, every    *)
(* number of connections, every tolerance and every number of faults.      *)
(***************************************************************************)
EXTENDS Rotation, Lemmas, SequenceTheorems, TLAPS

ConnState == [role : {"primary", "standby"}, age : Nat, tenure : Nat, alive : BOOLEAN]

\* A list of connections whose ages are below the limit and never grow along
\* the list, and of which only the first can be the primary.
Orderly(cs) ==
    /\ cs \in Seq(ConnState)
    /\ Len(cs) <= MaxTotal
    /\ \A i \in 1..Len(cs) : cs[i].age < limit /\ cs[i].tenure <= cs[i].age
    /\ \A i, j \in 1..Len(cs) : i <= j => cs[j].age <= cs[i].age
    /\ \A i \in 1..Len(cs) : i # 1 => cs[i].role = "standby"

\* The samples that are not the middlebox's limit.
OtherAges(s) == {i \in DOMAIN s : s[i] # limit}

Dead == {i \in DOMAIN conns : ~conns[i].alive}

Types ==
    /\ limit \in Limits
    /\ Orderly(conns) /\ Len(conns) = MaxTotal
    /\ samples \in Seq(MinAge..limit) /\ Len(samples) <= maxSamples
    /\ detected \in 0..limit
    /\ faults \in 0..MaxFaults

\* Every dead connection and every sample off the limit is a fault's.
Counted == Cardinality(OtherAges(samples)) + Cardinality(Dead) <= faults

\* A primary is not kept past the rotation interval while a standby is left
\* to take over.
InTime ==
    faults < MaxTotal - 1 /\ conns[1].role = "primary" => ~PastRotation(conns[1].tenure, detected)

IInv == Types /\ Counted /\ InTime /\ NoPhantomLimit /\ CutOnlyOldStandby

-----------------------------------------------------------------------------
(* Lists of connections.                                                   *)

LEMMA Constants ==
    /\ MaxTotal \in Nat /\ MaxTotal >= 1 /\ Tolerance \in Nat /\ MinAge \in Nat /\ MaxFaults \in Nat
    /\ Limits \subseteq Nat /\ \A x \in Limits : x >= 1
  BY RotationAssumption

\* The first connection with a role has that role.
LEMMA FirstOfIs ==
    ASSUME NEW cs \in Seq(ConnState), NEW what, IndexOf(cs, what) # {}
    PROVE  /\ FirstOf(cs, what) \in 1..Len(cs)
           /\ cs[FirstOf(cs, what)].role = what
           /\ \A i \in 1..Len(cs) : cs[i].role = what => FirstOf(cs, what) <= i
<1>. DEFINE S == IndexOf(cs, what)
<1>1. S \in SUBSET Nat /\ DOMAIN cs = 1..Len(cs)
  BY DEF IndexOf
<1>2. \E i \in S : \A j \in S : i <= j
  BY <1>1, LeastNatural
<1>3. FirstOf(cs, what) \in S /\ \A j \in S : FirstOf(cs, what) <= j
  BY <1>2 DEF FirstOf
<1>. QED  BY <1>1, <1>3 DEF IndexOf

\* A listing of positions is increasing and has as many entries as positions.
LEMMA ListingsAre ==
    ASSUME NEW n \in Nat, NEW S \in SUBSET (1..n), NEW s \in Listings(S)
    PROVE  /\ s \in Seq(1..n) /\ Len(s) = Cardinality(S) /\ Len(s) <= n
           /\ \A i \in 1..Len(s) : s[i] \in S
           /\ \A i, j \in 1..Len(s) : i < j => s[i] < s[j]
<1>1. IsFiniteSet(1..n) /\ Cardinality(1..n) = n
  BY FS_Interval
<1>2. IsFiniteSet(S) /\ Cardinality(S) \in Nat /\ Cardinality(S) <= n
  BY <1>1, FS_Subset, FS_CardinalityType
<1>3. s \in [1..Cardinality(S) -> S] /\ \A i, j \in DOMAIN s : i < j => s[i] < s[j]
  BY DEF Listings
<1>4. s \in Seq(S) /\ Len(s) = Cardinality(S) /\ DOMAIN s = 1..Len(s)
  BY <1>2, <1>3
<1>5. \A i \in 1..Len(s) : s[i] \in S
  BY <1>4
<1>6. s \in Seq(1..n)
  <2>. DEFINE N == 1..n
  <2>1. S \subseteq N
    OBVIOUS
  <2>. HIDE DEF N
  <2>2. s \in [1..Cardinality(S) -> N]
    BY <1>3, <2>1
  <2>3. s \in Seq(N)
    BY <1>2, <2>2
  <2>. QED  BY <2>3 DEF N
<1>. QED  BY <1>2, <1>3, <1>4, <1>5, <1>6

\* A unit of time on one connection.
LEMMA OlderIs ==
    ASSUME NEW c \in ConnState, limit \in Nat, c.age < limit, c.tenure <= c.age
    PROVE  /\ Older(c) \in ConnState
           /\ Older(c).role = c.role
           /\ Older(c).age = c.age + 1
           /\ Older(c).tenure = IF c.role = "primary" THEN c.tenure + 1 ELSE c.tenure
           /\ Older(c).alive <=> c.alive /\ c.age + 1 < limit
           /\ Older(c).tenure <= Older(c).age /\ Older(c).age <= limit
<1>1. c.age \in Nat /\ c.tenure \in Nat /\ c.alive \in BOOLEAN
  BY DEF ConnState
<1>2. /\ Older(c).role = c.role
      /\ Older(c).age = c.age + 1
      /\ Older(c).tenure = IF c.role = "primary" THEN c.tenure + 1 ELSE c.tenure
  BY DEF Older, ConnState
<1>3. Older(c).alive = (c.alive /\ c.age + 1 < limit)
  BY DEF Older, ConnState
<1>4. Older(c).alive <=> c.alive /\ c.age + 1 < limit
  BY <1>3
<1>5. Older(c) \in ConnState
  <2>. DEFINE t == IF c.role = "primary" THEN c.tenure + 1 ELSE c.tenure
              b == c.alive /\ c.age + 1 < limit
  <2>3. t \in Nat /\ c.age + 1 \in Nat
    BY <1>1
  <2>4. b \in BOOLEAN
    OBVIOUS
  <2>5. Older(c) = [c EXCEPT !.age = c.age + 1, !.tenure = t, !.alive = b]
    BY DEF Older, ConnState
  <2>. HIDE DEF t, b
  <2>. QED  BY <2>3, <2>4, <2>5 DEF ConnState
<1>6. Older(c).tenure <= Older(c).age /\ Older(c).age <= limit
  BY <1>1, <1>2
<1>. QED  BY <1>2, <1>4, <1>5, <1>6

\* A promotion of the first connection keeps a list orderly.
LEMMA PromotedFirst ==
    ASSUME Types, NEW cs, Orderly(cs), Len(cs) >= 1
    PROVE  /\ Orderly(Promoted(cs, 1))
           /\ Len(Promoted(cs, 1)) = Len(cs)
           /\ Promoted(cs, 1)[1].role = "primary" /\ Promoted(cs, 1)[1].tenure = 0
<1>. DEFINE p == Promoted(cs, 1)
<1>1. /\ cs \in Seq(ConnState) /\ Len(cs) \in Nat /\ 1 \in 1..Len(cs) /\ DOMAIN cs = 1..Len(cs)
      /\ \A i \in 1..Len(cs) : cs[i] \in ConnState
  BY DEF Orderly
<1>a. \A i \in 1..Len(cs) : cs[i].age \in Nat
  BY <1>1 DEF ConnState
<1>. DEFINE c == [cs[1] EXCEPT !.role = "primary", !.tenure = 0]
<1>b. /\ c.role = "primary" /\ c.tenure = 0 /\ c.age = cs[1].age
      /\ c \in ConnState
  BY <1>1 DEF ConnState
<1>c. p = [cs EXCEPT ![1] = c]
  BY <1>1 DEF Promoted, ConnState
<1>. HIDE DEF c
<1>2. /\ p \in Seq(ConnState) /\ Len(p) = Len(cs)
      /\ p[1].role = "primary" /\ p[1].tenure = 0 /\ p[1].age = cs[1].age
      /\ \A i \in 1..Len(cs) : i # 1 => p[i] = cs[i]
  <2>1. p[1] = c /\ \A i \in 1..Len(cs) : i # 1 => p[i] = cs[i]
    BY <1>1, <1>c
  <2>2. p \in Seq(ConnState) /\ Len(p) = Len(cs)
    BY <1>1, <1>b, <1>c
  <2>. QED  BY <1>b, <2>1, <2>2
<1>. HIDE DEF p
<1>3. \A i \in 1..Len(p) : p[i].age = cs[i].age
  BY <1>2
<1>4. \A i \in 1..Len(p) : p[i].age < limit /\ p[i].tenure <= p[i].age
  <2>1. \A i \in 1..Len(cs) : cs[i].age < limit /\ cs[i].tenure <= cs[i].age
    BY DEF Orderly
  <2>2. 0 <= cs[1].age
    BY <1>1, <1>a
  <2>. QED  BY <1>1, <1>2, <1>3, <2>1, <2>2
<1>5. \A i, j \in 1..Len(p) : i <= j => p[j].age <= p[i].age
  BY <1>2, <1>3 DEF Orderly
<1>6. \A i \in 1..Len(p) : i # 1 => p[i].role = "standby"
  BY <1>2 DEF Orderly
<1>7. Orderly(p)
  BY <1>2, <1>4, <1>5, <1>6 DEF Orderly
<1>. QED  BY <1>2, <1>7 DEF p

\* A list without a primary gets one, if it has a connection.
LEMMA EnsuredIs ==
    ASSUME Types, NEW cs, Orderly(cs)
    PROVE  /\ Orderly(Ensured(cs)) /\ Len(Ensured(cs)) = Len(cs)
           /\ Len(cs) >= 1 =>
                /\ Ensured(cs)[1].role = "primary"
                /\ \/ cs[1].role = "primary" /\ Ensured(cs) = cs
                   \/ Ensured(cs)[1].tenure = 0
<1>1. /\ cs \in Seq(ConnState) /\ Len(cs) \in Nat /\ DOMAIN cs = 1..Len(cs)
      /\ \A i \in 1..Len(cs) : cs[i] \in ConnState
      /\ \A i \in 1..Len(cs) : i # 1 => cs[i].role = "standby"
  BY DEF Orderly
<1>2. CASE IndexOf(cs, "primary") = {} /\ IndexOf(cs, "standby") # {}
  <2>1. Len(cs) >= 1 /\ cs[1].role = "standby"
    <3>1. PICK i \in 1..Len(cs) : cs[i].role = "standby"
      BY <1>1, <1>2 DEF IndexOf
    <3>2. 1 \in 1..Len(cs) /\ cs[1] \in ConnState
      BY <1>1, <3>1
    <3>3. cs[1].role # "primary"
      BY <1>1, <1>2, <3>2 DEF IndexOf
    <3>. QED  BY <1>1, <3>2, <3>3 DEF ConnState
  <2>2. FirstOf(cs, "standby") = 1
    BY <1>1, <1>2, <2>1, FirstOfIs
  <2>3. Ensured(cs) = Promoted(cs, 1)
    BY <1>2, <2>2 DEF Ensured
  <2>. QED  BY <2>1, <2>3, PromotedFirst
<1>3. CASE ~(IndexOf(cs, "primary") = {} /\ IndexOf(cs, "standby") # {})
  <2>1. Ensured(cs) = cs
    BY <1>3 DEF Ensured
  <2>2. Len(cs) >= 1 => cs[1].role = "primary"
    <3>1. SUFFICES ASSUME Len(cs) >= 1, cs[1].role # "primary"  PROVE FALSE
      OBVIOUS
    <3>2. 1 \in 1..Len(cs) /\ cs[1] \in ConnState
      BY <1>1, <3>1
    <3>3. cs[1].role = "standby"
      BY <3>1, <3>2 DEF ConnState
    <3>4. 1 \in IndexOf(cs, "standby") /\ IndexOf(cs, "primary") = {}
      BY <1>1, <3>1, <3>2, <3>3 DEF IndexOf
    <3>. QED  BY <1>3, <3>4
  <2>. QED  BY <2>1, <2>2
<1>. QED  BY <1>2, <1>3

\* A rotation leaves a primary that is not past the interval, if there was a
\* second connection to take over.
LEMMA RotatedIs ==
    ASSUME Types, NEW cs, Orderly(cs), NEW det \in Nat, Len(cs) >= 1 => cs[1].role = "primary"
    PROVE  /\ Orderly(Rotated(cs, det))
           /\ Len(cs) >= 1 =>
                /\ Len(Rotated(cs, det)) >= 1
                /\ Rotated(cs, det)[1].role = "primary"
                /\ \/ Rotated(cs, det)[1].tenure = 0
                   \/ /\ Rotated(cs, det) = cs
                      /\ Len(cs) >= 2 => ~PastRotation(cs[1].tenure, det)
           /\ Len(cs) = 0 => Len(Rotated(cs, det)) = 0
<1>1. /\ cs \in Seq(ConnState) /\ Len(cs) \in Nat /\ DOMAIN cs = 1..Len(cs)
      /\ \A i \in 1..Len(cs) : cs[i] \in ConnState
      /\ \A i \in 1..Len(cs) : i # 1 => cs[i].role = "standby"
  BY DEF Orderly
<1>. DEFINE Acts == /\ IndexOf(cs, "primary") # {} /\ IndexOf(cs, "standby") # {}
                    /\ PastRotation(cs[FirstOf(cs, "primary")].tenure, det)
<1>2. Len(cs) >= 1 => /\ 1 \in 1..Len(cs)
                      /\ IndexOf(cs, "primary") # {}
                      /\ FirstOf(cs, "primary") = 1
  <2>1. SUFFICES ASSUME Len(cs) >= 1
                 PROVE  1 \in 1..Len(cs) /\ IndexOf(cs, "primary") # {} /\ FirstOf(cs, "primary") = 1
    OBVIOUS
  <2>2. 1 \in 1..Len(cs) /\ cs[1].role = "primary"
    BY <1>1, <2>1
  <2>3. IndexOf(cs, "primary") # {}
    BY <1>1, <2>2 DEF IndexOf
  <2>. QED  BY <1>1, <2>2, <2>3, FirstOfIs
<1>3. CASE Acts
  <2>1. Len(cs) >= 1
    BY <1>1, <1>3 DEF IndexOf
  <2>2. IndexOf(cs, "standby") # {}
    BY <1>3
  <2>3. /\ FirstOf(cs, "standby") \in 1..Len(cs)
        /\ cs[FirstOf(cs, "standby")].role = "standby"
        /\ \A i \in 1..Len(cs) : cs[i].role = "standby" => FirstOf(cs, "standby") <= i
    BY <1>1, <2>2, FirstOfIs
  <2>4. FirstOf(cs, "standby") # 1
    BY <2>1, <2>3
  <2>5. Len(cs) >= 2 /\ cs[2].role = "standby"
    BY <1>1, <2>3, <2>4
  <2>6. FirstOf(cs, "standby") = 2
    BY <1>1, <2>3, <2>4, <2>5
  <2>. DEFINE n == Promoted(cs, 2)
              r == SubSeq(n, 2, Len(n))
  <2>7. /\ n \in Seq(ConnState) /\ Len(n) = Len(cs)
        /\ n[2].role = "primary" /\ n[2].tenure = 0 /\ n[2].age = cs[2].age
        /\ \A i \in 1..Len(cs) : i # 2 => n[i] = cs[i]
    <3>. DEFINE c == [cs[2] EXCEPT !.role = "primary", !.tenure = 0]
    <3>1. 2 \in 1..Len(cs) /\ cs[2] \in ConnState
      BY <1>1, <2>5
    <3>2. c.role = "primary" /\ c.tenure = 0 /\ c.age = cs[2].age /\ c \in ConnState
      BY <3>1 DEF ConnState
    <3>3. n = [cs EXCEPT ![2] = c]
      BY <1>1, <3>1 DEF Promoted, ConnState
    <3>. HIDE DEF c, n
    <3>4. n[2] = c /\ \A i \in 1..Len(cs) : i # 2 => n[i] = cs[i]
      BY <1>1, <3>1, <3>3
    <3>5. DOMAIN n = 1..Len(cs) /\ \A i \in 1..Len(cs) : n[i] \in ConnState
      BY <1>1, <3>2, <3>3, <3>4
    <3>6. n \in [1..Len(cs) -> ConnState]
      BY <1>1, <3>3, <3>5
    <3>7. n \in Seq(ConnState) /\ Len(n) = Len(cs)
      BY <1>1, <3>6
    <3>. QED  BY <3>2, <3>4, <3>7
  <2>8. Rotated(cs, det) = SubSeq(n, 1, 0) \o r
    <3>1. Rotated(cs, det) = RemoveAt(n, 1)
      BY <1>2, <1>3, <2>1, <2>6 DEF Rotated
    <3>. QED  BY <3>1 DEF RemoveAt
  <2>. HIDE DEF n
  <2>9. /\ r \in Seq(ConnState) /\ Len(r) = Len(cs) - 1
        /\ \A i \in 1..Len(r) : r[i] = n[i + 1]
    BY <1>1, <2>5, <2>7
  <2>10. Rotated(cs, det) = r
    <3>1. SubSeq(n, 1, 0) = <<>>
      BY <2>7
    <3>. HIDE DEF r
    <3>. QED  BY <2>8, <2>9, <3>1
  <2>. HIDE DEF r
  <2>11. Orderly(r)
    <3>1. \A i \in 1..Len(r) : i + 1 \in 1..Len(cs) /\ r[i].age = cs[i + 1].age
      BY <1>1, <2>5, <2>7, <2>9
    <3>2. \A i \in 1..Len(r) : r[i].age < limit
      BY <3>1 DEF Orderly
    <3>3. \A i \in 1..Len(r) : r[i].tenure <= r[i].age
      <4>1. \A i \in 1..Len(r) : i # 1 => r[i] = cs[i + 1]
        BY <1>1, <2>5, <2>7, <2>9
      <4>2. \A i \in 1..Len(r) : i # 1 => r[i].tenure <= r[i].age
        BY <3>1, <4>1 DEF Orderly
      <4>3. r[1].tenure = 0 /\ r[1].age = cs[2].age /\ cs[2].age \in Nat
        <5>1. r[1] = n[2] /\ cs[2] \in ConnState
          BY <1>1, <2>5, <2>9
        <5>. QED  BY <2>7, <5>1 DEF ConnState
      <4>. QED  BY <4>2, <4>3
    <3>4. \A i, j \in 1..Len(r) : i <= j => r[j].age <= r[i].age
      <4>1. \A i, j \in 1..Len(cs) : i <= j => cs[j].age <= cs[i].age
        BY DEF Orderly
      <4>. QED  BY <1>1, <2>9, <3>1, <4>1
    <3>5. \A i \in 1..Len(r) : i # 1 => r[i].role = "standby"
      BY <1>1, <2>5, <2>7, <2>9
    <3>6. Len(r) <= MaxTotal
      BY <1>1, <2>9, Constants DEF Orderly
    <3>. QED  BY <2>9, <3>2, <3>3, <3>4, <3>5, <3>6 DEF Orderly
  <2>12. r[1].role = "primary" /\ r[1].tenure = 0 /\ Len(r) >= 1
    BY <1>1, <2>5, <2>7, <2>9
  <2>. QED  BY <1>1, <2>1, <2>10, <2>11, <2>12
<1>4. CASE ~Acts
  <2>1. Rotated(cs, det) = cs
    BY <1>4 DEF Rotated
  <2>2. ASSUME Len(cs) >= 2  PROVE ~PastRotation(cs[1].tenure, det)
    <3>1. 2 \in 1..Len(cs) /\ cs[2].role = "standby"
      BY <1>1, <2>2
    <3>2. IndexOf(cs, "standby") # {}
      BY <1>1, <3>1 DEF IndexOf
    <3>. QED  BY <1>1, <1>2, <1>4, <2>2, <3>2
  <2>. QED  BY <2>1, <2>2
<1>. QED  BY <1>3, <1>4

\* New standbys are the youngest of the list.
LEMMA RefilledIs ==
    ASSUME NEW cs, Orderly(cs), limit \in Nat, limit >= 1
    PROVE  /\ Orderly(Refilled(cs)) /\ Len(Refilled(cs)) = MaxTotal
           /\ \A i \in 1..MaxTotal : Refilled(cs)[i] = IF i <= Len(cs) THEN cs[i] ELSE Standby
<1>. DEFINE m == MaxTotal - Len(cs)
            new == [i \in 1..m |-> Standby]
            all == Refilled(cs)
<1>1. /\ cs \in Seq(ConnState) /\ Len(cs) \in Nat /\ Len(cs) <= MaxTotal /\ MaxTotal \in Nat
      /\ \A i \in 1..Len(cs) : cs[i] \in ConnState
  BY Constants DEF Orderly
<1>2. m \in Nat
  BY <1>1
<1>3. /\ Standby \in ConnState /\ Standby.role = "standby" /\ Standby.age = 0
      /\ Standby.tenure = 0
  BY DEF Standby, ConnState
<1>4. new \in Seq(ConnState) /\ Len(new) = m /\ \A i \in 1..m : new[i] = Standby
  BY <1>2, <1>3
<1>5. all = cs \o new
  BY DEF Refilled
<1>. HIDE DEF new
<1>6. /\ all \in Seq(ConnState) /\ Len(all) = MaxTotal
      /\ \A i \in 1..MaxTotal : all[i] = IF i <= Len(cs) THEN cs[i] ELSE Standby
  BY <1>1, <1>2, <1>4, <1>5
<1>. HIDE DEF all, m
<1>7. \A i \in 1..Len(cs) : cs[i].age \in Nat
  BY <1>1 DEF ConnState
<1>8. \A i \in 1..MaxTotal : all[i].age < limit /\ all[i].tenure <= all[i].age
  <2>1. \A i \in 1..Len(cs) : cs[i].age < limit /\ cs[i].tenure <= cs[i].age
    BY DEF Orderly
  <2>. QED  BY <1>1, <1>3, <1>6, <2>1
<1>9. \A i, j \in 1..MaxTotal : i <= j => all[j].age <= all[i].age
  <2>1. \A i, j \in 1..Len(cs) : i <= j => cs[j].age <= cs[i].age
    BY DEF Orderly
  <2>. QED  BY <1>1, <1>3, <1>6, <1>7, <2>1
<1>10. \A i \in 1..MaxTotal : i # 1 => all[i].role = "standby"
  <2>1. \A i \in 1..Len(cs) : i # 1 => cs[i].role = "standby"
    BY DEF Orderly
  <2>. QED  BY <1>1, <1>3, <1>6, <2>1
<1>11. Orderly(all)
  BY <1>1, <1>6, <1>8, <1>9, <1>10 DEF Orderly
<1>. QED  BY <1>6, <1>11 DEF all

-----------------------------------------------------------------------------
(* The detector.                                                           *)

LEMMA OtherAgesAre ==
    ASSUME NEW s \in Seq(Nat)
    PROVE  /\ OtherAges(s) \subseteq 1..Len(s) /\ IsFiniteSet(OtherAges(s))
           /\ Cardinality(OtherAges(s)) \in Nat
<1>1. OtherAges(s) \subseteq 1..Len(s) /\ Len(s) \in Nat
  BY DEF OtherAges
<1>2. IsFiniteSet(1..Len(s))
  BY <1>1, FS_Interval
<1>. QED  BY <1>1, <1>2, FS_Subset, FS_CardinalityType

\* A part of some samples has no more of them off the limit.
LEMMA OtherAgesOfPart ==
    ASSUME NEW s \in Seq(Nat), NEW m \in Nat, NEW n \in Nat, 1 <= m, n <= Len(s)
    PROVE  Cardinality(OtherAges(SubSeq(s, m, n))) <= Cardinality(OtherAges(s))
<1>. DEFINE t == SubSeq(s, m, n)
            f == [i \in OtherAges(t) |-> i + m - 1]
<1>1. /\ t \in Seq(Nat) /\ Len(s) \in Nat
      /\ \A i \in 1..Len(t) : i + m - 1 \in 1..Len(s) /\ t[i] = s[i + m - 1]
  OBVIOUS
<1>. HIDE DEF t
<1>2. OtherAges(t) \subseteq 1..Len(t) /\ IsFiniteSet(OtherAges(s)) /\ Len(t) \in Nat
  BY <1>1, OtherAgesAre
<1>3. \A i \in OtherAges(t) : i + m - 1 \in OtherAges(s)
  <2>1. \A i \in OtherAges(t) : t[i] # limit
    BY DEF OtherAges
  <2>. QED  BY <1>1, <1>2, <2>1 DEF OtherAges
<1>4. f \in Injection(OtherAges(t), OtherAges(s))
  <2>1. f \in [OtherAges(t) -> OtherAges(s)]
    BY <1>3
  <2>2. \A a, b \in OtherAges(t) : f[a] = f[b] => a = b
    BY <1>2
  <2>. HIDE DEF f
  <2>. QED  BY <2>1, <2>2 DEF Injection, IsInjective
<1>. HIDE DEF f
<1>. QED  BY <1>2, <1>4, FS_Injection DEF t

\* Samples recorded one after the other: those off the limit add up.
LEMMA OtherAgesOfBoth ==
    ASSUME NEW s \in Seq(Nat), NEW t \in Seq(Nat)
    PROVE  Cardinality(OtherAges(s \o t)) <= Cardinality(OtherAges(s)) + Cardinality(OtherAges(t))
<1>. DEFINE n == Len(s)
            u == s \o t
            low == OtherAges(u) \cap (1..n)
            high == OtherAges(u) \ (1..n)
<1>1. /\ u \in Seq(Nat) /\ n \in Nat /\ Len(t) \in Nat /\ Len(u) = n + Len(t)
      /\ \A i \in 1..n : u[i] = s[i]
      /\ \A i \in 1..Len(t) : u[n + i] = t[i]
  OBVIOUS
<1>. HIDE DEF u
<1>2. /\ OtherAges(u) \subseteq 1..Len(u) /\ IsFiniteSet(OtherAges(u))
      /\ \A i \in OtherAges(u) : u[i] # limit
  BY <1>1, OtherAgesAre DEF OtherAges
<1>3. low \subseteq OtherAges(s)
  BY <1>1, <1>2 DEF OtherAges
<1>4. Cardinality(low) <= Cardinality(OtherAges(s)) /\ IsFiniteSet(low)
  BY <1>3, OtherAgesAre, FS_Subset
<1>5. Cardinality(high) <= Cardinality(OtherAges(t)) /\ IsFiniteSet(high)
  <2>1. \A i \in high : i \in (n + 1)..Len(u) /\ u[i] # limit
    BY <1>1, <1>2
  <2>2. \A i \in high : i - n \in 1..Len(t) /\ i = n + (i - n) /\ i \in Int
    <3>. HIDE DEF high, n
    <3>1. n \in Nat /\ Len(t) \in Nat /\ Len(u) = n + Len(t)
      BY <1>1
    <3>. SUFFICES ASSUME NEW i \in high
                  PROVE  i - n \in 1..Len(t) /\ i = n + (i - n) /\ i \in Int
      OBVIOUS
    <3>2. i \in (n + 1)..(n + Len(t))
      BY <2>1, <3>1
    <3>3. i \in Int /\ n + 1 <= i /\ i <= n + Len(t)
      BY <3>1, <3>2
    <3>. QED  BY <3>1, <3>3
  <2>3. \A i \in high : t[i - n] # limit
    BY <1>1, <2>1, <2>2
  <2>4. \A i \in high : i - n \in OtherAges(t)
    BY <2>2, <2>3 DEF OtherAges
  <2>. HIDE DEF high
  <2>5. [i \in high |-> i - n] \in Injection(high, OtherAges(t))
    <3>. DEFINE g == [i \in high |-> i - n]
    <3>1. g \in [high -> OtherAges(t)]
      BY <2>4
    <3>2. \A a, b \in high : g[a] = g[b] => a = b
      BY <1>1, <2>2
    <3>. HIDE DEF g
    <3>3. g \in Injection(high, OtherAges(t))
      BY <3>1, <3>2 DEF Injection, IsInjective
    <3>. QED  BY <3>3 DEF g
  <2>6. IsFiniteSet(OtherAges(t))
    BY OtherAgesAre
  <2>7. Cardinality(high) <= Cardinality(OtherAges(t))
    BY <2>5, <2>6, FS_Injection
  <2>8. high \subseteq OtherAges(u)
    BY DEF high
  <2>. QED  BY <1>2, <2>7, <2>8, FS_Subset
<1>6. OtherAges(u) = low \cup high /\ low \cap high = {}
  OBVIOUS
<1>7. Cardinality(OtherAges(u)) = Cardinality(low) + Cardinality(high)
  <2>. HIDE DEF low, high
  <2>1. Cardinality(low \cap high) = 0
    BY <1>6, FS_EmptySet
  <2>2. Cardinality(low) \in Nat /\ Cardinality(high) \in Nat
    BY <1>4, <1>5, FS_CardinalityType
  <2>3. /\ Cardinality(low \cup high)
              = Cardinality(low) + Cardinality(high) - Cardinality(low \cap high)
    BY <1>4, <1>5, FS_Union
  <2>. QED  BY <1>6, <2>1, <2>2, <2>3
<1>8. /\ Cardinality(low) \in Nat /\ Cardinality(high) \in Nat
      /\ Cardinality(OtherAges(s)) \in Nat /\ Cardinality(OtherAges(t)) \in Nat
  BY <1>4, <1>5, OtherAgesAre, FS_CardinalityType
<1>. HIDE DEF low, high
<1>9. Cardinality(OtherAges(u)) <= Cardinality(OtherAges(s)) + Cardinality(OtherAges(t))
  BY <1>4, <1>5, <1>7, <1>8
<1>. QED  BY <1>9 DEF u

\* Some samples have a smallest one.
LEMMA SmallestIs ==
    ASSUME NEW s \in Seq(Nat), Len(s) >= 1
    PROVE  SmallestOf(s) \in Range(s) /\ \A x \in Range(s) : SmallestOf(s) <= x
<1>1. Range(s) \in SUBSET Nat
  BY DEF Range
<1>2. s[1] \in Range(s)
  BY DEF Range
<1>3. \E x \in Range(s) : \A y \in Range(s) : x <= y
  BY <1>1, <1>2, LeastNatural
<1>. QED  BY <1>3 DEF SmallestOf

\* Fewer samples off the limit than tryDetect asks for convince it only of an
\* age near the limit.
LEMMA NearTheLimit ==
    ASSUME NEW s \in Seq(Nat), limit \in Nat, Convincing(s),
           Cardinality(OtherAges(s)) < minSamplesToDetect
    PROVE  limit - SmallestOf(s) <= Tolerance
<1>. DEFINE x == SmallestOf(s)
            near == {i \in DOMAIN s : s[i] - x \in (-Tolerance)..Tolerance}
<1>1. x \in Nat
  <2>1. Len(s) >= 1 /\ Range(s) \subseteq Nat
    BY DEF Convincing, minSamplesToDetect, Range
  <2>. QED  BY <2>1, SmallestIs
<1>2. Cardinality(near) >= 3
  BY DEF Convincing, Within, minSamplesToDetect
<1>3. ~(near \subseteq OtherAges(s))
  <2>. HIDE DEF near
  <2>1. ASSUME near \subseteq OtherAges(s)
        PROVE  Cardinality(near) <= Cardinality(OtherAges(s)) /\ Cardinality(near) \in Nat
    BY <2>1, OtherAgesAre, FS_Subset, FS_CardinalityType
  <2>. QED  BY <1>2, <2>1, OtherAgesAre DEF minSamplesToDetect
<1>4. PICK i \in near : s[i] = limit
  BY <1>3 DEF OtherAges
<1>5. limit - x \in (-Tolerance)..Tolerance
  BY <1>4
<1>. QED  BY <1>1, <1>5, Constants

LEMMA RangeOf ==
    ASSUME NEW A, NEW s \in Seq(A)
    PROVE  Range(s) \subseteq A
  BY DEF Range

LEMMA SeqOfMore ==
    ASSUME NEW A, NEW B, A \subseteq B, NEW s \in Seq(A)
    PROVE  s \in Seq(B)
<1>1. Len(s) \in Nat /\ s \in [1..Len(s) -> A]
  OBVIOUS
<1>2. s \in [1..Len(s) -> B]
  BY <1>1
<1>. QED  BY <1>1, <1>2

\* The samples after some disconnects: no more of them are off the limit than
\* of the earlier samples and the new ages together.
LEMMA WindowIs ==
    ASSUME Types, NEW ages \in Seq(MinAge..limit), NEW k \in 0..Len(ages)
    PROVE  /\ Window(ages, k) \in Seq(MinAge..limit)
           /\ Len(Window(ages, k)) <= maxSamples
           /\ Cardinality(OtherAges(Window(ages, k)))
                <= Cardinality(OtherAges(samples)) + Cardinality(OtherAges(ages))
<1>. DEFINE A == MinAge..limit
            first == SubSeq(ages, 1, k)
            s == samples \o first
            m == Len(s) - maxSamples + 1
<1>1. A \subseteq Nat /\ samples \in Seq(A) /\ ages \in Seq(A) /\ Len(ages) \in Nat /\ k \in Nat
  BY Constants DEF Types
<1>. HIDE DEF A
<1>2. first \in Seq(A) /\ Len(first) = k
  BY <1>1
<1>. HIDE DEF first
<1>3. s \in Seq(A) /\ Len(s) \in Nat
  BY <1>1, <1>2
<1>4. /\ samples \in Seq(Nat) /\ ages \in Seq(Nat) /\ first \in Seq(Nat) /\ s \in Seq(Nat)
  BY <1>1, <1>2, <1>3, SeqOfMore
<1>5. /\ Cardinality(OtherAges(first)) <= Cardinality(OtherAges(ages))
      /\ Cardinality(OtherAges(s)) <= Cardinality(OtherAges(samples)) + Cardinality(OtherAges(first))
      /\ Cardinality(OtherAges(first)) \in Nat /\ Cardinality(OtherAges(ages)) \in Nat
      /\ Cardinality(OtherAges(samples)) \in Nat /\ Cardinality(OtherAges(s)) \in Nat
  <2>1. Cardinality(OtherAges(first)) <= Cardinality(OtherAges(ages))
    BY <1>1, <1>4, OtherAgesOfPart DEF first
  <2>. QED  BY <1>4, <2>1, OtherAgesOfBoth, OtherAgesAre
<1>6. Window(ages, k) = LastFew(s)
  BY DEF Window, first
<1>. HIDE DEF s
<1>7. CASE Len(s) > maxSamples
  <2>1. LastFew(s) = SubSeq(s, m, Len(s)) /\ m \in Nat /\ 1 <= m /\ m <= Len(s)
    BY <1>3, <1>7 DEF LastFew, maxSamples
  <2>2. SubSeq(s, m, Len(s)) \in Seq(A) /\ Len(SubSeq(s, m, Len(s))) = Len(s) - m + 1
    BY <1>3, <2>1
  <2>3. Cardinality(OtherAges(SubSeq(s, m, Len(s)))) <= Cardinality(OtherAges(s))
    BY <1>3, <1>4, <2>1, OtherAgesOfPart
  <2>4. SubSeq(s, m, Len(s)) \in Seq(Nat)
    BY <1>1, <2>2, SeqOfMore
  <2>5. Cardinality(OtherAges(SubSeq(s, m, Len(s)))) \in Nat
    BY <2>4, OtherAgesAre
  <2>6. Len(LastFew(s)) <= maxSamples
    BY <1>3, <2>1, <2>2 DEF maxSamples
  <2>7. Cardinality(OtherAges(LastFew(s)))
          <= Cardinality(OtherAges(samples)) + Cardinality(OtherAges(ages))
    <3>. HIDE DEF m
    <3>. QED  BY <1>5, <2>1, <2>3, <2>5
  <2>. QED  BY <1>6, <2>1, <2>2, <2>6, <2>7 DEF A
<1>8. CASE ~(Len(s) > maxSamples)
  <2>1. LastFew(s) = s
    BY <1>8 DEF LastFew
  <2>. QED  BY <1>3, <1>5, <1>6, <1>8, <2>1 DEF A, maxSamples
<1>. QED  BY <1>7, <1>8

\* Some numbers up to n have a greatest one.
LEMMA GreatestUpTo ==
    ASSUME NEW n \in Nat, NEW S \in SUBSET (1..n), S # {}
    PROVE  \E k \in S : \A j \in S : j <= k
<1>. DEFINE T == {n - j : j \in S}
<1>0. \A j \in S : j \in Nat /\ j <= n
  OBVIOUS
<1>1. T \in SUBSET Nat /\ T # {}
  <2>1. \A j \in S : n - j \in Nat
    BY <1>0
  <2>. QED  BY <2>1
<1>2. PICK t \in T : \A x \in T : t <= x
  BY <1>1, LeastNatural
<1>3. PICK k \in S : t = n - k
  BY <1>2
<1>4. \A j \in S : n - k <= n - j
  BY <1>2, <1>3
<1>5. \A j \in S : j <= k
  BY <1>0, <1>4
<1>. QED  BY <1>5

\* What is detected is what was, or the smallest of some convincing samples.
LEMMA DetectedIs ==
    ASSUME Types, NEW ages \in Seq(MinAge..limit)
    PROVE  \/ Detected(ages) = detected
           \/ \E k \in 1..Len(ages) : /\ Convincing(Window(ages, k))
                                      /\ Detected(ages) = SmallestOf(Window(ages, k))
<1>. DEFINE good == {k \in DOMAIN ages : Convincing(Window(ages, k))}
            last == CHOOSE k \in good : \A j \in good : j <= k
<1>1. good \subseteq 1..Len(ages) /\ Len(ages) \in Nat
  OBVIOUS
<1>2. Detected(ages) = IF good = {} THEN detected ELSE SmallestOf(Window(ages, last))
  BY DEF Detected
<1>3. ASSUME good # {}  PROVE last \in good
  <2>. HIDE DEF good
  <2>1. \E k \in good : \A j \in good : j <= k
    BY <1>1, <1>3, GreatestUpTo
  <2>. QED  BY <2>1
<1>4. ASSUME good # {}
      PROVE  /\ last \in 1..Len(ages) /\ Convincing(Window(ages, last))
             /\ Detected(ages) = SmallestOf(Window(ages, last))
  <2>1. last \in good
    BY <1>3, <1>4
  <2>. HIDE DEF last
  <2>2. Convincing(Window(ages, last))
    BY <2>1
  <2>. QED  BY <1>1, <1>2, <1>4, <2>1, <2>2 DEF last
<1>. HIDE DEF last
<1>. QED  BY <1>2, <1>4

-----------------------------------------------------------------------------
(* What is alive.                                                          *)

AllAlive(cs) == \A i \in 1..Len(cs) : cs[i].alive

LEMMA PromotedAlive ==
    ASSUME NEW cs \in Seq(ConnState), NEW i \in 1..Len(cs), AllAlive(cs)
    PROVE  /\ AllAlive(Promoted(cs, i)) /\ Promoted(cs, i) \in Seq(ConnState)
           /\ Len(Promoted(cs, i)) = Len(cs)
<1>. DEFINE c == [cs[i] EXCEPT !.role = "primary", !.tenure = 0]
            p == Promoted(cs, i)
<1>1. cs[i] \in ConnState /\ Len(cs) \in Nat /\ DOMAIN cs = 1..Len(cs)
  OBVIOUS
<1>2. c \in ConnState
  BY <1>1 DEF ConnState
<1>3. c.alive = cs[i].alive
  BY <1>1 DEF ConnState
<1>4. p = [cs EXCEPT ![i] = c]
  BY <1>1 DEF Promoted, ConnState
<1>. HIDE DEF c, p
<1>5. p[i] = c /\ \A j \in 1..Len(cs) : j # i => p[j] = cs[j]
  BY <1>1, <1>4
<1>6. DOMAIN p = 1..Len(cs) /\ \A j \in 1..Len(cs) : p[j] \in ConnState
  BY <1>1, <1>2, <1>4, <1>5
<1>7. p \in [1..Len(cs) -> ConnState]
  BY <1>1, <1>4, <1>6
<1>8. p \in Seq(ConnState) /\ Len(p) = Len(cs)
  BY <1>1, <1>7
<1>9. AllAlive(p)
  BY <1>3, <1>5, <1>8 DEF AllAlive
<1>. QED  BY <1>8, <1>9 DEF p

\* Promotion, rotation and new standbys bring no dead connection.
LEMMA StaysAlive ==
    ASSUME NEW cs \in Seq(ConnState), AllAlive(cs), NEW det
    PROVE  /\ AllAlive(Ensured(cs)) /\ Ensured(cs) \in Seq(ConnState)
           /\ AllAlive(Rotated(cs, det)) /\ Rotated(cs, det) \in Seq(ConnState)
           /\ Len(cs) <= MaxTotal => AllAlive(Refilled(cs))
<1>1. AllAlive(Ensured(cs)) /\ Ensured(cs) \in Seq(ConnState)
  BY FirstOfIs, PromotedAlive DEF Ensured
<1>2. AllAlive(Rotated(cs, det)) /\ Rotated(cs, det) \in Seq(ConnState)
  <2>. DEFINE p == FirstOf(cs, "primary")
              q == FirstOf(cs, "standby")
              n == Promoted(cs, q)
              a == SubSeq(n, 1, p - 1)
              b == SubSeq(n, p + 1, Len(n))
  <2>1. SUFFICES ASSUME IndexOf(cs, "primary") # {}, IndexOf(cs, "standby") # {},
                        Rotated(cs, det) = a \o b
                 PROVE  AllAlive(Rotated(cs, det)) /\ Rotated(cs, det) \in Seq(ConnState)
    BY DEF Rotated, RemoveAt
  <2>2. p \in 1..Len(cs) /\ q \in 1..Len(cs)
    BY <2>1, FirstOfIs
  <2>3. AllAlive(n) /\ n \in Seq(ConnState) /\ Len(n) = Len(cs)
    BY <2>2, PromotedAlive
  <2>. HIDE DEF p, q, n
  <2>4. /\ a \in Seq(ConnState) /\ Len(a) = p - 1 /\ \A i \in 1..Len(a) : a[i] = n[i]
        /\ b \in Seq(ConnState) /\ Len(b) = Len(n) - p /\ \A i \in 1..Len(b) : b[i] = n[p + i]
    <3>1. p \in Nat /\ 1 <= p /\ p <= Len(n) /\ Len(n) \in Nat
      BY <2>2, <2>3
    <3>2. a \in Seq(ConnState) /\ Len(a) = p - 1 /\ \A i \in 1..Len(a) : a[i] = n[i]
      BY <2>3, <3>1
    <3>3. b \in Seq(ConnState) /\ Len(b) = Len(n) - p
      BY <2>3, <3>1
    <3>4. \A i \in 1..Len(n) - p : b[i] = n[p + i]
      BY <2>3, <3>1
    <3>. QED  BY <3>2, <3>3, <3>4
  <2>. HIDE DEF a, b
  <2>5. AllAlive(a) /\ AllAlive(b)
    <3>1. \A i \in 1..Len(a) : i \in 1..Len(n)
      BY <2>2, <2>3, <2>4
    <3>2. \A i \in 1..Len(b) : p + i \in 1..Len(n)
      BY <2>2, <2>3, <2>4
    <3>. QED  BY <2>3, <2>4, <3>1, <3>2 DEF AllAlive
  <2>b. a \in Seq(ConnState) /\ b \in Seq(ConnState)
    BY <2>4
  <2>6. a \o b \in Seq(ConnState)
    BY <2>b
  <2>a. Len(a \o b) = Len(a) + Len(b) /\ Len(a) \in Nat /\ Len(b) \in Nat
    BY <2>b
  <2>7. \A i \in 1..(Len(a) + Len(b)) :
          (a \o b)[i] = IF i <= Len(a) THEN a[i] ELSE b[i - Len(a)]
    BY <2>b
  <2>8. \A i \in 1..Len(a \o b) :
          \/ i \in 1..Len(a) /\ i <= Len(a)
          \/ i - Len(a) \in 1..Len(b) /\ ~(i <= Len(a))
    BY <2>a
  <2>9. AllAlive(a \o b)
    BY <2>a, <2>5, <2>7, <2>8 DEF AllAlive
  <2>. QED  BY <2>1, <2>6, <2>9
<1>3. ASSUME Len(cs) <= MaxTotal  PROVE AllAlive(Refilled(cs))
  <2>. DEFINE m == MaxTotal - Len(cs)
              new == [i \in 1..m |-> Standby]
  <2>1. m \in Nat /\ Len(cs) \in Nat
    BY <1>3, Constants
  <2>2. Standby \in ConnState /\ Standby.alive
    BY DEF Standby, ConnState
  <2>3. new \in Seq(ConnState) /\ Len(new) = m /\ \A i \in 1..m : new[i] = Standby
    BY <2>1, <2>2
  <2>. HIDE DEF new
  <2>4. Refilled(cs) = cs \o new
    BY DEF Refilled, new
  <2>5. \A i \in 1..Len(cs \o new) :
          \/ i \in 1..Len(cs) /\ (cs \o new)[i] = cs[i]
          \/ i - Len(cs) \in 1..m /\ (cs \o new)[i] = new[i - Len(cs)]
    <3>. HIDE DEF m
    <3>. QED  BY <2>1, <2>3
  <2>. QED  BY <2>2, <2>3, <2>4, <2>5 DEF AllAlive
<1>. QED  BY <1>1, <1>2, <1>3

-----------------------------------------------------------------------------
(* Every step keeps the invariant.                                         *)

LEMMA DeadAre ==
    ASSUME Types
    PROVE  /\ Dead \subseteq 1..MaxTotal /\ IsFiniteSet(Dead) /\ Cardinality(Dead) \in Nat
           /\ \A i \in 1..MaxTotal : i \in Dead <=> ~conns[i].alive
<1>1. DOMAIN conns = 1..MaxTotal
  BY DEF Types, Orderly
<1>2. IsFiniteSet(1..MaxTotal)
  BY FS_Interval, Constants
<1>3. Dead \subseteq 1..MaxTotal
  BY <1>1 DEF Dead
<1>. QED  BY <1>1, <1>2, <1>3, FS_Subset, FS_CardinalityType DEF Dead

LEMMA SamplesAre ==
    ASSUME Types
    PROVE  samples \in Seq(Nat) /\ Cardinality(OtherAges(samples)) \in Nat
<1>1. MinAge..limit \subseteq Nat /\ samples \in Seq(MinAge..limit)
  BY Constants DEF Types
<1>2. samples \in Seq(Nat)
  BY <1>1, SeqOfMore
<1>. QED  BY <1>2, OtherAgesAre

LEMMA InitInv == Init => IInv
<1>. SUFFICES ASSUME Init  PROVE IInv
  OBVIOUS
<1>. DEFINE c == [Standby EXCEPT !.role = "primary"]
            one == <<c>>
<1>1. limit \in Limits /\ limit \in Nat /\ limit >= 1
  BY Constants DEF Init
<1>2. c \in ConnState /\ c.age = 0 /\ c.tenure = 0 /\ c.alive
  BY DEF Standby, ConnState
<1>. HIDE DEF c
<1>3. one \in Seq(ConnState) /\ Len(one) = 1 /\ one[1] = c
  BY <1>2
<1>4. conns = Refilled(one)
  BY DEF Init, c
<1>. HIDE DEF one
<1>5. Orderly(one)
  <2>1. \A i \in 1..Len(one) : i = 1 /\ one[i].age = 0 /\ one[i].tenure = 0
    BY <1>2, <1>3
  <2>. QED  BY <1>1, <1>3, <2>1, Constants DEF Orderly
<1>6. Orderly(conns) /\ Len(conns) = MaxTotal /\ conns[1] = c
  BY <1>1, <1>3, <1>4, <1>5, RefilledIs, Constants
<1>7. Types
  <2>1. samples \in Seq(MinAge..limit) /\ Len(samples) <= maxSamples
    BY DEF Init, maxSamples
  <2>2. detected \in 0..limit /\ faults \in 0..MaxFaults
    BY <1>1, Constants DEF Init
  <2>. QED  BY <1>1, <1>6, <2>1, <2>2 DEF Types
<1>8. Counted
  <2>1. AllAlive(one)
    BY <1>2, <1>3 DEF AllAlive
  <2>2. AllAlive(conns)
    BY <1>3, <1>4, <2>1, StaysAlive, Constants
  <2>3. Dead = {}
    BY <1>6, <1>7, <2>2, DeadAre DEF AllAlive
  <2>4. OtherAges(samples) = {}
    BY DEF OtherAges, Init
  <2>. QED  BY <2>3, <2>4, FS_EmptySet DEF Counted, Init
<1>9. InTime /\ NoPhantomLimit /\ CutOnlyOldStandby
  BY DEF InTime, NoPhantomLimit, CutOnlyOldStandby, PastRotation, Init
<1>. QED  BY <1>7, <1>8, <1>9 DEF IInv

\* A connection that fails is counted with the faults.
LEMMA FaultInv ==
    ASSUME IInv, NEW i \in DOMAIN conns, Fault(i)
    PROVE  IInv'
<1>. DEFINE c == [conns[i] EXCEPT !.alive = FALSE]
<1>1. /\ Types /\ conns \in Seq(ConnState) /\ Len(conns) = MaxTotal /\ DOMAIN conns = 1..MaxTotal
      /\ conns[i] \in ConnState /\ faults \in Nat /\ MaxTotal \in Nat
  BY Constants DEF IInv, Types, Orderly
<1>2. /\ faults' = faults + 1 /\ faults < MaxFaults /\ conns[i].alive
      /\ limit' = limit /\ samples' = samples /\ detected' = detected /\ cut' = cut
  BY DEF Fault
<1>3. /\ c \in ConnState /\ c.role = conns[i].role /\ c.age = conns[i].age
      /\ c.tenure = conns[i].tenure
  BY <1>1 DEF ConnState
<1>4. conns' = [conns EXCEPT ![i] = c]
  BY <1>1 DEF Fault, ConnState
<1>5. ~c.alive
  BY <1>1 DEF ConnState
<1>. HIDE DEF c
<1>6. /\ conns'[i] = c /\ \A j \in 1..MaxTotal : j # i => conns'[j] = conns[j]
      /\ conns' \in Seq(ConnState) /\ Len(conns') = MaxTotal
  <2>1. conns'[i] = c /\ \A j \in 1..MaxTotal : j # i => conns'[j] = conns[j]
    BY <1>1, <1>4
  <2>2. DOMAIN conns' = 1..MaxTotal /\ \A j \in 1..MaxTotal : conns'[j] \in ConnState
    BY <1>1, <1>3, <1>4, <2>1
  <2>3. conns' \in [1..MaxTotal -> ConnState]
    BY <1>1, <1>4, <2>2
  <2>. QED  BY <1>1, <2>1, <2>3
<1>7. \A j \in 1..MaxTotal : /\ conns'[j].role = conns[j].role
                             /\ conns'[j].age = conns[j].age
                             /\ conns'[j].tenure = conns[j].tenure
  BY <1>3, <1>6
<1>8. Types'
  <2>1. Orderly(conns)
    BY <1>1 DEF Types
  <2>2. Orderly(conns)'
    BY <1>1, <1>2, <1>6, <1>7, <2>1 DEF Orderly
  <2>3. faults' \in 0..MaxFaults
    BY <1>1, <1>2, Constants
  <2>. QED  BY <1>1, <1>2, <1>6, <2>2, <2>3 DEF Types
<1>9. Counted'
  <2>1. Dead' = Dead \cup {i} /\ i \notin Dead
    <3>1. Dead' = {j \in 1..MaxTotal : ~conns'[j].alive}
      BY <1>6 DEF Dead
    <3>2. \A j \in 1..MaxTotal : ~conns'[j].alive <=> j = i \/ ~conns[j].alive
      BY <1>5, <1>6
    <3>3. i \in 1..MaxTotal
      BY <1>1
    <3>. QED  BY <1>1, <1>2, <3>1, <3>2, <3>3, DeadAre
  <2>2. Cardinality(Dead') = Cardinality(Dead) + 1 /\ Cardinality(Dead) \in Nat
    BY <1>1, <2>1, DeadAre, FS_AddElement
  <2>3. OtherAges(samples)' = OtherAges(samples) /\ Cardinality(OtherAges(samples)) \in Nat
    BY <1>1, <1>2, SamplesAre DEF OtherAges
  <2>4. Cardinality(OtherAges(samples)) + Cardinality(Dead) <= faults
    BY DEF IInv, Counted
  <2>5. Cardinality(OtherAges(samples)) + Cardinality(Dead') <= faults'
    BY <1>1, <1>2, <2>2, <2>3, <2>4
  <2>. QED  BY <2>3, <2>5 DEF Counted
<1>10. InTime'
  <2>1. 1 \in 1..MaxTotal
    BY Constants
  <2>2. conns'[1].role = conns[1].role /\ conns'[1].tenure = conns[1].tenure
    BY <1>7, <2>1
  <2>. QED  BY <1>1, <1>2, <2>2, Constants DEF IInv, InTime, PastRotation
<1>11. NoPhantomLimit'
  BY <1>1, <1>2 DEF IInv, NoPhantomLimit, minSamplesToDetect
<1>12. CutOnlyOldStandby'
  BY <1>1, <1>2, Constants DEF IInv, CutOnlyOldStandby
<1>. QED  BY <1>8, <1>9, <1>10, <1>11, <1>12 DEF IInv

\* The list after a unit of time, before it is pruned.
LEMMA AgedIs ==
    ASSUME IInv, NEW aged, aged = [i \in DOMAIN conns |-> Older(conns[i])]
    PROVE  /\ DOMAIN aged = 1..MaxTotal
           /\ \A i \in 1..MaxTotal :
                /\ aged[i] \in ConnState
                /\ aged[i].role = conns[i].role
                /\ aged[i].age = conns[i].age + 1 /\ conns[i].age \in Nat
                /\ aged[i].tenure =
                     IF conns[i].role = "primary" THEN conns[i].tenure + 1 ELSE conns[i].tenure
                /\ aged[i].tenure <= aged[i].age /\ aged[i].age <= limit
                /\ aged[i].alive <=> conns[i].alive /\ aged[i].age < limit
           /\ \A i, j \in 1..MaxTotal : i <= j => aged[j].age <= aged[i].age
           /\ \A i \in 1..MaxTotal : i # 1 => aged[i].role = "standby"
<1>1. /\ DOMAIN conns = 1..MaxTotal /\ limit \in Nat
      /\ \A i \in 1..MaxTotal : /\ conns[i] \in ConnState
                                /\ conns[i].age < limit /\ conns[i].tenure <= conns[i].age
      /\ \A i, j \in 1..MaxTotal : i <= j => conns[j].age <= conns[i].age
      /\ \A i \in 1..MaxTotal : i # 1 => conns[i].role = "standby"
  <2>1. Orderly(conns) /\ Len(conns) = MaxTotal /\ limit \in Nat
    BY Constants DEF IInv, Types
  <2>2. \A i \in 1..Len(conns) : conns[i] \in ConnState
    BY <2>1 DEF Orderly
  <2>. QED  BY <2>1, <2>2 DEF Orderly
<1>2. \A i \in 1..MaxTotal : conns[i].age \in Nat
  BY <1>1 DEF ConnState
<1>3. DOMAIN aged = 1..MaxTotal /\ \A i \in 1..MaxTotal : aged[i] = Older(conns[i])
  BY <1>1
<1>4. \A i \in 1..MaxTotal :
        /\ aged[i] \in ConnState
        /\ aged[i].role = conns[i].role
        /\ aged[i].age = conns[i].age + 1
        /\ aged[i].tenure =
             IF conns[i].role = "primary" THEN conns[i].tenure + 1 ELSE conns[i].tenure
        /\ aged[i].tenure <= aged[i].age /\ aged[i].age <= limit
  BY <1>1, <1>3, OlderIs
<1>5. \A i \in 1..MaxTotal : aged[i].alive <=> conns[i].alive /\ aged[i].age < limit
  <2>1. \A i \in 1..MaxTotal : aged[i].alive <=> conns[i].alive /\ conns[i].age + 1 < limit
    BY <1>1, <1>3, OlderIs
  <2>. QED  BY <1>4, <2>1
<1>6. \A i, j \in 1..MaxTotal : i <= j => aged[j].age <= aged[i].age
  BY <1>1, <1>2, <1>4
<1>7. \A i \in 1..MaxTotal : i # 1 => aged[i].role = "standby"
  BY <1>1, <1>4
<1>. QED  BY <1>2, <1>3, <1>4, <1>5, <1>6, <1>7

\* Pruning keeps the order of the list.
LEMMA KeptIs ==
    ASSUME IInv, NEW aged, aged = [i \in DOMAIN conns |-> Older(conns[i])],
           NEW kept \in Listings({i \in DOMAIN conns : aged[i].alive}),
           NEW left, left = [k \in DOMAIN kept |-> aged[kept[k]]]
    PROVE  /\ Orderly(left) /\ AllAlive(left)
           /\ Len(left) = Cardinality({i \in 1..MaxTotal : aged[i].alive})
           /\ Len(left) >= 1 => /\ kept[1] \in 1..MaxTotal /\ aged[kept[1]].alive
                               /\ left[1] = aged[kept[1]]
<1>. DEFINE S == {i \in 1..MaxTotal : aged[i].alive}
            Aged(i) == /\ aged[i] \in ConnState /\ aged[i].tenure <= aged[i].age
                       /\ aged[i].alive /\ aged[i].age < limit
<1>1. DOMAIN conns = 1..MaxTotal /\ MaxTotal \in Nat
  BY Constants DEF IInv, Types, Orderly
<1>2. kept \in Listings(S)
  BY <1>1
<1>3. /\ kept \in Seq(1..MaxTotal) /\ Len(kept) = Cardinality(S) /\ Len(kept) <= MaxTotal
      /\ \A i \in 1..Len(kept) : kept[i] \in S
      /\ \A i, j \in 1..Len(kept) : i < j => kept[i] < kept[j]
  <2>1. S \in SUBSET (1..MaxTotal)
    OBVIOUS
  <2>. HIDE DEF S
  <2>. QED  BY <1>1, <1>2, <2>1, ListingsAre
<1>4. /\ DOMAIN left = 1..Len(kept) /\ Len(kept) \in Nat
      /\ \A k \in 1..Len(kept) : left[k] = aged[kept[k]] /\ kept[k] \in 1..MaxTotal
      /\ \A k \in 1..Len(kept) : aged[kept[k]].alive
  <2>1. DOMAIN kept = 1..Len(kept) /\ Len(kept) \in Nat
    BY <1>3
  <2>2. \A k \in 1..Len(kept) : kept[k] \in 1..MaxTotal /\ aged[kept[k]].alive
    BY <1>3
  <2>3. DOMAIN left = 1..Len(kept) /\ \A k \in 1..Len(kept) : left[k] = aged[kept[k]]
    BY <2>1
  <2>. QED  BY <2>1, <2>2, <2>3
<1>5. \A k \in 1..Len(kept) : Aged(kept[k])
  <2>1. \A i \in 1..MaxTotal : /\ aged[i] \in ConnState /\ aged[i].tenure <= aged[i].age
                               /\ aged[i].alive => aged[i].age < limit
    BY AgedIs
  <2>. QED  BY <1>4, <2>1
<1>6. left \in Seq(ConnState) /\ Len(left) = Len(kept)
  <2>1. \A k \in 1..Len(kept) : left[k] \in ConnState
    BY <1>4, <1>5
  <2>2. left \in [1..Len(kept) -> ConnState]
    BY <1>4, <2>1
  <2>. QED  BY <1>4, <2>2
<1>7. \A k \in 1..Len(left) : left[k].age < limit /\ left[k].tenure <= left[k].age
  BY <1>4, <1>5, <1>6
<1>8. \A i, j \in 1..Len(left) : i <= j => left[j].age <= left[i].age
  <2>1. \A i, j \in 1..Len(kept) : i <= j => kept[i] <= kept[j]
    <3>1. \A i \in 1..Len(kept) : i \in Nat /\ kept[i] \in Nat
      BY <1>4
    <3>2. \A i, j \in 1..Len(kept) : i < j => kept[i] < kept[j]
      BY <1>3
    <3>. QED  BY <3>1, <3>2
  <2>2. \A i, j \in 1..MaxTotal : i <= j => aged[j].age <= aged[i].age
    BY AgedIs
  <2>. QED  BY <1>4, <1>6, <2>1, <2>2
<1>9. \A k \in 1..Len(left) : k # 1 => left[k].role = "standby"
  <2>1. \A k \in 1..Len(kept) : k # 1 => 1 \in 1..Len(kept) /\ 1 < k
    BY <1>4
  <2>2. \A k \in 1..Len(kept) : k # 1 => kept[k] # 1 /\ kept[k] \in 1..MaxTotal
    <3>1. \A i, j \in 1..Len(kept) : i < j => kept[i] < kept[j]
      BY <1>3
    <3>2. \A k \in 1..Len(kept) : k # 1 => kept[1] < kept[k] /\ kept[1] \in 1..MaxTotal
      BY <1>4, <2>1, <3>1
    <3>. QED  BY <1>4, <3>2
  <2>3. \A i \in 1..MaxTotal : i # 1 => aged[i].role = "standby"
    BY AgedIs
  <2>. QED  BY <1>4, <1>6, <2>2, <2>3
<1>10. Orderly(left)
  BY <1>3, <1>6, <1>7, <1>8, <1>9 DEF Orderly
<1>11. AllAlive(left)
  BY <1>4, <1>6 DEF AllAlive
<1>. QED  BY <1>3, <1>4, <1>6, <1>10, <1>11

\* The positions of the dead connections that lived long enough to be recorded.
Recorded(aged) == {i \in DOMAIN conns : ~aged[i].alive /\ aged[i].age >= MinAge}

\* Of the ages recorded, those off the limit are of connections that had failed.
LEMMA AgesAre ==
    ASSUME IInv, NEW aged, aged = [i \in DOMAIN conns |-> Older(conns[i])],
           NEW dead \in Listings(Recorded(aged)),
           NEW ages, ages = [k \in DOMAIN dead |-> aged[dead[k]].age]
    PROVE  /\ ages \in Seq(MinAge..limit)
           /\ Cardinality(OtherAges(ages)) <= Cardinality(Dead)
<1>. DEFINE S == {i \in 1..MaxTotal : ~aged[i].alive /\ aged[i].age >= MinAge}
<1>1. DOMAIN conns = 1..MaxTotal /\ MaxTotal \in Nat /\ limit \in Nat
  BY Constants DEF IInv, Types, Orderly
<1>2. dead \in Listings(S)
  BY <1>1 DEF Recorded
<1>3. /\ dead \in Seq(1..MaxTotal)
      /\ \A i \in 1..Len(dead) : dead[i] \in S
      /\ \A i, j \in 1..Len(dead) : i < j => dead[i] < dead[j]
  <2>1. S \in SUBSET (1..MaxTotal)
    OBVIOUS
  <2>. HIDE DEF S
  <2>. QED  BY <1>1, <1>2, <2>1, ListingsAre
<1>4. /\ DOMAIN ages = 1..Len(dead) /\ Len(dead) \in Nat
      /\ \A k \in 1..Len(dead) : /\ ages[k] = aged[dead[k]].age /\ dead[k] \in 1..MaxTotal
                                 /\ ages[k] >= MinAge
      /\ \A k \in 1..Len(dead) : ~aged[dead[k]].alive
  <2>1. DOMAIN dead = 1..Len(dead) /\ Len(dead) \in Nat
    BY <1>3
  <2>2. \A k \in 1..Len(dead) :
          dead[k] \in 1..MaxTotal /\ ~aged[dead[k]].alive /\ aged[dead[k]].age >= MinAge
    BY <1>3
  <2>3. DOMAIN ages = 1..Len(dead) /\ \A k \in 1..Len(dead) : ages[k] = aged[dead[k]].age
    BY <2>1
  <2>. QED  BY <2>1, <2>2, <2>3
<1>5. \A i \in 1..MaxTotal : aged[i].age \in Nat /\ aged[i].age <= limit
  BY AgedIs
<1>6. \A k \in 1..Len(dead) : ages[k] \in MinAge..limit
  BY <1>1, <1>4, <1>5, Constants
<1>7. ages \in Seq(MinAge..limit) /\ Len(ages) = Len(dead)
  <2>. DEFINE A == MinAge..limit
  <2>1. ages = [k \in 1..Len(dead) |-> ages[k]]
    <3>1. DOMAIN dead = 1..Len(dead)
      BY <1>3
    <3>. QED  BY <3>1
  <2>2. \A k \in 1..Len(dead) : ages[k] \in A
    BY <1>6
  <2>. HIDE DEF A
  <2>3. ages \in [1..Len(dead) -> A]
    BY <2>1, <2>2
  <2>4. ages \in Seq(A) /\ Len(ages) = Len(dead)
    BY <1>4, <2>3
  <2>. QED  BY <2>4 DEF A
<1>8. \A k \in OtherAges(ages) : k \in 1..Len(dead) /\ dead[k] \in Dead
  <2>1. \A k \in OtherAges(ages) : k \in 1..Len(dead) /\ ages[k] # limit
    BY <1>4 DEF OtherAges
  <2>2. \A k \in OtherAges(ages) : aged[dead[k]].age < limit /\ dead[k] \in 1..MaxTotal
    <3>1. \A k \in OtherAges(ages) : dead[k] \in 1..MaxTotal /\ aged[dead[k]].age # limit
      BY <1>4, <2>1
    <3>. QED  BY <1>1, <1>5, <3>1
  <2>3. \A i \in 1..MaxTotal : aged[i].alive <=> conns[i].alive /\ aged[i].age < limit
    BY AgedIs
  <2>4. \A k \in OtherAges(ages) : ~conns[dead[k]].alive
    BY <1>4, <2>1, <2>2, <2>3
  <2>. QED  BY <2>1, <2>2, <2>4, DeadAre DEF IInv
<1>9. [k \in OtherAges(ages) |-> dead[k]] \in Injection(OtherAges(ages), Dead)
  <2>. DEFINE g == [k \in OtherAges(ages) |-> dead[k]]
  <2>1. g \in [OtherAges(ages) -> Dead]
    BY <1>8
  <2>2. \A a, b \in OtherAges(ages) : g[a] = g[b] => a = b
    <3>1. \A a, b \in 1..Len(dead) : dead[a] = dead[b] => a = b
      <4>1. \A a, b \in 1..Len(dead) : a < b => dead[a] # dead[b]
        <5>. HIDE DEF S
        <5>1. \A a \in 1..Len(dead) : dead[a] \in 1..MaxTotal
          BY <1>4
        <5>2. \A a, b \in 1..Len(dead) : a < b => dead[a] < dead[b]
          BY <1>3
        <5>3. \A x, y \in 1..MaxTotal : x < y => x # y
          BY <1>1
        <5>. QED  BY <5>1, <5>2, <5>3
      <4>. QED  BY <1>4, <4>1
    <3>. QED  BY <1>8, <3>1
  <2>. HIDE DEF g
  <2>3. g \in Injection(OtherAges(ages), Dead)
    BY <2>1, <2>2 DEF Injection, IsInjective
  <2>. QED  BY <2>3 DEF g
<1>10. IsFiniteSet(Dead)
  BY DeadAre DEF IInv
<1>. QED  BY <1>7, <1>9, <1>10, FS_Injection

\* If the primary outlives a unit of time, only failed connections do not, and
\* with few faults a standby is left beside it.
LEMMA StandbyLeft ==
    ASSUME IInv, NEW aged, aged = [i \in DOMAIN conns |-> Older(conns[i])],
           faults < MaxTotal - 1, aged[1].alive
    PROVE  Cardinality({i \in 1..MaxTotal : aged[i].alive}) >= 2
<1>. DEFINE S == {i \in 1..MaxTotal : aged[i].alive}
<1>1. MaxTotal \in Nat /\ MaxTotal >= 1 /\ limit \in Nat /\ faults \in Nat /\ Types
  BY Constants DEF IInv, Types
<1>2. \A i \in 1..MaxTotal : i \in S \/ i \in Dead
  <2>1. \A i \in 1..MaxTotal : aged[i].alive <=> conns[i].alive /\ aged[i].age < limit
    BY AgedIs
  <2>2. \A i \in 1..MaxTotal : aged[i].age <= aged[1].age
    <3>1. \A i, j \in 1..MaxTotal : i <= j => aged[j].age <= aged[i].age
      BY AgedIs
    <3>2. \A i \in 1..MaxTotal : 1 \in 1..MaxTotal /\ 1 <= i
      BY <1>1
    <3>. QED  BY <3>1, <3>2
  <2>3. \A i \in 1..MaxTotal : aged[i].age \in Nat
    BY AgedIs
  <2>4. 1 \in 1..MaxTotal
    BY <1>1
  <2>5. \A i \in 1..MaxTotal : aged[i].age < limit
    BY <1>1, <2>1, <2>2, <2>3, <2>4
  <2>6. \A i \in 1..MaxTotal : conns[i].alive => aged[i].alive
    BY <2>1, <2>5
  <2>. QED  BY <1>1, <2>6, DeadAre
<1>3. IsFiniteSet(1..MaxTotal) /\ Cardinality(1..MaxTotal) = MaxTotal
  BY <1>1, FS_Interval
<1>4. S \subseteq 1..MaxTotal
  OBVIOUS
<1>. HIDE DEF S
<1>5. IsFiniteSet(S) /\ Cardinality(S) \in Nat
  BY <1>3, <1>4, FS_Subset, FS_CardinalityType
<1>6. IsFiniteSet(Dead) /\ Cardinality(Dead) \in Nat
  BY <1>1, DeadAre
<1>7. Cardinality(S \cup Dead) <= Cardinality(S) + Cardinality(Dead) /\ IsFiniteSet(S \cup Dead)
  <2>1. /\ Cardinality(S \cup Dead) = Cardinality(S) + Cardinality(Dead) - Cardinality(S \cap Dead)
        /\ IsFiniteSet(S \cup Dead)
    BY <1>5, <1>6, FS_Union
  <2>2. Cardinality(S \cap Dead) \in Nat
    BY <1>5, FS_Subset, FS_CardinalityType
  <2>. QED  BY <1>5, <1>6, <2>1, <2>2
<1>8. MaxTotal <= Cardinality(S \cup Dead) /\ Cardinality(S \cup Dead) \in Nat
  <2>1. 1..MaxTotal \subseteq S \cup Dead
    BY <1>2
  <2>. QED  BY <1>3, <1>7, <2>1, FS_Subset, FS_CardinalityType
<1>9. Cardinality(Dead) <= faults
  <2>1. Cardinality(OtherAges(samples)) \in Nat
    BY <1>1, SamplesAre
  <2>. QED  BY <1>1, <1>6, <2>1 DEF IInv, Counted
<1>10. Cardinality(S) >= 2
  BY <1>1, <1>5, <1>6, <1>7, <1>8, <1>9
<1>. QED  BY <1>10 DEF S

\* A unit of time.
LEMMA UnitInv ==
    ASSUME IInv, Unit
    PROVE  IInv'
<1>1. PICK aged, kept, dead, ages :
        /\ aged = [i \in DOMAIN conns |-> Older(conns[i])]
        /\ kept \in Listings({i \in DOMAIN conns : aged[i].alive})
        /\ dead \in Listings({i \in DOMAIN conns : ~aged[i].alive /\ aged[i].age >= MinAge})
        /\ ages = [k \in DOMAIN dead |-> aged[dead[k]].age]
        /\ samples' = Window(ages, Len(ages))
        /\ detected' = Detected(ages)
        /\ conns' = Refilled(Rotated(Ensured([k \in DOMAIN kept |-> aged[kept[k]]]), detected'))
        /\ cut' = {[conn |-> c, det |-> detected] :
                     c \in {d \in Range(aged) : d.role = "primary" /\ d.age = limit}}
        /\ UNCHANGED <<limit, faults>>
  BY DEF Unit
<1>. DEFINE left == [k \in DOMAIN kept |-> aged[kept[k]]]
            ens == Ensured(left)
            rot == Rotated(ens, detected')
<1>2. /\ aged = [i \in DOMAIN conns |-> Older(conns[i])]
      /\ ages = [k \in DOMAIN dead |-> aged[dead[k]].age]
      /\ limit' = limit /\ faults' = faults /\ conns' = Refilled(rot)
  BY <1>1
<1>3. /\ Types /\ limit \in Nat /\ limit >= 1 /\ faults \in Nat /\ detected \in Nat
      /\ MaxTotal \in Nat /\ MaxTotal >= 1 /\ MinAge \in Nat
  BY Constants DEF IInv, Types
<1>4. /\ Orderly(left) /\ AllAlive(left)
      /\ Len(left) = Cardinality({i \in 1..MaxTotal : aged[i].alive})
      /\ Len(left) >= 1 => /\ kept[1] \in 1..MaxTotal /\ aged[kept[1]].alive
                           /\ left[1] = aged[kept[1]]
  <2>1. kept \in Listings({i \in DOMAIN conns : aged[i].alive})
    BY <1>1
  <2>. QED  BY <1>2, <2>1, KeptIs
<1>5. ages \in Seq(MinAge..limit) /\ Cardinality(OtherAges(ages)) <= Cardinality(Dead)
  <2>1. dead \in Listings(Recorded(aged))
    BY <1>1 DEF Recorded
  <2>2. /\ aged = [i \in DOMAIN conns |-> Older(conns[i])]
        /\ ages = [k \in DOMAIN dead |-> aged[dead[k]].age]
    BY <1>2
  <2>. QED  BY <2>1, <2>2, AgesAre
<1>. HIDE DEF left
<1>6. Len(left) \in Nat
  BY <1>4 DEF Orderly
<1>7. /\ Orderly(ens) /\ Len(ens) = Len(left) /\ AllAlive(ens)
      /\ Len(left) >= 1 => /\ ens[1].role = "primary"
                           /\ \/ left[1].role = "primary" /\ ens = left
                              \/ ens[1].tenure = 0
  <2>1. AllAlive(ens)
    BY <1>3, <1>4, StaysAlive DEF Orderly
  <2>. QED  BY <1>3, <1>4, <2>1, EnsuredIs
<1>. HIDE DEF ens
<1>8. Cardinality(OtherAges(samples)) + Cardinality(OtherAges(ages)) <= faults
  <2>1. Cardinality(OtherAges(samples)) + Cardinality(Dead) <= faults
    BY DEF IInv, Counted
  <2>2. ages \in Seq(Nat)
    <3>1. MinAge..limit \subseteq Nat
      BY <1>3
    <3>. QED  BY <1>5, <3>1, SeqOfMore
  <2>3. /\ Cardinality(OtherAges(samples)) \in Nat /\ Cardinality(OtherAges(ages)) \in Nat
        /\ Cardinality(Dead) \in Nat
    BY <1>3, <2>2, SamplesAre, DeadAre, OtherAgesAre
  <2>. QED  BY <1>3, <1>5, <2>1, <2>3
<1>9. \A k \in 0..Len(ages) :
        /\ Window(ages, k) \in Seq(MinAge..limit) /\ Window(ages, k) \in Seq(Nat)
        /\ Len(Window(ages, k)) <= maxSamples
        /\ Cardinality(OtherAges(Window(ages, k))) <= faults
        /\ Cardinality(OtherAges(Window(ages, k))) \in Nat
  <2>. SUFFICES ASSUME NEW k \in 0..Len(ages)
                PROVE  /\ Window(ages, k) \in Seq(MinAge..limit) /\ Window(ages, k) \in Seq(Nat)
                       /\ Len(Window(ages, k)) <= maxSamples
                       /\ Cardinality(OtherAges(Window(ages, k))) <= faults
                       /\ Cardinality(OtherAges(Window(ages, k))) \in Nat
    OBVIOUS
  <2>. DEFINE w == Window(ages, k)
  <2>1. /\ w \in Seq(MinAge..limit) /\ Len(w) <= maxSamples
        /\ Cardinality(OtherAges(w)) <= Cardinality(OtherAges(samples)) + Cardinality(OtherAges(ages))
    BY <1>3, <1>5, WindowIs
  <2>2. MinAge..limit \subseteq Nat
    BY <1>3
  <2>. HIDE DEF w
  <2>3. w \in Seq(Nat) /\ ages \in Seq(Nat)
    BY <1>5, <2>1, <2>2, SeqOfMore
  <2>4. /\ Cardinality(OtherAges(w)) \in Nat /\ Cardinality(OtherAges(ages)) \in Nat
        /\ Cardinality(OtherAges(samples)) \in Nat
    BY <1>3, <2>3, OtherAgesAre, SamplesAre
  <2>5. Cardinality(OtherAges(w)) <= faults
    BY <1>3, <1>8, <2>1, <2>4
  <2>. QED  BY <2>1, <2>3, <2>4, <2>5 DEF w
<1>10. \/ detected' = detected
       \/ \E k \in 1..Len(ages) : /\ Convincing(Window(ages, k))
                                  /\ detected' = SmallestOf(Window(ages, k))
  BY <1>1, <1>3, <1>5, DetectedIs
<1>11. Len(ages) \in Nat
  BY <1>5
<1>12. detected' \in 0..limit
  <2>1. ASSUME NEW k \in 1..Len(ages), Convincing(Window(ages, k))
        PROVE  SmallestOf(Window(ages, k)) \in 0..limit
    <3>. DEFINE w == Window(ages, k)
    <3>1. k \in 0..Len(ages)
      BY <1>11
    <3>2. w \in Seq(MinAge..limit) /\ w \in Seq(Nat)
      BY <1>9, <3>1
    <3>3. Len(w) >= 1
      BY <2>1, <3>2 DEF Convincing, minSamplesToDetect
    <3>. HIDE DEF w
    <3>4. SmallestOf(w) \in Range(w)
      BY <3>2, <3>3, SmallestIs
    <3>5. Range(w) \subseteq MinAge..limit
      BY <3>2, RangeOf
    <3>6. SmallestOf(w) \in MinAge..limit
      BY <3>4, <3>5
    <3>. QED  BY <1>3, <3>6 DEF w
  <2>. QED  BY <1>3, <1>10, <2>1 DEF Types
<1>13. /\ Orderly(rot) /\ AllAlive(rot)
       /\ Len(ens) >= 1 =>
            /\ Len(rot) >= 1 /\ rot[1].role = "primary"
            /\ \/ rot[1].tenure = 0
               \/ rot = ens /\ (Len(ens) >= 2 => ~PastRotation(ens[1].tenure, detected'))
       /\ Len(ens) = 0 => Len(rot) = 0
  <2>1. detected' \in Nat
    BY <1>3, <1>12
  <2>2. Len(ens) >= 1 => ens[1].role = "primary"
    BY <1>7
  <2>3. AllAlive(rot)
    BY <1>7, StaysAlive DEF Orderly
  <2>. QED  BY <1>3, <1>7, <2>1, <2>2, <2>3, RotatedIs
<1>. HIDE DEF rot
<1>14. /\ Orderly(conns') /\ Len(conns') = MaxTotal /\ AllAlive(conns')
       /\ conns'[1] = IF 1 <= Len(rot) THEN rot[1] ELSE Standby
  <2>1. rot \in Seq(ConnState) /\ Len(rot) <= MaxTotal
    BY <1>13 DEF Orderly
  <2>2. AllAlive(conns')
    BY <1>2, <1>13, <2>1, StaysAlive
  <2>. QED  BY <1>2, <1>3, <1>13, <2>2, RefilledIs
<1>15. Types'
  <2>1. Orderly(conns)'
    BY <1>2, <1>14 DEF Orderly
  <2>2. samples' \in Seq(MinAge..limit) /\ Len(samples') <= maxSamples
    <3>1. Len(ages) \in 0..Len(ages)
      BY <1>11
    <3>. QED  BY <1>1, <1>9, <3>1
  <2>. QED  BY <1>2, <1>3, <1>12, <1>14, <2>1, <2>2 DEF Types
<1>16. Counted'
  <2>1. Dead' = {}
    <3>1. DOMAIN conns' = 1..MaxTotal
      BY <1>14 DEF Orderly
    <3>. QED  BY <1>14, <3>1 DEF Dead, AllAlive
  <2>2. Cardinality(OtherAges(samples)') <= faults /\ Cardinality(OtherAges(samples)') \in Nat
    <3>1. Len(ages) \in 0..Len(ages)
      BY <1>11
    <3>2. /\ Cardinality(OtherAges(samples')) <= faults
          /\ Cardinality(OtherAges(samples')) \in Nat
      BY <1>1, <1>9, <3>1
    <3>. QED  BY <1>2, <3>2 DEF OtherAges
  <2>3. Cardinality(Dead') = 0
    BY <2>1, FS_EmptySet
  <2>. QED  BY <1>2, <1>3, <2>2, <2>3 DEF Counted
<1>17. InTime'
  <2>. SUFFICES ASSUME faults' < MaxTotal - 1, conns'[1].role = "primary"
                PROVE  ~PastRotation(conns'[1].tenure, detected')
    BY DEF InTime
  <2>1. \A d \in Nat : ~PastRotation(0, d)
    BY DEF PastRotation
  <2>2. detected' \in Nat
    BY <1>3, <1>12
  <2>3. Len(left) >= 1 /\ Len(rot) >= 1 /\ conns'[1] = rot[1]
    <3>1. Standby.role # "primary"
      BY DEF Standby
    <3>. QED  BY <1>6, <1>7, <1>13, <1>14, <3>1
  <2>4. CASE rot[1].tenure = 0
    BY <2>1, <2>2, <2>3, <2>4
  <2>5. CASE rot = ens /\ (Len(ens) >= 2 => ~PastRotation(ens[1].tenure, detected'))
    <3>1. CASE ens[1].tenure = 0
      BY <2>1, <2>2, <2>3, <2>5, <3>1
    <3>2. CASE left[1].role = "primary" /\ ens = left
      <4>1. kept[1] = 1
        <5>1. \A i \in 1..MaxTotal : i # 1 => aged[i].role = "standby"
          BY <1>2, AgedIs
        <5>. QED  BY <1>4, <2>3, <3>2, <5>1
      <4>2. Len(left) >= 2
        BY <1>2, <1>4, <2>3, <4>1, StandbyLeft
      <4>. QED  BY <1>7, <2>3, <2>5, <4>2
    <3>. QED  BY <1>7, <2>3, <3>1, <3>2
  <2>. QED  BY <1>7, <1>13, <2>3, <2>4, <2>5
<1>18. NoPhantomLimit'
  <2>. SUFFICES ASSUME faults' < minSamplesToDetect, detected' > 0
                PROVE  limit' - detected' <= Tolerance
    BY DEF NoPhantomLimit
  <2>1. CASE detected' = detected
    BY <1>2, <2>1 DEF IInv, NoPhantomLimit
  <2>2. ASSUME NEW k \in 1..Len(ages), Convincing(Window(ages, k)),
               detected' = SmallestOf(Window(ages, k))
        PROVE  limit' - detected' <= Tolerance
    <3>1. k \in 0..Len(ages)
      BY <1>11
    <3>2. /\ Window(ages, k) \in Seq(Nat)
          /\ Cardinality(OtherAges(Window(ages, k))) < minSamplesToDetect
      BY <1>2, <1>3, <1>9, <3>1 DEF minSamplesToDetect
    <3>3. limit - SmallestOf(Window(ages, k)) <= Tolerance
      BY <1>3, <2>2, <3>2, NearTheLimit
    <3>. QED  BY <1>2, <2>2, <3>3
  <2>. QED  BY <1>10, <2>1, <2>2
<1>19. CutOnlyOldStandby'
  <2>. SUFFICES ASSUME faults < MaxTotal - 1, NEW x \in cut', x.det = limit
                PROVE  10 * (x.conn.age - x.conn.tenure) >= 2 * limit - 10
    BY <1>2 DEF CutOnlyOldStandby
  <2>1. PICK d \in Range(aged) : d.role = "primary" /\ d.age = limit /\ x = [conn |-> d, det |-> detected]
    BY <1>1
  <2>2. /\ DOMAIN aged = 1..MaxTotal
        /\ \A i \in 1..MaxTotal :
             /\ aged[i].role = conns[i].role
             /\ aged[i].tenure =
                  IF conns[i].role = "primary" THEN conns[i].tenure + 1 ELSE conns[i].tenure
        /\ \A i \in 1..MaxTotal : i # 1 => aged[i].role = "standby"
    BY <1>2, AgedIs
  <2>3. d = aged[1] /\ 1 \in 1..MaxTotal
    BY <1>3, <2>1, <2>2 DEF Range
  <2>4. conns[1].role = "primary" /\ d.tenure = conns[1].tenure + 1
    BY <2>1, <2>2, <2>3
  <2>5. conns[1].tenure \in Nat
    <3>1. conns[1] \in ConnState
      BY <1>3, <2>3 DEF Types, Orderly
    <3>. QED  BY <3>1 DEF ConnState
  <2>6. detected = limit /\ x.conn = d
    BY <2>1
  <2>7. ~PastRotation(conns[1].tenure, limit)
    BY <2>4, <2>6 DEF IInv, InTime
  <2>8. 10 * conns[1].tenure <= 8 * limit
    BY <1>3, <2>5, <2>7 DEF PastRotation
  <2>9. 10 * (limit - (conns[1].tenure + 1)) >= 2 * limit - 10
    BY <1>3, <2>5, <2>8
  <2>. QED  BY <2>1, <2>4, <2>6, <2>9
<1>. QED  BY <1>15, <1>16, <1>17, <1>18, <1>19 DEF IInv

LEMMA UnchangedInv ==
    ASSUME IInv, UNCHANGED vars
    PROVE  IInv'
  BY DEF vars, IInv, Types, Orderly, Counted, OtherAges, Dead, InTime, NoPhantomLimit,
         CutOnlyOldStandby, PastRotation

\* The invariant holds in every reachable state.
THEOREM Invariant == Spec => []IInv
<1>1. IInv /\ [Next]_vars => IInv'
  BY UnitInv, FaultInv, UnchangedInv DEF Next
<1>. QED  BY <1>1, InitInv, PTL DEF Spec

-----------------------------------------------------------------------------
\* The state stays within its types: the list has MaxTotal connections after
\* every tick, ages and samples never exceed the limit, at most maxSamples
\* samples are kept.
THEOREM TypeCorrect == Spec => []TypeOK
<1>1. IInv => TypeOK
  <2>. SUFFICES ASSUME IInv  PROVE TypeOK
    OBVIOUS
  <2>1. Types /\ limit \in Nat /\ DOMAIN conns = 1..MaxTotal
    BY Constants DEF IInv, Types, Orderly
  <2>2. ASSUME NEW i \in DOMAIN conns
        PROVE  /\ conns[i].role \in {"primary", "standby"} /\ conns[i].age \in 0..limit
               /\ conns[i].tenure \in 0..conns[i].age
    <3>1. conns[i] \in ConnState /\ conns[i].age < limit /\ conns[i].tenure <= conns[i].age
      BY <2>1, <2>2 DEF Types, Orderly
    <3>2. conns[i].role \in {"primary", "standby"} /\ conns[i].age \in Nat /\ conns[i].tenure \in Nat
      BY <3>1 DEF ConnState
    <3>. QED  BY <2>1, <3>1, <3>2
  <2>3. Range(samples) \subseteq MinAge..limit
    BY <2>1, RangeOf DEF Types
  <2>. QED  BY <2>1, <2>2, <2>3 DEF Types, TypeOK
<1>. QED  BY <1>1, Invariant, PTL

\* What RecordDisconnect and tryDetect believe comes from the middlebox: as long
\* as fewer connections failed for other reasons than a cluster needs, a
\* detected limit lies within the tolerance of the real one.
THEOREM NoPhantom == Spec => []NoPhantomLimit
<1>1. IInv => NoPhantomLimit
  BY DEF IInv
<1>. QED  BY <1>1, Invariant, PTL

\* With the limit detected and a standby left by the faults, monitorTick
\* rotates so early that only a primary that was already old when promoted
\* can be cut.
THEOREM OnlyOldStandby == Spec => []CutOnlyOldStandby
<1>1. IInv => CutOnlyOldStandby
  BY DEF IInv
<1>. QED  BY <1>1, Invariant, PTL
=============================================================================
