-------------------------- MODULE DeviceAuthProofs --------------------------
(* Keys and their approvals for every number of devices, overlapping         *)
(* requests, codes and keys, and the distinctness of addresses while no two  *)
(* registrations or updates overlap (OneWriter).                             *)
EXTENDS DeviceAuth, WellFoundedInduction, TLAPS

\* Requests of clients.
Asking(s) == call[s].op \in ClientOps

\* A client whose request somebody will read waits for it, and for one only.
Waiting == [init |-> "initiating", poll |-> "awaiting", refresh |-> "refreshing"]
ClientWaits ==
  \A s \in Slot : Asking(s) /\ call[s].heard =>
    client[call[s].dev].pc = Waiting[call[s].op]
OneIsHeard ==
  \A s, t \in Slot :
    /\ Asking(s) /\ call[s].heard
    /\ Asking(t) /\ call[t].heard
    /\ call[s].dev = call[t].dev
    => s = t

\* A code that is in use belongs to the session of the device that uses it.
Opened(c, d) == c \in Code /\ session[c] \in Session /\ session[c].dev = d
CodesOpened ==
  /\ \A d \in Device : client[d].pc \in {"polling", "awaiting"} =>
       Opened(client[d].code, d)
  /\ \A s \in Slot :
       \/ call[s].op = "poll" /\ call[s].step # "reply"
       \/ call[s].op = "init" /\ call[s].step = "reply" /\ call[s].status = "ok"
       => Opened(call[s].arg, call[s].dev)

\* Only answers with keys say "approved".
Granted(s) == Asking(s) /\ call[s].step = "reply" /\ call[s].status = "approved"
GrantsCarryKeys == \A s \in Slot : Granted(s) => call[s].arg \in Key

\* An address on its way to the table is one; an update has read a row.
ValuesCarried ==
  \A s \in Slot :
    /\ call[s].op = "override" \/ At(s, "init", "create") => call[s].arg \in Ip
    /\ call[s].op \in UpdateOps => call[s].snap.status # "absent"

IInv ==
  /\ TypeOK /\ ClientWaits /\ OneIsHeard /\ CodesOpened /\ GrantsCarryKeys
  /\ ValuesCarried

-----------------------------------------------------------------------------
\* The lowest of some naturals is one of them.
LEMMA LowestIsOne ==
    ASSUME NEW S \in SUBSET Nat, S # {}
    PROVE  Lowest(S) \in S
<1>1. PICK m \in S : \A k \in S : m <= k
  <2>. DEFINE R == OpToRel(<, Nat)
  <2>1. PICK m \in S : \A k \in S : ~ (<<k, m>> \in R)
    <3>1. IsWellFoundedOn(R, Nat)
      BY NatLessThanWellFounded
    <3>. HIDE DEF R
    <3>. QED  BY <3>1, WFMin
  <2>2. \A k \in S : ~ (k < m)
    BY <2>1 DEF OpToRel
  <2>. QED  BY <2>2
<1>. QED  BY <1>1 DEF Lowest

\* New keys and codes are free ones.
LEMMA FreshOnes ==
    ASSUME AuthAssumption
    PROVE  /\ FreeKeys # {} => FreshKey \in FreeKeys /\ FreshKey \in Key
           /\ FreeCodes # {} => FreshCode \in FreeCodes /\ FreshCode \in Code
<1>1. FreeKeys \in SUBSET Nat /\ FreeCodes \in SUBSET Nat
  BY DEF FreeKeys, FreeCodes, Key, Code
<1>2. FreeKeys \subseteq Key /\ FreeCodes \subseteq Code
  BY DEF FreeKeys, FreeCodes
<1>. QED  BY <1>1, <1>2, LowestIsOne DEF FreshKey, FreshCode

-----------------------------------------------------------------------------
\* Each kind of step keeps the types and the bookkeeping of requests.

\* An allocated address is one of the overlay's.
LEMMA LowestAddress ==
    ASSUME AuthAssumption, Ip \ AllocatedVIPs # {}
    PROVE  Lowest(Ip \ AllocatedVIPs) \in Ip
<1>1. Ip \ AllocatedVIPs \in SUBSET Nat
  BY DEF Ip
<1>. QED  BY <1>1, LowestIsOne

\* What a request under way is.
LEMMA CallIs ==
    ASSUME IInv, NEW s \in Slot, call[s].op # "idle"
    PROVE  call[s] \in Call /\ call[s].dev \in Device
<1>1. call[s] \in Call \cup {Idle} /\ call[s] # Idle
  BY DEF IInv, TypeOK, Idle
<1>. QED  BY <1>1 DEF Call

\* The row of a new device.
LEMMA NewRow ==
    ASSUME NEW v \in Ip
    PROVE  LET r == [NoRow EXCEPT !.status = "pending", !.auto = v] IN
           /\ r \in Row
           /\ r.status = "pending" /\ r.key = None /\ r.override = None
           /\ r.auto = v
  BY DEF NoRow, Row

\* An update makes a row of a row.
LEMMA UpdatedIsRow ==
    ASSUME NEW r \in Row, NEW c \in Call, c.op \in UpdateOps,
           c.op = "override" => c.arg \in Ip, c.snap.status # "absent"
    PROVE  /\ Updated(r, c) \in Row
           /\ r = NoRow => Updated(r, c) = NoRow
           /\ Updated(r, c).key = r.key
           /\ Updated(r, c).status = "approved" =>
                c.op = "approve" \/ c.snap.status = "approved"
<1>1. CASE r.status = "absent"
  BY <1>1 DEF Updated
<1>2. CASE r.status # "absent"
  <2>1. r = [status |-> r.status, auto |-> r.auto, override |-> r.override,
             key |-> r.key] /\ r # NoRow /\ r.auto \in Ip /\ r.key \in Key \cup {None}
    BY <1>2 DEF Row, NoRow
  <2>2. /\ c.snap.status \in {"pending", "approved", "revoked"}
        /\ c.snap.override \in Ip \cup {None, Cleared}
    BY DEF Call, Row, NoRow
  <2>3. PICK status, override :
          /\ Updated(r, c) = [r EXCEPT !.status = status, !.override = override]
          /\ status \in {"pending", "approved", "revoked"}
          /\ status = "approved" => c.op = "approve" \/ c.snap.status = "approved"
          /\ override \in Ip \cup {None, Cleared}
    BY <1>2, <2>2 DEF Updated, UpdateOps
  <2>4. Updated(r, c) = [status |-> status, auto |-> r.auto,
                         override |-> override, key |-> r.key]
    BY <2>1, <2>3
  <2>. QED  BY <2>1, <2>3, <2>4 DEF Row
<1>. QED  BY <1>1, <1>2

\* What a request keeps when it advances
LEMMA Gone ==
    ASSUME IInv, NEW s \in Slot, call[s] \in Call, NEW step, Goes(s, step)
    PROVE  /\ \A t \in Slot \ {s} : call'[t] = call[t]
           /\ call'[s].op = call[s].op /\ call'[s].dev = call[s].dev
           /\ call'[s].snap = call[s].snap /\ call'[s].heard = call[s].heard
           /\ call'[s].step = step /\ call'[s].arg = call[s].arg
           /\ call'[s].status = call[s].status
<1>1. call \in [Slot -> Call \cup {Idle}]
  BY DEF IInv, TypeOK
<1>. QED  BY <1>1 DEF Goes, Call

\* and when its answer is ready.
LEMMA Replied ==
    ASSUME IInv, NEW s \in Slot, call[s] \in Call, NEW status, NEW value,
           Replies(s, status, value)
    PROVE  /\ \A t \in Slot \ {s} : call'[t] = call[t]
           /\ call'[s].op = call[s].op /\ call'[s].dev = call[s].dev
           /\ call'[s].snap = call[s].snap /\ call'[s].heard = call[s].heard
           /\ call'[s].step = "reply" /\ call'[s].arg = value
           /\ call'[s].status = status
<1>1. call \in [Slot -> Call \cup {Idle}]
  BY DEF IInv, TypeOK
<1>. QED  BY <1>1 DEF Replies, Call

\* The server's steps for a client: handleAuthInit, handleAuthPoll and
\* handleAuthRefresh; and the steps of an update.
LEMMA ServeSteps ==
    ASSUME AuthAssumption, IInv, NEW s \in Slot, Serve(s)
    PROVE  IInv'
<1>. USE DEF IInv, At, TypeOK, past
<1>1. CASE InitLookup(s)
  <2>. USE DEF InitLookup, Goes
  <2>1. call[s] \in Call /\ call[s].dev \in Device
    BY <1>1, CallIs
  <2>2. TypeOK'
    BY <1>1, <2>1 DEF Call, CodesOpened, Opened, ValuesCarried
  <2>3. ClientWaits' /\ OneIsHeard'
    BY <1>1, <2>1 DEF Call, ClientWaits, OneIsHeard, Asking
  <2>4. CodesOpened'
    BY <1>1, <2>1 DEF Call, CodesOpened, Opened
  <2>5. GrantsCarryKeys' /\ ValuesCarried'
    BY <1>1, <2>1 DEF Call, GrantsCarryKeys, Granted, Asking, ValuesCarried
  <2>. QED  BY <2>2, <2>3, <2>4, <2>5
<1>2. CASE InitAllocate(s)
  <2>. USE DEF InitAllocate, Replies
  <2>1. call[s] \in Call /\ call[s].dev \in Device
    BY <1>2, CallIs
  <2>2. TypeOK'
    BY <1>2, LowestAddress, <2>1 DEF Call, CodesOpened, Opened, ValuesCarried
  <2>3. ClientWaits' /\ OneIsHeard'
    BY <1>2, <2>1 DEF Call, ClientWaits, OneIsHeard, Asking
  <2>4. CodesOpened'
    BY <1>2, LowestAddress, <2>1 DEF Call, CodesOpened, Opened
  <2>5. GrantsCarryKeys' /\ ValuesCarried'
    BY <1>2, LowestAddress, <2>1 DEF Call, GrantsCarryKeys, Granted, Asking, ValuesCarried
  <2>. QED  BY <2>2, <2>3, <2>4, <2>5
<1>3. CASE InitCreate(s)
  <2>. USE DEF InitCreate, Replies
  <2>1. call[s] \in Call /\ call[s].dev \in Device /\ call[s].arg \in Ip
    BY <1>3, CallIs DEF ValuesCarried
  <2>2. CASE Exists(call[s].dev)
    <3>1. TypeOK'
      BY <1>3, <2>1, <2>2 DEF Call
    <3>2. ClientWaits' /\ OneIsHeard'
      BY <1>3, <2>1, <2>2 DEF Call, ClientWaits, OneIsHeard, Asking
    <3>3. CodesOpened' /\ GrantsCarryKeys' /\ ValuesCarried'
      BY <1>3, <2>1, <2>2 DEF Call, CodesOpened, Opened, GrantsCarryKeys, Granted, Asking, ValuesCarried
    <3>. QED  BY <3>1, <3>2, <3>3
  <2>3. CASE ~ Exists(call[s].dev)
    <3>. DEFINE new == [NoRow EXCEPT !.status = "pending", !.auto = call[s].arg]
    <3>1. row' = [row EXCEPT ![call[s].dev] = new] /\ new \in Row
      BY <1>3, <2>1, <2>3, NewRow
    <3>. HIDE DEF new
    <3>5. row' \in [Device -> Row]
      BY <2>1, <3>1
    <3>2. TypeOK'
      BY <1>3, <2>1, <2>3, <3>5 DEF Call
    <3>3. ClientWaits' /\ OneIsHeard'
      BY <1>3, <2>1, <2>3 DEF Call, ClientWaits, OneIsHeard, Asking
    <3>4. CodesOpened' /\ GrantsCarryKeys' /\ ValuesCarried'
      BY <1>3, <2>1, <2>3 DEF Call, CodesOpened, Opened, GrantsCarryKeys, Granted, Asking, ValuesCarried
    <3>. QED  BY <3>2, <3>3, <3>4
  <2>. QED  BY <2>2, <2>3
<1>4. CASE InitSession(s)
  <2>. USE DEF InitSession, Replies, FreeCodes, Carried, Session
  <2>1. call[s] \in Call /\ call[s].dev \in Device
    BY <1>4, CallIs
  <2>2. TypeOK'
    <3>1. session' \in [Code -> Session \cup {NoSession}]
      BY <1>4, FreshOnes, <2>1
    <3>2. FreshCode \in Int
      BY <1>4, FreshOnes DEF Code
    <3>3. call' \in [Slot -> Call \cup {Idle}]
      BY <1>4, <2>1, <3>2 DEF Call
    <3>. QED  BY <1>4, <3>1, <3>3
  <2>3. ClientWaits' /\ OneIsHeard'
    BY <1>4, <2>1 DEF Call, ClientWaits, OneIsHeard, Asking
  <2>4. CodesOpened'
    BY <1>4, FreshOnes, <2>1 DEF Call, CodesOpened, Opened
  <2>5. GrantsCarryKeys' /\ ValuesCarried'
    BY <1>4, FreshOnes, <2>1 DEF Call, GrantsCarryKeys, Granted, Asking, ValuesCarried
  <2>. QED  BY <2>2, <2>3, <2>4, <2>5
<1>5. CASE PollSession(s)
  <2>. USE DEF PollSession, Replies, Session
  <2>1. call[s] \in Call /\ call[s].dev \in Device
    BY <1>5, CallIs
  <2>2. TypeOK'
    BY <1>5, <2>1 DEF Call, CodesOpened, Opened, ValuesCarried
  <2>3. ClientWaits' /\ OneIsHeard'
    BY <1>5, <2>1 DEF Call, ClientWaits, OneIsHeard, Asking
  <2>4. CodesOpened'
    <3>1. \A c, d : Opened(c, d) => Opened(c, d)'
      BY <1>5 DEF Opened
    <3>2. \A t \in Slot \ {s} : call'[t] = call[t]
      BY <1>5
    <3>3. /\ call'[s].op = "poll" /\ call'[s].dev = call[s].dev
          /\ call'[s].step # "reply" => call'[s].arg = call[s].arg
          /\ call[s].op = "poll" /\ call[s].step # "reply"
      BY <1>5, <2>1 DEF Call
    <3>. QED  BY <1>5, <3>1, <3>2, <3>3 DEF CodesOpened
  <2>5. GrantsCarryKeys' /\ ValuesCarried'
    BY <1>5, <2>1 DEF Call, GrantsCarryKeys, Granted, Asking, ValuesCarried
  <2>. QED  BY <2>2, <2>3, <2>4, <2>5
<1>6. CASE PollDevice(s)
  <2>. USE DEF PollDevice, Replies, Goes
  <2>1. call[s] \in Call /\ call[s].dev \in Device
    BY <1>6, CallIs
  <2>2. TypeOK'
    BY <1>6, <2>1 DEF Call, CodesOpened, Opened, ValuesCarried
  <2>3. ClientWaits' /\ OneIsHeard'
    BY <1>6, <2>1 DEF Call, ClientWaits, OneIsHeard, Asking
  <2>4. CodesOpened'
    BY <1>6, <2>1 DEF Call, CodesOpened, Opened
  <2>5. GrantsCarryKeys' /\ ValuesCarried'
    BY <1>6, <2>1 DEF Call, GrantsCarryKeys, Granted, Asking, ValuesCarried
  <2>. QED  BY <2>2, <2>3, <2>4, <2>5
<1>7. CASE PollMark(s)
  <2>. USE DEF PollMark, Goes, Session
  <2>1. call[s] \in Call /\ call[s].dev \in Device
    BY <1>7, CallIs
  <2>2. TypeOK'
    BY <1>7, <2>1 DEF Call, CodesOpened, Opened, ValuesCarried
  <2>3. ClientWaits' /\ OneIsHeard'
    BY <1>7, <2>1 DEF Call, ClientWaits, OneIsHeard, Asking
  <2>4. CodesOpened'
    BY <1>7, <2>1 DEF Call, CodesOpened, Opened
  <2>5. GrantsCarryKeys' /\ ValuesCarried'
    BY <1>7, <2>1 DEF Call, GrantsCarryKeys, Granted, Asking, ValuesCarried
  <2>. QED  BY <2>2, <2>3, <2>4, <2>5
<1>8. CASE RefreshLookup(s)
  <2>. USE DEF RefreshLookup, Goes, Replies
  <2>1. call[s] \in Call /\ call[s].dev \in Device
    BY <1>8, CallIs
  <2>2. TypeOK'
    BY <1>8, <2>1 DEF Call, CodesOpened, Opened, ValuesCarried
  <2>3. ClientWaits' /\ OneIsHeard'
    BY <1>8, <2>1 DEF Call, ClientWaits, OneIsHeard, Asking
  <2>4. CodesOpened'
    BY <1>8, <2>1 DEF Call, CodesOpened, Opened
  <2>5. GrantsCarryKeys' /\ ValuesCarried'
    BY <1>8, <2>1 DEF Call, GrantsCarryKeys, Granted, Asking, ValuesCarried
  <2>. QED  BY <2>2, <2>3, <2>4, <2>5
<1>9. CASE IssueKeys(s)
  <2>. USE DEF IssueKeys, Keyed, Replies, Row, NoRow, Exists
  <2>1. call[s] \in Call /\ call[s].dev \in Device
    BY <1>9, CallIs
  <2>2. TypeOK'
    <3>1. row' \in [Device -> Row]
      BY <1>9, FreshOnes, <2>1
    <3>2. FreshKey \in Int
      BY <1>9, FreshOnes DEF Key
    <3>3. call' \in [Slot -> Call \cup {Idle}]
      BY <1>9, <2>1, <3>2 DEF Call
    <3>4. returned' \subseteq Device
      BY <1>9 DEF Returning
    <3>. QED  BY <1>9, <3>1, <3>3, <3>4
  <2>3. ClientWaits' /\ OneIsHeard'
    BY <1>9, <2>1 DEF Call, ClientWaits, OneIsHeard, Asking
  <2>4. CodesOpened'
    BY <1>9, FreshOnes, <2>1 DEF Call, CodesOpened, Opened
  <2>5. GrantsCarryKeys' /\ ValuesCarried'
    BY <1>9, FreshOnes, <2>1 DEF Call, GrantsCarryKeys, Granted, Asking, ValuesCarried
  <2>. QED  BY <2>2, <2>3, <2>4, <2>5
<1>10. CASE AdminValidates(s)
  <2>. USE DEF AdminValidates, Goes, Ends, Idle, ClientOps
  <2>1. call[s] \in Call /\ call[s].dev \in Device
    BY <1>10, CallIs
  <2>2. TypeOK'
    BY <1>10, <2>1 DEF Call, CodesOpened, Opened, ValuesCarried
  <2>3. ClientWaits' /\ OneIsHeard'
    <3>1. \A t \in Slot : Asking(t)' => Asking(t) /\ call'[t] = call[t]
      <4>1. Goes(s, "write") \/ Ends(s)
        BY <1>10
      <4>2. CASE Goes(s, "write")
        BY <1>10, <2>1, <4>2 DEF Asking
      <4>3. CASE Ends(s)
        BY <1>10, <2>1, <4>3 DEF Asking
      <4>. QED  BY <4>1, <4>2, <4>3
    <3>. QED  BY <1>10, <3>1 DEF ClientWaits, OneIsHeard
  <2>4. CodesOpened'
    BY <1>10, <2>1 DEF Call, CodesOpened, Opened
  <2>5. GrantsCarryKeys' /\ ValuesCarried'
    BY <1>10, <2>1 DEF Call, GrantsCarryKeys, Granted, Asking, ValuesCarried, UpdateOps
  <2>. QED  BY <2>2, <2>3, <2>4, <2>5
<1>11. CASE AdminWrites(s)
  <2>. USE DEF AdminWrites, Updated, Ends, Idle, Row, NoRow, ClientOps, UpdateOps
  <2>1. call[s] \in Call /\ call[s].dev \in Device
    BY <1>11, CallIs
  <2>2. TypeOK'
    <3>1. Updated(row[call[s].dev], call[s]) \in Row
      <4>1. row[call[s].dev] \in Row /\ call[s].op \in UpdateOps
        BY <1>11, <2>1
      <4>2. /\ call[s].op = "override" => call[s].arg \in Ip
            /\ call[s].snap.status # "absent"
        BY <4>1 DEF ValuesCarried
      <4>. QED  BY <2>1, <4>1, <4>2, UpdatedIsRow
    <3>2. row' \in [Device -> Row]
      BY <1>11, <2>1, <3>1
    <3>3. returned' \subseteq Device
      BY <1>11 DEF Returning
    <3>. QED  BY <1>11, <2>1, <3>2, <3>3
  <2>3. ClientWaits' /\ OneIsHeard'
    BY <1>11, <2>1 DEF Call, ClientWaits, OneIsHeard, Asking
  <2>4. CodesOpened'
    BY <1>11, <2>1 DEF Call, CodesOpened, Opened
  <2>5. GrantsCarryKeys' /\ ValuesCarried'
    BY <1>11, <2>1 DEF Call, GrantsCarryKeys, Granted, Asking, ValuesCarried
  <2>. QED  BY <2>2, <2>3, <2>4, <2>5
<1>. QED  BY <1>1, <1>2, <1>3, <1>4, <1>5, <1>6, <1>7, <1>8, <1>9, <1>10, <1>11 DEF Serve

\* What a client becomes: another place in RunClient with or without a code,
LEMMA ClientMoves ==
    ASSUME NEW c \in Client, NEW pc,
           \/ pc \in {"polling", "awaiting"} /\ c.pc \in {"polling", "awaiting"}
           \/ /\ pc \in {"down", "refreshing", "refused", "initiating", "keyed",
                         "online", "rebuilding"}
              /\ c.pc \notin {"polling", "awaiting"}
    PROVE  [c EXCEPT !.pc = pc] \in Client
  BY DEF Client

\* or what an answer makes of it.
LEMMA AnsweredIsClient ==
    ASSUME NEW c \in Client, NEW op \in ClientOps, NEW status, NEW value,
           c.pc = Waiting[op],
           status = "approved" => value \in Key,
           op = "init" /\ status = "ok" => value \in Code
    PROVE  LET n == Answered(c, op, status, value) IN
           /\ n \in Client
           /\ n.pc \notin {"initiating", "awaiting", "refreshing"}
           /\ n.pc = "polling" => \/ op = "poll" /\ n.code = c.code
                                  \/ op = "init" /\ status = "ok" /\ n.code = value
           /\ n.key = IF status = "approved" THEN value ELSE c.key
           /\ status = "approved" => n.pc = "keyed"
<1>. DEFINE n == Answered(c, op, status, value)
<1>0. /\ c = [pc |-> c.pc, key |-> c.key, code |-> c.code, vip |-> c.vip]
      /\ c.key \in Key \cup {None} /\ c.vip \in Ip \cup {None}
      /\ op = "poll" => c.code \in Code
      /\ op # "poll" => c.code = None
  BY DEF Client, ClientOps, Waiting
<1>1. CASE status = "approved"
  <2>1. n = [pc |-> "keyed", key |-> value, code |-> None, vip |-> c.vip]
    BY <1>0, <1>1 DEF Answered
  <2>. QED  BY <1>0, <1>1, <2>1 DEF Client
<1>2. CASE status # "approved" /\ op = "init" /\ status = "ok"
  <2>1. n = [pc |-> "polling", key |-> c.key, code |-> value, vip |-> c.vip]
    BY <1>0, <1>2 DEF Answered
  <2>. QED  BY <1>0, <1>2, <2>1 DEF Client
<1>3. CASE status # "approved" /\ op = "poll" /\ status # "expired"
  <2>1. n = [pc |-> "polling", key |-> c.key, code |-> c.code, vip |-> c.vip]
    BY <1>0, <1>3 DEF Answered
  <2>. QED  BY <1>0, <1>3, <2>1 DEF Client
<1>4. CASE status # "approved" /\ op = "refresh" /\ status = "error"
  <2>1. n = [pc |-> "refused", key |-> c.key, code |-> None, vip |-> c.vip]
    BY <1>0, <1>4 DEF Answered
  <2>. QED  BY <1>0, <1>4, <2>1 DEF Client
<1>5. CASE /\ status # "approved"
           /\ ~(op = "init" /\ status = "ok")
           /\ ~(op = "poll" /\ status # "expired")
           /\ ~(op = "refresh" /\ status = "error")
  <2>1. n = [pc |-> "down", key |-> c.key, code |-> None, vip |-> c.vip]
    BY <1>0, <1>5 DEF Answered
  <2>. QED  BY <1>0, <1>5, <2>1 DEF Client
<1>. QED  BY <1>1, <1>2, <1>3, <1>4, <1>5

\* The steps of administrators, of time and of nobody.
LEMMA OtherSteps ==
    ASSUME AuthAssumption, IInv,
           \/ \E s \in Slot, d \in Device, op \in UpdateOps, v \in Ip \cup {None} :
                AdminReads(s, d, op, v)
           \/ \E c \in Code : ApproveSession(c) \/ ExpireSession(c)
           \/ \E d \in Device : DeleteDevice(d)
           \/ \E k \in Key : AgeKey(k)
           \/ UNCHANGED vars
    PROVE  IInv'
<1>. USE DEF IInv, At, TypeOK, past
<1>1. CASE \E s \in Slot, d \in Device, op \in UpdateOps, v \in Ip \cup {None} :
          AdminReads(s, d, op, v)
  <2>. USE DEF AdminReads, Arrives, Idle, ClientOps, UpdateOps, Exists
  <2>1. PICK s \in Slot, d \in Device, op \in UpdateOps, v \in Ip \cup {None} :
         AdminReads(s, d, op, v)
    BY <1>1
  <2>2. TypeOK'
    <3>1. v \in Int
      BY <2>1 DEF Ip, None
    <3>2. call'[s] \in Call
      BY <2>1, <3>1 DEF Call
    <3>. QED  BY <2>1, <3>2
  <2>3. ClientWaits' /\ OneIsHeard'
    BY <2>1 DEF Call, ClientWaits, OneIsHeard, Asking, Client, Waiting
  <2>4. CodesOpened'
    BY <2>1 DEF Call, CodesOpened, Opened, Client, Session
  <2>5. GrantsCarryKeys' /\ ValuesCarried'
    BY <2>1 DEF Call, GrantsCarryKeys, Granted, Asking, ValuesCarried
  <2>. QED  BY <2>2, <2>3, <2>4, <2>5
<1>2. CASE \E c \in Code : ApproveSession(c)
  <2>. USE DEF ApproveSession, NoSession
  <2>1. PICK c \in Code : ApproveSession(c)
    BY <1>2
  <2>2. TypeOK'
    BY <2>1 DEF Call, Session
  <2>3. ClientWaits' /\ OneIsHeard'
    BY <2>1 DEF Call, ClientWaits, OneIsHeard, Asking, Client, Waiting
  <2>4. CodesOpened'
    BY <2>1 DEF Call, CodesOpened, Opened, Client, Session
  <2>5. GrantsCarryKeys' /\ ValuesCarried'
    BY <2>1 DEF Call, GrantsCarryKeys, Granted, Asking, ValuesCarried
  <2>. QED  BY <2>2, <2>3, <2>4, <2>5
<1>3. CASE \E c \in Code : ExpireSession(c)
  <2>. USE DEF ExpireSession, NoSession
  <2>1. PICK c \in Code : ExpireSession(c)
    BY <1>3
  <2>2. TypeOK'
    BY <2>1 DEF Call, Session
  <2>3. ClientWaits' /\ OneIsHeard'
    BY <2>1 DEF Call, ClientWaits, OneIsHeard, Asking, Client, Waiting
  <2>4. CodesOpened'
    BY <2>1 DEF Call, CodesOpened, Opened, Client, Session
  <2>5. GrantsCarryKeys' /\ ValuesCarried'
    BY <2>1 DEF Call, GrantsCarryKeys, Granted, Asking, ValuesCarried
  <2>. QED  BY <2>2, <2>3, <2>4, <2>5
<1>4. CASE \E d \in Device : DeleteDevice(d)
  <2>. USE DEF DeleteDevice, Row
  <2>1. PICK d \in Device : DeleteDevice(d)
    BY <1>4
  <2>2. TypeOK'
    BY <2>1 DEF Call, Session
  <2>3. ClientWaits' /\ OneIsHeard'
    BY <2>1 DEF Call, ClientWaits, OneIsHeard, Asking, Client, Waiting
  <2>4. CodesOpened'
    BY <2>1 DEF Call, CodesOpened, Opened, Client, Session
  <2>5. GrantsCarryKeys' /\ ValuesCarried'
    BY <2>1 DEF Call, GrantsCarryKeys, Granted, Asking, ValuesCarried
  <2>. QED  BY <2>2, <2>3, <2>4, <2>5
<1>5. CASE \E k \in Key : AgeKey(k)
  <2>. USE DEF AgeKey
  <2>1. PICK k \in Key : AgeKey(k)
    BY <1>5
  <2>2. TypeOK'
    BY <2>1 DEF Call, Session
  <2>3. ClientWaits' /\ OneIsHeard'
    BY <2>1 DEF Call, ClientWaits, OneIsHeard, Asking, Client, Waiting
  <2>4. CodesOpened'
    BY <2>1 DEF Call, CodesOpened, Opened, Client, Session
  <2>5. GrantsCarryKeys' /\ ValuesCarried'
    BY <2>1 DEF Call, GrantsCarryKeys, Granted, Asking, ValuesCarried
  <2>. QED  BY <2>2, <2>3, <2>4, <2>5
<1>6. CASE UNCHANGED vars
  BY <1>6 DEF vars, ClientWaits, OneIsHeard, Asking, CodesOpened, Opened, GrantsCarryKeys, Granted, ValuesCarried
<1>. QED  BY <1>1, <1>2, <1>3, <1>4, <1>5, <1>6

\* A client that waits for nothing has no request anybody will hear of.
LEMMA NobodyAsks ==
    ASSUME IInv, NEW d \in Device, NEW s \in Slot, Asking(s), call[s].heard,
           client[d].pc \notin {"initiating", "awaiting", "refreshing"}
    PROVE  call[s].dev # d
  BY DEF IInv, ClientWaits, Asking, ClientOps, Waiting

\* The client goes on by itself.
LEMMA GoesOn ==
    ASSUME IInv, NEW d \in Device, NEW c \in Client,
           client[d].pc \notin {"initiating", "awaiting", "refreshing"},
           c.pc \notin {"polling", "awaiting"},
           client' = [client EXCEPT ![d] = c],
           UNCHANGED <<row, session, call, age, past>>
    PROVE  IInv'
<1>1. TypeOK'
  BY DEF IInv, TypeOK, past
<1>2. ClientWaits' /\ OneIsHeard'
  BY NobodyAsks DEF IInv, TypeOK, ClientWaits, OneIsHeard, Asking
<1>3. CodesOpened'
  BY DEF IInv, TypeOK, CodesOpened, Opened
<1>4. GrantsCarryKeys' /\ ValuesCarried'
  BY DEF IInv, GrantsCarryKeys, Granted, Asking, ValuesCarried, At
<1>. QED  BY <1>1, <1>2, <1>3, <1>4 DEF IInv

\* The client sends a request.
LEMMA SendsRequest ==
    ASSUME IInv, NEW d \in Device, NEW s \in Slot, NEW op \in ClientOps,
           NEW arg \in Int,
           client[d].pc \notin {"initiating", "awaiting", "refreshing"},
           IF op = "poll" THEN client[d].pc = "polling" /\ arg = client[d].code
                          ELSE client[d].pc # "polling",
           Becomes(d, Waiting[op]),
           Arrives(s, op, d, "lookup", arg, NoRow, TRUE),
           UNCHANGED <<row, session, age, past>>
    PROVE  IInv'
<1>. DEFINE new == [op |-> op, dev |-> d, step |-> "lookup", arg |-> arg,
                    snap |-> NoRow, status |-> "none", heard |-> TRUE]
<1>1. call[s] = Idle /\ call' = [call EXCEPT ![s] = new]
  BY DEF Arrives
<1>2. new \in Call
  BY DEF Call, Row, ClientOps
<1>3. /\ new.op \in ClientOps /\ new.dev = d /\ new.heard /\ new.step = "lookup"
      /\ new.arg = arg /\ new.op = op /\ new.status = "none"
  OBVIOUS
<1>. HIDE DEF new
<1>4. call \in [Slot -> Call \cup {Idle}] /\ client \in [Device -> Client]
  BY DEF IInv, TypeOK
<1>5. client' = [client EXCEPT ![d] = [client[d] EXCEPT !.pc = Waiting[op]]]
  BY <1>4 DEF Becomes
<1>6. [client[d] EXCEPT !.pc = Waiting[op]] \in Client
  BY <1>4, ClientMoves DEF Waiting, ClientOps
<1>7. TypeOK'
  <2>1. call' \in [Slot -> Call \cup {Idle}]
    BY <1>1, <1>2, <1>4
  <2>2. client' \in [Device -> Client]
    BY <1>4, <1>5, <1>6
  <2>. QED  BY <2>1, <2>2 DEF IInv, TypeOK, past
<1>8. client'[d].pc = Waiting[op] /\ client'[d].code = client[d].code
  BY <1>4, <1>5 DEF Client
<1>9. ClientWaits' /\ OneIsHeard'
  <2>1. \A t \in Slot : t # s /\ Asking(t) /\ call[t].heard => call[t].dev # d
    BY NobodyAsks
  <2>. QED  BY <1>1, <1>3, <1>4, <1>5, <1>8, <2>1 DEF IInv, ClientWaits, OneIsHeard, Asking
<1>10. CodesOpened'
  <2>1. op = "poll" => Opened(arg, d)
    BY DEF IInv, CodesOpened
  <2>2. op # "poll" => client'[d].pc \notin {"polling", "awaiting"}
    BY <1>8 DEF Waiting, ClientOps
  <2>3. op = "poll" => Opened(client[d].code, d)
    BY <2>1
  <2>. QED  BY <1>1, <1>3, <1>4, <1>5, <1>8, <2>1, <2>2, <2>3 DEF IInv, CodesOpened, Opened
<1>11. GrantsCarryKeys' /\ ValuesCarried'
  BY <1>1, <1>3, <1>4 DEF IInv, GrantsCarryKeys, Granted, Asking, ValuesCarried, At, ClientOps, UpdateOps
<1>. QED  BY <1>7, <1>9, <1>10, <1>11 DEF IInv

\* The client takes an answer, or goes on without one.
LEMMA TakesAnswer ==
    ASSUME IInv, NEW s \in Slot, Asking(s), call[s].heard, NEW status, NEW value,
           status = "approved" => value \in Key,
           call[s].op = "init" /\ status = "ok" => Opened(value, call[s].dev),
           client' = [client EXCEPT ![call[s].dev] =
                        Answered(@, call[s].op, status, value)],
           \/ call' = [call EXCEPT ![s] = Idle]
           \/ call' = [call EXCEPT ![s].heard = FALSE],
           UNCHANGED <<row, session, age, authorized, returned>>,
           faults' \in 0 .. MaxFaults, unheard' \subseteq Device
    PROVE  IInv'
<1>. DEFINE d == call[s].dev
            c == Answered(client[d], call[s].op, status, value)
<1>1. call[s] \in Call /\ d \in Device /\ call[s].op \in ClientOps
  BY CallIs DEF Asking, ClientOps
<1>2. call \in [Slot -> Call \cup {Idle}] /\ client \in [Device -> Client]
  BY DEF IInv, TypeOK
<1>3. client[d].pc = Waiting[call[s].op]
  BY DEF IInv, ClientWaits
<1>4. /\ c \in Client
      /\ c.pc \notin {"initiating", "awaiting", "refreshing"}
      /\ c.pc = "polling" =>
           \/ call[s].op = "poll" /\ c.code = client[d].code
           \/ call[s].op = "init" /\ status = "ok" /\ c.code = value
  BY <1>1, <1>2, <1>3, AnsweredIsClient DEF Opened
<1>5. client' = [client EXCEPT ![d] = c]
  OBVIOUS
<1>6. \A t \in Slot :
        IF t # s THEN call'[t] = call[t]
        ELSE call'[t] \in {Idle, [call[s] EXCEPT !.heard = FALSE]}
  <2>1. CASE call' = [call EXCEPT ![s] = Idle]
    BY <1>2, <2>1
  <2>2. CASE call' = [call EXCEPT ![s].heard = FALSE]
    BY <1>2, <2>2
  <2>. QED  BY <2>1, <2>2
<1>7. [call[s] EXCEPT !.heard = FALSE] \in Call
  BY <1>1 DEF Call
<1>8. \A t \in Slot : Asking(t)' =>
        /\ Asking(t) /\ call'[t].op = call[t].op /\ call'[t].dev = call[t].dev
        /\ call'[t].arg = call[t].arg /\ call'[t].step = call[t].step
        /\ call'[t].status = call[t].status
        /\ call'[t].heard => t # s /\ call[t].heard
  BY <1>1, <1>6 DEF Asking, ClientOps, Idle, Call
<1>. HIDE DEF c, d
<1>9. TypeOK'
  <2>1. call' \in [Slot -> Call \cup {Idle}]
    BY <1>1, <1>2, <1>7
  <2>2. client' \in [Device -> Client]
    BY <1>1, <1>2, <1>4, <1>5
  <2>. QED  BY <2>1, <2>2 DEF IInv, TypeOK
<1>10. ClientWaits' /\ OneIsHeard'
  <2>1. \A t \in Slot : Asking(t)' /\ call'[t].heard => call[t].dev # d
    <3>1. SUFFICES ASSUME NEW t \in Slot, Asking(t), t # s, call[t].heard
                   PROVE  call[t].dev # d
      BY <1>8
    <3>. QED  BY <3>1 DEF IInv, OneIsHeard, d
  <2>. QED  BY <1>1, <1>2, <1>5, <1>8, <2>1 DEF IInv, ClientWaits, OneIsHeard
<1>11. CodesOpened'
  <2>1. c.pc = "polling" => Opened(c.code, d)
    <3>1. call[s].op = "poll" => Opened(client[d].code, d)
      BY <1>1, <1>3 DEF IInv, CodesOpened, Waiting, d
    <3>. QED  BY <1>4, <3>1 DEF d
  <2>2. \A t \in Slot : call'[t].op \in ClientOps => Asking(t)'
    BY DEF Asking
  <2>. QED  BY <1>2, <1>4, <1>5, <1>8, <2>1, <2>2 DEF IInv, CodesOpened, Opened, ClientOps
<1>12. GrantsCarryKeys'
  BY <1>8 DEF IInv, GrantsCarryKeys, Granted
<1>13. ValuesCarried'
  <2>1. \A t \in Slot : call'[t].op \notin ClientOps =>
          call'[t] = Idle \/ call'[t] = call[t]
    BY <1>1, <1>6 DEF Call
  <2>. QED  BY <1>8, <2>1 DEF IInv, ValuesCarried, At, Asking, ClientOps, UpdateOps, Idle
<1>. QED  BY <1>9, <1>10, <1>11, <1>12, <1>13 DEF IInv

\* The steps of the client's process.
LEMMA ClientSteps ==
    ASSUME AuthAssumption, IInv,
           \/ \E d \in Device : Run(d) \/ Lose(d) \/ Stop(d)
           \/ \E s \in Slot : Answer(s) \/ GiveUp(s) \/ Forget(s)
    PROVE  IInv'
<1>0. /\ call \in [Slot -> Call \cup {Idle}] /\ client \in [Device -> Client]
      /\ row \in [Device -> Row] /\ faults \in 0 .. MaxFaults
      /\ unheard \subseteq Device
  BY DEF IInv, TypeOK
<1>1. ASSUME NEW d \in Device, Start(d)
      PROVE  IInv'
  <2>1. client[d].pc = "down" /\ client[d].key \in Int
    BY <1>0, <1>1 DEF Start, Client, Key, None
  <2>2. \A pc \in {"keyed", "refused"} :
          /\ [client[d] EXCEPT !.pc = pc] \in Client
          /\ [client[d] EXCEPT !.pc = pc].pc = pc
    BY <1>0, <2>1, ClientMoves DEF Client
  <2>3. CASE \E pc \in {"keyed", "refused"} : Becomes(d, pc) /\ UNCHANGED call
    <3>1. PICK pc \in {"keyed", "refused"} : Becomes(d, pc) /\ UNCHANGED call
      BY <2>3
    <3>2. client' = [client EXCEPT ![d] = [client[d] EXCEPT !.pc = pc]]
      BY <1>0, <3>1 DEF Becomes
    <3>. DEFINE c == [client[d] EXCEPT !.pc = pc]
    <3>3. c \in Client /\ c.pc \notin {"polling", "awaiting"}
      BY <2>2
    <3>. HIDE DEF c
    <3>. QED  BY <1>1, <2>1, <3>1, <3>2, <3>3, GoesOn DEF Start, c
  <2>4. CASE \E s \in Slot : /\ Becomes(d, "refreshing")
                             /\ Arrives(s, "refresh", d, "lookup", client[d].key,
                                        NoRow, TRUE)
    BY <1>1, <2>1, <2>4, SendsRequest DEF Start, Waiting, ClientOps
  <2>. QED  BY <1>1, <2>3, <2>4 DEF Start
<1>2. ASSUME NEW d \in Device, InitDeviceAuth(d)
      PROVE  IInv'
  <2>1. PICK s \in Slot : Arrives(s, "init", d, "lookup", None, NoRow, TRUE)
    BY <1>2 DEF InitDeviceAuth
  <2>2. None \in Int /\ Waiting["init"] = "initiating" /\ "init" \in ClientOps
    BY DEF None, Waiting, ClientOps
  <2>. QED  BY <1>2, <2>1, <2>2, SendsRequest DEF InitDeviceAuth
<1>3. ASSUME NEW d \in Device, PollAuthStatus(d)
      PROVE  IInv'
  <2>1. client[d].code \in Int
    BY <1>0, <1>3 DEF PollAuthStatus, Client, Code
  <2>. QED  BY <1>3, <2>1, SendsRequest DEF PollAuthStatus, Waiting, ClientOps
<1>4. ASSUME NEW d \in Device, Connect(d)
      PROVE  IInv'
  <2>. DEFINE pc  == IF Accepts(d) THEN "online" ELSE "down"
              vip == IF Accepts(d) THEN EffectiveIP(row[d]) ELSE None
              c   == [client[d] EXCEPT !.pc = pc, !.vip = vip]
  <2>1. vip \in Ip \cup {None}
    BY <1>0 DEF EffectiveIP, Accepts, Row, NoRow
  <2>2. client[d] \in Client /\ client[d].pc = "keyed"
    BY <1>0, <1>4 DEF Connect
  <2>3. client' = [client EXCEPT ![d] = c]
    BY <1>0, <1>4 DEF Connect
  <2>5. c \in Client /\ c.pc \notin {"polling", "awaiting"}
    BY <2>1, <2>2 DEF Client
  <2>. HIDE DEF c
  <2>. QED  BY <1>4, <2>2, <2>3, <2>5, GoesOn DEF Connect
<1>5. ASSUME NEW d \in Device, Rebuild(d) \/ Lose(d)
      PROVE  IInv'
  <2>1. PICK pc \in {"online", "rebuilding"} :
          Becomes(d, pc) /\ client[d].pc \in {"online", "rebuilding"}
    BY <1>5 DEF Rebuild, Lose
  <2>. DEFINE c == [client[d] EXCEPT !.pc = pc]
  <2>2. client' = [client EXCEPT ![d] = c]
    BY <1>0, <2>1 DEF Becomes
  <2>3. c \in Client
    BY <1>0, <2>1, ClientMoves
  <2>4. c.pc = pc
    BY <1>0, <2>1 DEF Client
  <2>. HIDE DEF c
  <2>. QED  BY <1>5, <2>1, <2>2, <2>3, <2>4, GoesOn DEF Rebuild, Lose
<1>6. ASSUME NEW d \in Device, Stop(d)
      PROVE  IInv'
  <2>1. \A e \in Device : IF e # d THEN client'[e] = client[e]
                           ELSE client'[d].pc = "down"
    BY <1>0, <1>6 DEF Stop, Client
  <2>2. \A t \in Slot :
          call'[t] = IF Asking(t) /\ call[t].dev = d
                     THEN [call[t] EXCEPT !.heard = FALSE] ELSE call[t]
    BY <1>6 DEF Stop, Asking
  <2>3. \A t \in Slot : Asking(t) =>
          /\ call[t] \in Call
          /\ [call[t] EXCEPT !.heard = FALSE] \in Call
    <3>1. \A t \in Slot : Asking(t) => call[t] \in Call
      BY <1>0 DEF Asking, ClientOps, Idle
    <3>. QED  BY <3>1 DEF Call
  <2>4. \A t \in Slot :
          /\ Asking(t)' <=> Asking(t)
          /\ call'[t].op = call[t].op
          /\ ~ Asking(t) => call'[t] = call[t]
          /\ Asking(t) =>
               /\ call'[t].dev = call[t].dev /\ call'[t].arg = call[t].arg
               /\ call'[t].step = call[t].step /\ call'[t].status = call[t].status
               /\ call'[t].heard => call[t].heard /\ call[t].dev # d
    <3>1. SUFFICES ASSUME NEW t \in Slot, Asking(t), call[t].dev = d
                   PROVE  LET c == [call[t] EXCEPT !.heard = FALSE] IN
                          /\ c.op = call[t].op /\ c.dev = d /\ c.arg = call[t].arg
                          /\ c.step = call[t].step /\ c.status = call[t].status
                          /\ c.heard = FALSE
      BY <2>2 DEF Asking
    <3>. QED  BY <2>3, <3>1 DEF Call
  <2>5. TypeOK'
    <3>0. [client[d] EXCEPT !.pc = "down", !.code = None, !.vip = None] \in Client
      BY <1>0 DEF Client
    <3>1. client' \in [Device -> Client]
      BY <1>0, <1>6, <3>0 DEF Stop
    <3>2. call' \in [Slot -> Call \cup {Idle}]
      BY <1>0, <1>6, <2>2, <2>3 DEF Stop
    <3>3. faults' \in 0 .. MaxFaults /\ unheard' \subseteq Device
      <4>1. MaxFaults \in Nat
        BY DEF AuthAssumption
      <4>2. /\ faults < MaxFaults /\ faults' = faults + 1
            /\ unheard' \in {unheard, unheard \cup {d}}
        BY <1>6 DEF Stop
      <4>. QED  BY <1>0, <4>1, <4>2
    <3>. QED  BY <1>6, <3>1, <3>2, <3>3 DEF Stop, IInv, TypeOK
  <2>6. ClientWaits' /\ OneIsHeard'
    <3>1. \A t \in Slot : Asking(t) => call[t].dev \in Device
      BY <2>3 DEF Call
    <3>2. ClientWaits'
      BY <2>1, <2>4, <3>1 DEF IInv, ClientWaits
    <3>3. OneIsHeard'
      BY <2>4 DEF IInv, OneIsHeard
    <3>. QED  BY <3>2, <3>3
  <2>7. CodesOpened'
    <3>1. session' = session
      BY <1>6 DEF Stop
    <3>2. \A t \in Slot : call'[t].op \in {"poll", "init"} => Asking(t)
      BY <2>4 DEF Asking, ClientOps
    <3>. QED  BY <2>1, <2>4, <3>1, <3>2 DEF IInv, CodesOpened, Opened
  <2>8. GrantsCarryKeys' /\ ValuesCarried'
    BY <2>4 DEF IInv, GrantsCarryKeys, Granted, ValuesCarried, At, Asking, ClientOps, UpdateOps
  <2>. QED  BY <2>5, <2>6, <2>7, <2>8 DEF IInv
<1>7. ASSUME NEW s \in Slot, Answer(s)
      PROVE  IInv'
  <2>1. call[s].status = "approved" => call[s].arg \in Key
    BY <1>7 DEF Answer, IInv, GrantsCarryKeys, Granted, Asking
  <2>2. call[s].op = "init" /\ call[s].status = "ok" =>
          Opened(call[s].arg, call[s].dev)
    BY <1>7 DEF Answer, IInv, CodesOpened
  <2>. QED  BY <1>0, <1>7, <2>1, <2>2, TakesAnswer DEF Answer, Ends, Asking, past
<1>8. ASSUME NEW s \in Slot, GiveUp(s)
      PROVE  IInv'
  <2>1. call[s].dev \in Device
    BY <1>8, CallIs DEF GiveUp, ClientOps
  <2>2. faults' \in 0 .. MaxFaults /\ unheard' \subseteq Device
    <3>1. MaxFaults \in Nat
      BY DEF AuthAssumption
    <3>2. /\ faults < MaxFaults /\ faults' = faults + 1
          /\ unheard' = unheard \cup {call[s].dev}
      BY <1>8 DEF GiveUp
    <3>. QED  BY <1>0, <2>1, <3>1, <3>2
  <2>3. /\ Asking(s) /\ call[s].heard
        /\ client' = [client EXCEPT ![call[s].dev] =
                        Answered(@, call[s].op, "error", None)]
        /\ call' = [call EXCEPT ![s].heard = FALSE]
        /\ UNCHANGED <<row, session, age, authorized, returned>>
    BY <1>8 DEF GiveUp, Asking
  <2>4. "error" # "approved" /\ "error" # "ok"
    OBVIOUS
  <2>. QED  BY <2>2, <2>3, <2>4, TakesAnswer
<1>9. ASSUME NEW s \in Slot, Forget(s)
      PROVE  IInv'
  <2>1. \A t \in Slot : call'[t] \in {call[t], Idle}
    BY <1>0, <1>9 DEF Forget, Ends
  <2>2. call' \in [Slot -> Call \cup {Idle}]
    BY <1>0, <1>9 DEF Forget, Ends
  <2>3. TypeOK'
    BY <1>9, <2>2 DEF Forget, IInv, TypeOK, past
  <2>4. ClientWaits' /\ OneIsHeard' /\ CodesOpened'
    BY <1>9, <2>1 DEF Forget, IInv, ClientWaits, OneIsHeard, Asking, CodesOpened, Opened, Idle, ClientOps
  <2>5. GrantsCarryKeys' /\ ValuesCarried'
    BY <2>1 DEF IInv, GrantsCarryKeys, Granted, ValuesCarried, At, Asking, Idle, ClientOps, UpdateOps
  <2>. QED  BY <2>3, <2>4, <2>5 DEF IInv
<1>. QED  BY <1>1, <1>2, <1>3, <1>4, <1>5, <1>6, <1>7, <1>8, <1>9 DEF Run

LEMMA InductiveInvariant == Spec => []IInv
<1>1. Init => IInv
  BY AuthAssumption DEF Init, IInv, TypeOK, ClientWaits, OneIsHeard, Asking, CodesOpened,
     GrantsCarryKeys, Granted, ValuesCarried, At, Idle, ClientOps, UpdateOps, Client,
     Row, AuthAssumption
<1>2. IInv /\ [Next]_vars => IInv'
  BY AuthAssumption, ServeSteps, OtherSteps, ClientSteps DEF Next
<1>. QED  BY <1>1, <1>2, PTL DEF Spec

\* Every variable keeps its type.
THEOREM TypeCorrect == Spec => []TypeOK
  BY InductiveInvariant, PTL DEF IInv

-----------------------------------------------------------------------------
\* What an approval is needed for: an approved row, a key in the table or
\* with a client,
RowsApproved ==
  \A d \in Device :
    \/ row[d].status = "approved" \/ row[d].key # None
    \/ client[d].key # None
    => d \in authorized

\* an approved session,
SessionsApproved ==
  \A c \in Code : session[c].status = "approved" => session[c].dev \in authorized

\* a request that will issue keys, or write an approval back.
CallApproved(s) ==
  /\ call[s].op \in UpdateOps /\ call[s].snap.status = "approved" =>
       call[s].dev \in authorized
  /\ /\ Asking(s)
     /\ call[s].status = "approved" \/ call[s].step \in {"mark", "keys"}
     => call[s].dev \in authorized

AllApproved ==
  RowsApproved /\ SessionsApproved /\ \A s \in Slot : CallApproved(s)

\* A request that advances does not gain an approval by itself.
LEMMA ApprovedWhenGone ==
    ASSUME IInv, AllApproved, NEW s \in Slot, call[s] \in Call, NEW step,
           Goes(s, step), step \in {"mark", "keys"} => call[s].dev \in authorized,
           UNCHANGED authorized
    PROVE  \A t \in Slot : CallApproved(t)'
<1>1. \A t \in Slot : CallApproved(t)
  BY DEF AllApproved
<1>2. \A t \in Slot \ {s} : CallApproved(t)'
  BY <1>1, Gone DEF CallApproved, Asking
<1>3. CallApproved(s)'
  BY <1>1, Gone DEF CallApproved, Asking
<1>. QED  BY <1>2, <1>3

LEMMA ApprovedWhenReplied ==
    ASSUME IInv, AllApproved, NEW s \in Slot, call[s] \in Call,
           NEW status, NEW value, Replies(s, status, value),
           status = "approved" => call[s].dev \in authorized,
           UNCHANGED authorized
    PROVE  \A t \in Slot : CallApproved(t)'
<1>1. \A t \in Slot : CallApproved(t)
  BY DEF AllApproved
<1>2. \A t \in Slot \ {s} : CallApproved(t)'
  BY <1>1, Replied DEF CallApproved, Asking
<1>3. CallApproved(s)'
  BY <1>1, Replied DEF CallApproved, Asking
<1>. QED  BY <1>2, <1>3

LEMMA ApprovalServed ==
    ASSUME AuthAssumption, IInv, AllApproved, NEW s \in Slot, Serve(s)
    PROVE  AllApproved'
<1>0. /\ call \in [Slot -> Call \cup {Idle}] /\ client \in [Device -> Client]
      /\ row \in [Device -> Row] /\ session \in [Code -> Session \cup {NoSession}]
  BY DEF IInv, TypeOK
<1>1. call[s] \in Call /\ call[s].dev \in Device
  BY CallIs DEF Serve, InitLookup, InitAllocate, InitCreate, InitSession, PollSession,
     PollDevice, PollMark, RefreshLookup, IssueKeys, AdminValidates, AdminWrites, At,
     UpdateOps
<1>2. CallApproved(s) /\ \A t \in Slot : CallApproved(t)
  BY DEF AllApproved
<1>. DEFINE Same == UNCHANGED <<row, session, client, authorized>>
<1>3. Same => RowsApproved' /\ SessionsApproved'
  BY DEF AllApproved, RowsApproved, SessionsApproved
<1>4. \A step : /\ Goes(s, step) /\ UNCHANGED authorized
                /\ step \in {"mark", "keys"} => call[s].dev \in authorized
                => \A t \in Slot : CallApproved(t)'
  BY <1>1, ApprovedWhenGone
<1>5. \A status, value : /\ Replies(s, status, value) /\ UNCHANGED authorized
                         /\ status = "approved" => call[s].dev \in authorized
                         => \A t \in Slot : CallApproved(t)'
  BY <1>1, ApprovedWhenReplied
<1>6. CASE InitLookup(s)
  <2>1. Same
    BY <1>6 DEF InitLookup, past
  <2>2. Goes(s, "session") \/ Goes(s, "allocate")
    BY <1>6 DEF InitLookup
  <2>. QED  BY <1>3, <1>4, <2>1, <2>2 DEF AllApproved
<1>7. CASE InitAllocate(s)
  <2>1. Same
    BY <1>7 DEF InitAllocate, past
  <2>2. CASE Replies(s, "error", None)
    BY <1>3, <1>5, <2>1, <2>2 DEF AllApproved
  <2>3. CASE \E v : call' = [call EXCEPT ![s].step = "create", ![s].arg = v]
    <3>1. \A t \in Slot : CallApproved(t)'
      BY <1>0, <1>1, <1>2, <1>7, <2>1, <2>3 DEF InitAllocate, CallApproved, Asking, At, Call
    <3>. QED  BY <1>3, <2>1, <3>1 DEF AllApproved
  <2>. QED  BY <1>7, <2>2, <2>3 DEF InitAllocate
<1>8. CASE InitCreate(s)
  <2>1. CASE Exists(call[s].dev)
    <3>1. Same /\ Replies(s, "error", None)
      BY <1>8, <2>1 DEF InitCreate, past
    <3>. QED  BY <1>3, <1>5, <3>1 DEF AllApproved
  <2>2. CASE ~ Exists(call[s].dev)
    <3>. DEFINE new == [NoRow EXCEPT !.status = "pending", !.auto = call[s].arg]
    <3>1. /\ row' = [row EXCEPT ![call[s].dev] = new]
          /\ call' = [call EXCEPT ![s].step = "session", ![s].arg = None]
          /\ UNCHANGED <<session, client, authorized>>
      BY <1>8, <2>2 DEF InitCreate, past
    <3>2. new.status = "pending" /\ new.key = None
      BY <1>8, NewRow DEF InitCreate, IInv, ValuesCarried
    <3>. HIDE DEF new
    <3>3. RowsApproved' /\ SessionsApproved'
      BY <1>0, <1>1, <3>1, <3>2 DEF AllApproved, RowsApproved, SessionsApproved
    <3>4. \A t \in Slot : CallApproved(t)'
      BY <1>0, <1>1, <1>2, <1>8, <3>1 DEF InitCreate, CallApproved, Asking, At, Call
    <3>. QED  BY <3>3, <3>4 DEF AllApproved
  <2>. QED  BY <2>1, <2>2
<1>9. CASE InitSession(s)
  <2>1. RowsApproved' /\ SessionsApproved'
    BY <1>0, <1>9, FreshOnes DEF InitSession, AllApproved, RowsApproved, SessionsApproved, past
  <2>2. Replies(s, "ok", FreshCode) /\ UNCHANGED authorized
    BY <1>9 DEF InitSession, past
  <2>3. "ok" # "approved"
    OBVIOUS
  <2>. QED  BY <1>5, <2>1, <2>2, <2>3 DEF AllApproved
<1>10. CASE PollSession(s)
  <2>. DEFINE c == call[s].arg
  <2>1. Opened(c, call[s].dev)
    BY <1>10 DEF PollSession, At, IInv, CodesOpened
  <2>2. CASE session[c].life = "expired"
    <3>1. Same /\ Replies(s, "expired", None)
      BY <1>10, <2>2 DEF PollSession, past
    <3>. QED  BY <1>3, <1>5, <3>1 DEF AllApproved
  <2>3. CASE session[c].life # "expired"
    <3>1. /\ session' = [session EXCEPT ![c].life = "polled"]
          /\ call' = [call EXCEPT ![s].step = "device", ![s].status = session[c].status]
          /\ UNCHANGED <<row, client, authorized>>
      BY <1>10, <2>3 DEF PollSession, past
    <3>2. RowsApproved'
      BY <3>1 DEF AllApproved, RowsApproved
    <3>3. \A e \in Code : session'[e].status = session[e].status
                         /\ session'[e].dev = session[e].dev
      BY <1>0, <2>1, <3>1 DEF Opened, Session
    <3>4. SessionsApproved'
      BY <3>1, <3>3 DEF AllApproved, SessionsApproved
    <3>5. session[c].status = "approved" => call[s].dev \in authorized
      BY <2>1 DEF AllApproved, SessionsApproved, Opened
    <3>6. \A t \in Slot : CallApproved(t)'
      BY <1>0, <1>1, <1>2, <1>10, <3>1, <3>5 DEF PollSession, CallApproved, Asking, At, Call, UpdateOps
    <3>. QED  BY <3>2, <3>4, <3>6 DEF AllApproved
  <2>. QED  BY <2>2, <2>3
<1>11. CASE PollDevice(s)
  <2>1. Same
    BY <1>11 DEF PollDevice, past
  <2>2. CASE Replies(s, "error", None) \/ Replies(s, "pending", None)
    <3>1. "error" # "approved" /\ "pending" # "approved"
      OBVIOUS
    <3>. QED  BY <1>3, <1>5, <2>1, <2>2, <3>1 DEF AllApproved
  <2>3. CASE /\ MayIssue(call[s].dev, call[s].status)
             /\ Goes(s, "keys") \/ Goes(s, "mark")
    <3>1. call[s].dev \in authorized
      BY <1>1, <1>2, <1>11, <2>3 DEF PollDevice, At, MayIssue, CallApproved, Asking, ClientOps, AllApproved, RowsApproved
    <3>. QED  BY <1>3, <1>4, <2>1, <2>3, <3>1 DEF AllApproved
  <2>. QED  BY <1>11, <2>2, <2>3 DEF PollDevice
<1>12. CASE PollMark(s)
  <2>1. Opened(call[s].arg, call[s].dev)
    BY <1>12 DEF PollMark, At, IInv, CodesOpened
  <2>2. call[s].dev \in authorized
    BY <1>2, <1>12 DEF PollMark, At, CallApproved, Asking, ClientOps
  <2>3. RowsApproved' /\ SessionsApproved'
    BY <1>0, <1>12, <2>1, <2>2 DEF PollMark, AllApproved, RowsApproved, SessionsApproved, Opened, Session, past
  <2>4. Goes(s, "keys") /\ UNCHANGED authorized
    BY <1>12 DEF PollMark, past
  <2>. QED  BY <1>4, <2>2, <2>3, <2>4 DEF AllApproved
<1>13. CASE RefreshLookup(s)
  <2>1. Same
    BY <1>13 DEF RefreshLookup, past
  <2>2. CASE Replies(s, "error", None)
    BY <1>3, <1>5, <2>1, <2>2 DEF AllApproved
  <2>3. CASE row[call[s].dev].status = "approved" /\ Goes(s, "keys")
    <3>1. call[s].dev \in authorized
      BY <1>1, <2>3 DEF AllApproved, RowsApproved
    <3>. QED  BY <1>3, <1>4, <2>1, <2>3, <3>1 DEF AllApproved
  <2>. QED  BY <1>13, <2>2, <2>3 DEF RefreshLookup
<1>14. CASE IssueKeys(s)
  <2>1. call[s].dev \in authorized
    BY <1>2, <1>14 DEF IssueKeys, CallApproved, Asking, ClientOps
  <2>2. RowsApproved' /\ SessionsApproved'
    BY <1>0, <1>14, <2>1 DEF IssueKeys, Keyed, AllApproved, RowsApproved, SessionsApproved, past
  <2>3. Replies(s, "approved", FreshKey) /\ UNCHANGED authorized
    BY <1>14 DEF IssueKeys, past
  <2>. QED  BY <1>5, <2>1, <2>2, <2>3 DEF AllApproved
<1>15. CASE AdminValidates(s)
  <2>1. Same
    BY <1>15 DEF AdminValidates, past
  <2>2. CASE Goes(s, "write")
    BY <1>3, <1>4, <2>1, <2>2 DEF AllApproved
  <2>3. CASE Ends(s)
    <3>1. \A t \in Slot : CallApproved(t)'
      BY <1>0, <1>2, <2>1, <2>3 DEF Ends, Idle, CallApproved, Asking, ClientOps, UpdateOps
    <3>. QED  BY <1>3, <2>1, <3>1 DEF AllApproved
  <2>. QED  BY <1>15, <2>2, <2>3 DEF AdminValidates
<1>16. CASE AdminWrites(s)
  <2>. DEFINE d == call[s].dev
              new == Updated(row[d], call[s])
  <2>1. row[d] \in Row /\ call[s].op \in UpdateOps
    BY <1>0, <1>1, <1>16 DEF AdminWrites
  <2>2. /\ new.key = row[d].key
        /\ new.status = "approved" => d \in authorized'
    BY <1>1, <1>2, <1>16, <2>1, UpdatedIsRow DEF AdminWrites, IInv, ValuesCarried, CallApproved
  <2>3. row' = [row EXCEPT ![d] = new] /\ authorized \subseteq authorized'
        /\ UNCHANGED <<session, client>> /\ Ends(s)
    BY <1>16 DEF AdminWrites
  <2>. HIDE DEF new
  <2>4. RowsApproved' /\ SessionsApproved'
    BY <1>0, <1>1, <2>2, <2>3 DEF AllApproved, RowsApproved, SessionsApproved
  <2>5. \A t \in Slot : CallApproved(t)'
    BY <1>0, <1>2, <2>3 DEF Ends, Idle, CallApproved, Asking, ClientOps, UpdateOps
  <2>. QED  BY <2>4, <2>5 DEF AllApproved
<1>. QED  BY <1>6, <1>7, <1>8, <1>9, <1>10, <1>11, <1>12, <1>13, <1>14, <1>15, <1>16 DEF Serve

\* The client's key changes only with an answer that brings one.
LEMMA ClientKeepsKey ==
    ASSUME IInv,
           \/ \E d \in Device : Run(d) \/ Lose(d) \/ Stop(d)
           \/ \E s \in Slot : GiveUp(s)
           \/ UNCHANGED client
    PROVE  \A e \in Device : client'[e].key = client[e].key
<1>0. client \in [Device -> Client]
  BY DEF IInv, TypeOK
<1>1. ASSUME NEW d \in Device, Run(d) \/ Lose(d) \/ Stop(d)
      PROVE  \A e \in Device : client'[e].key = client[e].key
  <2>1. client[d] \in Client
    BY <1>0
  <2>2. CASE \E pc : Becomes(d, pc)
    BY <1>0, <2>1, <2>2 DEF Becomes, Client
  <2>3. CASE Connect(d)
    <3>1. \A pc, vip : [client[d] EXCEPT !.pc = pc, !.vip = vip].key = client[d].key
      BY <2>1 DEF Client
    <3>. QED  BY <1>0, <2>3, <3>1 DEF Connect
  <2>4. CASE Stop(d)
    <3>1. [client[d] EXCEPT !.pc = "down", !.code = None, !.vip = None].key
            = client[d].key
      BY <2>1 DEF Client
    <3>. QED  BY <1>0, <2>4, <3>1 DEF Stop
  <2>. QED  BY <1>1, <2>2, <2>3, <2>4 DEF Run, Start, InitDeviceAuth, PollAuthStatus, Rebuild, Lose
<1>2. ASSUME NEW s \in Slot, GiveUp(s)
      PROVE  \A e \in Device : client'[e].key = client[e].key
  <2>. DEFINE d == call[s].dev
  <2>1. d \in Device /\ Asking(s) /\ call[s].heard
    BY <1>2, CallIs DEF GiveUp, Asking, ClientOps
  <2>2. client[d].pc = Waiting[call[s].op] /\ client[d] \in Client /\ call[s].op \in ClientOps
    BY <1>0, <2>1 DEF IInv, ClientWaits, Asking
  <2>3. Answered(client[d], call[s].op, "error", None).key = client[d].key
    BY <2>2, AnsweredIsClient
  <2>. QED  BY <1>0, <1>2, <2>1, <2>3 DEF GiveUp
<1>. QED  BY <1>1, <1>2

LEMMA AnswerBringsKey ==
    ASSUME IInv, NEW s \in Slot, Answer(s)
    PROVE  LET d == call[s].dev IN
           /\ \A e \in Device \ {d} : client'[e] = client[e]
           /\ client'[d].key = IF Granted(s) THEN call[s].arg ELSE client[d].key
<1>. DEFINE d == call[s].dev
<1>0. client \in [Device -> Client]
  BY DEF IInv, TypeOK
<1>1. d \in Device /\ Asking(s) /\ call[s].heard
  BY CallIs DEF Answer, Asking, ClientOps
<1>2. client[d].pc = Waiting[call[s].op] /\ client[d] \in Client /\ call[s].op \in ClientOps
  BY <1>0, <1>1 DEF IInv, ClientWaits, Asking
<1>3. /\ call[s].status = "approved" <=> Granted(s)
      /\ Granted(s) => call[s].arg \in Key
      /\ call[s].op = "init" /\ call[s].status = "ok" => call[s].arg \in Code
  BY <1>1 DEF Answer, Granted, IInv, GrantsCarryKeys, CodesOpened, Opened
<1>4. Answered(client[d], call[s].op, call[s].status, call[s].arg).key =
        IF Granted(s) THEN call[s].arg ELSE client[d].key
  BY <1>2, <1>3, AnsweredIsClient
<1>. QED  BY <1>0, <1>1, <1>4 DEF Answer

\* What the other steps may do without giving anybody an approval.
LEMMA ApprovalKept ==
    ASSUME IInv, AllApproved, authorized \subseteq authorized',
           \A d \in Device :
             /\ row'[d] \in {row[d], NoRow}
             /\ client'[d].key = client[d].key \/ d \in authorized,
           \A c \in Code :
             /\ session'[c].dev = session[c].dev
             /\ session'[c].status = "approved" =>
                  session[c].status = "approved" \/ session[c].dev \in authorized',
           \A t \in Slot :
             \/ call'[t] = Idle
             \/ /\ call'[t].op = call[t].op /\ call'[t].dev = call[t].dev
                /\ call'[t].snap = call[t].snap /\ call'[t].step = call[t].step
                /\ call'[t].status = call[t].status
             \/ /\ call'[t].op \in ClientOps
                /\ call'[t].status = "none" /\ call'[t].step = "lookup"
             \/ /\ call'[t].op \in UpdateOps
                /\ call'[t].dev \in Device /\ call'[t].snap = row[call'[t].dev]
    PROVE  AllApproved'
<1>1. RowsApproved'
  BY DEF AllApproved, RowsApproved, NoRow
<1>2. SessionsApproved'
  BY DEF AllApproved, SessionsApproved
<1>3. ASSUME NEW t \in Slot
      PROVE  CallApproved(t)'
  <2>1. CallApproved(t) /\ RowsApproved
    BY DEF AllApproved
  <2>. QED  BY <2>1 DEF CallApproved, Asking, RowsApproved, ClientOps, UpdateOps, Idle
<1>. QED  BY <1>1, <1>2, <1>3 DEF AllApproved

LEMMA ApprovalElsewhere ==
    ASSUME AuthAssumption, IInv, AllApproved,
           \/ \E s \in Slot, d \in Device, op \in UpdateOps, v \in Ip \cup {None} :
                AdminReads(s, d, op, v)
           \/ \E c \in Code : ApproveSession(c) \/ ExpireSession(c)
           \/ \E d \in Device : DeleteDevice(d) \/ Run(d) \/ Lose(d) \/ Stop(d)
           \/ \E k \in Key : AgeKey(k)
           \/ \E s \in Slot : Answer(s) \/ GiveUp(s) \/ Forget(s)
           \/ UNCHANGED vars
    PROVE  AllApproved'
<1>0. /\ call \in [Slot -> Call \cup {Idle}] /\ client \in [Device -> Client]
      /\ row \in [Device -> Row] /\ session \in [Code -> Session \cup {NoSession}]
  BY DEF IInv, TypeOK
<1>1. ASSUME NEW s \in Slot, NEW d \in Device, NEW op \in UpdateOps,
             NEW v \in Ip \cup {None}, AdminReads(s, d, op, v)
      PROVE  AllApproved'
  <2>1. \A t \in Slot : \/ call'[t] = call[t]
                        \/ /\ call'[t].op \in UpdateOps /\ call'[t].dev = d
                           /\ call'[t].snap = row[d]
    BY <1>0, <1>1 DEF AdminReads, Arrives
  <2>. QED  BY <1>1, <2>1, ApprovalKept DEF AdminReads, past
<1>2. ASSUME NEW c \in Code, ApproveSession(c) \/ ExpireSession(c)
      PROVE  AllApproved'
  <2>1. /\ authorized \subseteq authorized'
        /\ UNCHANGED <<row, call, client>>
    BY <1>2 DEF ApproveSession, ExpireSession, past
  <2>2. session[c] \in Session
    BY <1>0, <1>2 DEF ApproveSession, ExpireSession, NoSession
  <2>3. \A e \in Code : /\ session'[e].dev = session[e].dev
                        /\ session'[e].status = "approved" =>
                             \/ session[e].status = "approved"
                             \/ session[e].dev \in authorized'
    BY <1>0, <1>2, <2>2 DEF ApproveSession, ExpireSession, Session
  <2>. QED  BY <2>1, <2>3, ApprovalKept
<1>3. ASSUME NEW d \in Device, DeleteDevice(d)
      PROVE  AllApproved'
  <2>1. \A e \in Device : row'[e] \in {row[e], NoRow}
    BY <1>0, <1>3 DEF DeleteDevice
  <2>. QED  BY <1>3, <2>1, ApprovalKept DEF DeleteDevice, past
<1>4. ASSUME NEW d \in Device, Run(d) \/ Lose(d) \/ Stop(d)
      PROVE  AllApproved'
  <2>1. UNCHANGED <<row, session, authorized>>
    BY <1>4 DEF Run, Start, InitDeviceAuth, PollAuthStatus, Connect, Rebuild, Lose, Stop, past
  <2>2. \A e \in Device : client'[e].key = client[e].key
    BY <1>4, ClientKeepsKey
  <2>3. \/ UNCHANGED call
        \/ \E s \in Slot, op \in ClientOps : \E arg : Arrives(s, op, d, "lookup", arg, NoRow, TRUE)
        \/ Stop(d)
    BY <1>4 DEF Run, Start, InitDeviceAuth, PollAuthStatus, Connect, Rebuild, Lose, ClientOps
  <2>4. CASE UNCHANGED call
    BY <2>1, <2>2, <2>4, ApprovalKept
  <2>5. CASE \E s \in Slot, op \in ClientOps : \E arg : Arrives(s, op, d, "lookup", arg, NoRow, TRUE)
    <3>1. \A t \in Slot : \/ call'[t] = call[t]
                          \/ /\ call'[t].op \in ClientOps
                             /\ call'[t].status = "none" /\ call'[t].step = "lookup"
      BY <1>0, <2>5 DEF Arrives
    <3>. QED  BY <2>1, <2>2, <3>1, ApprovalKept
  <2>6. CASE Stop(d)
    <3>1. \A t \in Slot : /\ call'[t].op = call[t].op /\ call'[t].dev = call[t].dev
                          /\ call'[t].snap = call[t].snap /\ call'[t].step = call[t].step
                          /\ call'[t].status = call[t].status
      <4>1. ASSUME NEW t \in Slot, call[t].op \in ClientOps
            PROVE  LET c == [call[t] EXCEPT !.heard = FALSE] IN
                   /\ c.op = call[t].op /\ c.dev = call[t].dev /\ c.snap = call[t].snap
                   /\ c.step = call[t].step /\ c.status = call[t].status
        BY <1>0, <4>1 DEF Call, Idle, ClientOps
      <4>. QED  BY <2>6, <4>1 DEF Stop
    <3>. QED  BY <2>1, <2>2, <3>1, ApprovalKept
  <2>. QED  BY <2>3, <2>4, <2>5, <2>6
<1>5. ASSUME NEW k \in Key, AgeKey(k)
      PROVE  AllApproved'
  BY <1>5, ApprovalKept DEF AgeKey, past
<1>6. ASSUME NEW s \in Slot, Answer(s) \/ GiveUp(s)
      PROVE  AllApproved'
  <2>1. call[s] \in Call
    BY <1>6, CallIs DEF Answer, GiveUp, ClientOps
  <2>6. \A e \in Device : client'[e].key = client[e].key \/ e \in authorized
    <3>1. CASE Answer(s)
      <4>1. Granted(s) => call[s].dev \in authorized
        BY DEF AllApproved, CallApproved, Granted
      <4>. QED  BY <3>1, <4>1, AnswerBringsKey
    <3>2. CASE GiveUp(s)
      BY <3>2, ClientKeepsKey
    <3>. QED  BY <1>6, <3>1, <3>2
  <2>7. \A t \in Slot : \/ call'[t] = Idle
                        \/ /\ call'[t].op = call[t].op /\ call'[t].dev = call[t].dev
                           /\ call'[t].snap = call[t].snap /\ call'[t].step = call[t].step
                           /\ call'[t].status = call[t].status
    BY <1>0, <1>6, <2>1 DEF Answer, GiveUp, Ends, Call
  <2>8. UNCHANGED <<row, session, authorized>>
    BY <1>6 DEF Answer, GiveUp, past
  <2>. QED  BY <2>6, <2>7, <2>8, ApprovalKept
<1>7. ASSUME NEW s \in Slot, Forget(s)
      PROVE  AllApproved'
  <2>1. \A t \in Slot : call'[t] \in {call[t], Idle}
    BY <1>0, <1>7 DEF Forget, Ends
  <2>. QED  BY <1>7, <2>1, ApprovalKept DEF Forget, past
<1>8. CASE UNCHANGED vars
  BY <1>8, ApprovalKept DEF vars, past
<1>. QED  BY <1>1, <1>2, <1>3, <1>4, <1>5, <1>6, <1>7, <1>8

LEMMA ApprovalsHold == Spec => []AllApproved
<1>1. Init => AllApproved
  BY DEF Init, AllApproved, RowsApproved, SessionsApproved, CallApproved, Asking,
     NoRow, NoSession, Idle, ClientOps, UpdateOps
<1>2. IInv /\ AllApproved /\ [Next]_vars => AllApproved'
  BY AuthAssumption, ApprovalServed, ApprovalElsewhere DEF Next
<1>. QED  BY <1>1, <1>2, InductiveInvariant, PTL DEF Spec

\* No key is issued without an approval: handleAuthPoll and handleAuthRefresh
\* decide before they write, and by then the row they read may have gone.
THEOREM ApprovalNeeded == Spec => []NoKeysWithoutApproval
<1>1. AllApproved => NoKeysWithoutApproval
  BY DEF AllApproved, RowsApproved, NoKeysWithoutApproval
<1>. QED  BY <1>1, ApprovalsHold, PTL

-----------------------------------------------------------------------------
\* Only who gives up or is stopped leaves a request nobody hears of; the
\* table holds the client's key, or the one on its way to it.
Heard == \A s \in Slot : Asking(s) /\ call[s].dev \notin unheard => call[s].heard
TableAgrees ==
  \A d \in Device :
    d \notin unheard /\ (\A s \in Slot : Granted(s) => call[s].dev # d)
    => row[d].key \in {client[d].key, None}
GrantsAgree ==
  \A s \in Slot : Granted(s) /\ call[s].dev \notin unheard =>
    row[call[s].dev].key \in {call[s].arg, None}

KeysInv == Heard /\ TableAgrees /\ GrantsAgree

\* What every step but the issue and the arrival of keys does.
LEMMA KeysKept ==
    ASSUME KeysInv, unheard \subseteq unheard',
           \A d \in Device : /\ row'[d].key \in {row[d].key, None}
                             /\ client'[d].key = client[d].key,
           \A t \in Slot :
             /\ Asking(t)' /\ call'[t].dev \notin unheard' => call'[t].heard
             /\ Granted(t)' => /\ Granted(t) /\ call'[t].dev = call[t].dev
                               /\ call'[t].arg = call[t].arg
             /\ Granted(t) => /\ call[t].dev \in Device
                              /\ \/ call[t].dev \in unheard'
                                 \/ Granted(t)' /\ call'[t].dev = call[t].dev
    PROVE  KeysInv'
<1>1. Heard'
  BY DEF Heard
<1>2. TableAgrees'
  BY DEF KeysInv, TableAgrees
<1>3. GrantsAgree'
  BY DEF KeysInv, GrantsAgree
<1>. QED  BY <1>1, <1>2, <1>3 DEF KeysInv

\* Nothing but IssueKeys makes an answer that carries keys.
LEMMA ServesNoKeys ==
    ASSUME AuthAssumption, IInv, NEW s \in Slot, Serve(s), ~ IssueKeys(s)
    PROVE  /\ \A t \in Slot \ {s} : call'[t] = call[t]
           /\ ~ Granted(s) /\ ~ Granted(s)'
           /\ Asking(s)' => /\ Asking(s) /\ call'[s].dev = call[s].dev
                            /\ call'[s].heard = call[s].heard
<1>0. call \in [Slot -> Call \cup {Idle}]
  BY DEF IInv, TypeOK
<1>1. call[s] \in Call /\ call[s].step # "reply"
  BY CallIs DEF Serve, InitLookup, InitAllocate, InitCreate, InitSession, PollSession,
     PollDevice, PollMark, RefreshLookup, IssueKeys, AdminValidates, AdminWrites, At,
     UpdateOps
<1>2. CASE \E step : step # "reply" /\ Goes(s, step)
  BY <1>1, <1>2, Gone DEF Granted, Asking
<1>3. CASE \E status, value : status # "approved" /\ Replies(s, status, value)
  BY <1>1, <1>3, Replied DEF Granted, Asking
<1>4. CASE Ends(s) /\ call[s].op \notin ClientOps
  BY <1>0, <1>4 DEF Ends, Idle, Granted, Asking, ClientOps
<1>5. CASE \E step, arg : /\ step # "reply"
                          /\ call' = [call EXCEPT ![s].step = step, ![s].arg = arg]
  BY <1>0, <1>1, <1>5 DEF Granted, Asking, Call
<1>6. CASE \E step, status : /\ step # "reply"
                             /\ call' = [call EXCEPT ![s].step = step, ![s].status = status]
  BY <1>0, <1>1, <1>6 DEF Granted, Asking, Call
<1>7. InitLookup(s) \/ PollMark(s) => \E step : step # "reply" /\ Goes(s, step)
  BY DEF InitLookup, PollMark
<1>8. AdminValidates(s) \/ AdminWrites(s) =>
        \/ \E step : step # "reply" /\ Goes(s, step)
        \/ Ends(s) /\ call[s].op \notin ClientOps
  BY DEF AdminValidates, AdminWrites, At, ClientOps, UpdateOps
<1>9. InitAllocate(s) \/ InitCreate(s) =>
        \/ \E status, value : status # "approved" /\ Replies(s, status, value)
        \/ \E step, arg : /\ step # "reply"
                          /\ call' = [call EXCEPT ![s].step = step, ![s].arg = arg]
  BY DEF InitAllocate, InitCreate
<1>10. PollDevice(s) \/ RefreshLookup(s) \/ InitSession(s) =>
        \/ \E status, value : status # "approved" /\ Replies(s, status, value)
        \/ \E step : step # "reply" /\ Goes(s, step)
  BY DEF PollDevice, RefreshLookup, InitSession
<1>11. PollSession(s) =>
        \/ \E status, value : status # "approved" /\ Replies(s, status, value)
        \/ \E step, status : /\ step # "reply"
                             /\ call' = [call EXCEPT ![s].step = step, ![s].status = status]
  BY DEF PollSession
<1>. QED  BY <1>2, <1>3, <1>4, <1>5, <1>6, <1>7, <1>8, <1>9, <1>10, <1>11 DEF Serve

\* No step of the server changes a key but IssueKeys.
LEMMA ServeKeepsKeys ==
    ASSUME AuthAssumption, IInv, NEW s \in Slot, Serve(s), ~ IssueKeys(s)
    PROVE  /\ UNCHANGED <<client, unheard>>
           /\ \A d \in Device : row'[d].key \in {row[d].key, None}
<1>0. row \in [Device -> Row]
  BY DEF IInv, TypeOK
<1>1. CASE InitCreate(s)
  <2>1. [NoRow EXCEPT !.status = "pending", !.auto = call[s].arg].key = None
    BY DEF NoRow
  <2>. QED  BY <1>0, <1>1, <2>1 DEF InitCreate, past
<1>2. CASE AdminWrites(s)
  <2>1. call[s] \in Call /\ call[s].dev \in Device /\ call[s].op \in UpdateOps
    BY <1>2, CallIs DEF AdminWrites, UpdateOps
  <2>2. Updated(row[call[s].dev], call[s]).key = row[call[s].dev].key
    BY <1>0, <2>1, UpdatedIsRow DEF IInv, ValuesCarried
  <2>. QED  BY <1>0, <1>2, <2>1, <2>2 DEF AdminWrites
<1>3. CASE ~ InitCreate(s) /\ ~ AdminWrites(s)
  BY <1>3 DEF Serve, InitLookup, InitAllocate, InitSession, PollSession, PollDevice,
     PollMark, RefreshLookup, AdminValidates, past
<1>. QED  BY <1>1, <1>2, <1>3

LEMMA KeysServed ==
    ASSUME AuthAssumption, IInv, KeysInv, NEW s \in Slot, Serve(s)
    PROVE  KeysInv'
<1>0. \A t \in Slot : Asking(t) => call[t].dev \in Device
  BY CallIs DEF Asking, ClientOps
<1>1. CASE ~ IssueKeys(s)
  BY <1>0, <1>1, ServesNoKeys, ServeKeepsKeys, KeysKept DEF KeysInv, Heard, Granted, Asking
<1>2. CASE IssueKeys(s)
  <2>. DEFINE d == call[s].dev
  <2>1. call[s] \in Call /\ d \in Device /\ Asking(s)
    BY <1>2, CallIs DEF IssueKeys, Asking, ClientOps
  <2>2. /\ row' = Keyed(d, FreshKey) /\ Replies(s, "approved", FreshKey)
        /\ UNCHANGED <<client, unheard>>
    BY <1>2 DEF IssueKeys, past
  <2>3. /\ row'[d].key \in {FreshKey, None}
        /\ \A e \in Device \ {d} : row'[e] = row[e]
    <3>1. row \in [Device -> Row]
      BY DEF IInv, TypeOK
    <3>2. CASE Exists(d)
      <4>1. [row[d] EXCEPT !.key = FreshKey, !.status = "approved"].key = FreshKey
        BY <2>1, <3>1, <3>2 DEF Row, NoRow, Exists
      <4>. QED  BY <2>1, <2>2, <3>1, <3>2, <4>1 DEF Keyed
    <3>3. CASE ~ Exists(d)
      BY <2>1, <2>2, <3>1, <3>3 DEF Keyed, Exists, Row, NoRow
    <3>. QED  BY <3>2, <3>3
  <2>4. /\ \A t \in Slot \ {s} : call'[t] = call[t]
        /\ call'[s].dev = d /\ call'[s].arg = FreshKey /\ Granted(s)'
        /\ Asking(s)' /\ call'[s].heard = call[s].heard
    BY <2>1, <2>2, Replied DEF Granted, Asking
  <2>5. \A t \in Slot \ {s} : Asking(t) /\ call[t].dev = d => d \in unheard
    BY <2>1 DEF IInv, OneIsHeard, KeysInv, Heard
  <2>. HIDE DEF d
  <2>6. Heard'
    BY <2>1, <2>2, <2>4 DEF KeysInv, Heard, Asking, d
  <2>7. TableAgrees'
    <3>1. SUFFICES ASSUME NEW e \in Device, e # d, e \notin unheard,
                          \A t \in Slot : Granted(t)' => call'[t].dev # e
                   PROVE  row'[e].key \in {client[e].key, None}
      BY <2>2, <2>4 DEF TableAgrees
    <3>2. \A t \in Slot : Granted(t) => call[t].dev # e
      BY <2>4, <3>1 DEF Granted, Asking, d
    <3>. QED  BY <2>3, <3>1, <3>2 DEF KeysInv, TableAgrees
  <2>8. GrantsAgree'
    <3>1. SUFFICES ASSUME NEW t \in Slot \ {s}, Granted(t), call[t].dev \notin unheard
                   PROVE  row'[call[t].dev].key \in {call[t].arg, None}
      BY <2>2, <2>3, <2>4 DEF GrantsAgree, Granted, Asking
    <3>2. call[t].dev \in Device \ {d}
      BY <1>0, <2>5, <3>1 DEF Granted
    <3>. QED  BY <2>3, <3>1, <3>2 DEF KeysInv, GrantsAgree
  <2>. QED  BY <2>6, <2>7, <2>8 DEF KeysInv
<1>. QED  BY <1>1, <1>2

LEMMA KeysElsewhere ==
    ASSUME AuthAssumption, IInv, KeysInv,
           \/ \E s \in Slot, d \in Device, op \in UpdateOps, v \in Ip \cup {None} :
                AdminReads(s, d, op, v)
           \/ \E c \in Code : ApproveSession(c) \/ ExpireSession(c)
           \/ \E d \in Device : DeleteDevice(d) \/ Run(d) \/ Lose(d) \/ Stop(d)
           \/ \E k \in Key : AgeKey(k)
           \/ \E s \in Slot : Answer(s) \/ GiveUp(s) \/ Forget(s)
           \/ UNCHANGED vars
    PROVE  KeysInv'
<1>0. /\ call \in [Slot -> Call \cup {Idle}] /\ client \in [Device -> Client]
      /\ row \in [Device -> Row]
      /\ \A t \in Slot : Asking(t) => call[t] \in Call /\ call[t].dev \in Device
  BY CallIs DEF IInv, TypeOK, Asking, ClientOps
<1>1. \A t \in Slot : /\ Granted(t) => Asking(t)
                      /\ Asking(t) /\ call[t].dev \notin unheard => call[t].heard
  BY DEF Granted, KeysInv, Heard
<1>2. ASSUME NEW s \in Slot, NEW d \in Device, NEW op \in UpdateOps,
             NEW v \in Ip \cup {None}, AdminReads(s, d, op, v)
      PROVE  KeysInv'
  <2>1. /\ call[s] = Idle /\ call'[s].op = op
        /\ \A t \in Slot \ {s} : call'[t] = call[t]
    BY <1>0, <1>2 DEF AdminReads, Arrives
  <2>2. ~ Asking(s) /\ ~ Asking(s)'
    BY <2>1 DEF Asking, Idle, ClientOps, UpdateOps
  <2>. QED  BY <1>0, <1>1, <1>2, <2>1, <2>2, KeysKept DEF AdminReads, past, Granted, Asking
<1>3. ASSUME \/ \E c \in Code : ApproveSession(c) \/ ExpireSession(c)
             \/ \E d \in Device : DeleteDevice(d)
             \/ \E k \in Key : AgeKey(k)
             \/ UNCHANGED vars
      PROVE  KeysInv'
  <2>1. UNCHANGED <<call, client, unheard>>
    BY <1>3 DEF ApproveSession, ExpireSession, DeleteDevice, AgeKey, past, vars
  <2>2. \A e \in Device : row'[e].key \in {row[e].key, None}
    BY <1>0, <1>3 DEF ApproveSession, ExpireSession, DeleteDevice, AgeKey, past, vars, NoRow
  <2>. QED  BY <1>0, <1>1, <2>1, <2>2, KeysKept DEF Granted, Asking
<1>4. ASSUME NEW d \in Device, Run(d) \/ Lose(d) \/ Stop(d)
      PROVE  KeysInv'
  <2>1. UNCHANGED row
    BY <1>4 DEF Run, Start, InitDeviceAuth, PollAuthStatus, Connect, Rebuild, Lose, Stop
  <2>2. \A e \in Device : client'[e].key = client[e].key
    BY <1>4, ClientKeepsKey
  <2>3. \/ UNCHANGED <<call, unheard>>
        \/ /\ UNCHANGED unheard
           /\ \E s \in Slot, op \in ClientOps : \E arg : Arrives(s, op, d, "lookup", arg, NoRow, TRUE)
        \/ Stop(d)
    BY <1>4 DEF Run, Start, InitDeviceAuth, PollAuthStatus, Connect, Rebuild, Lose, ClientOps, past
  <2>4. CASE UNCHANGED <<call, unheard>>
    BY <1>0, <1>1, <2>1, <2>2, <2>4, KeysKept DEF Granted, Asking
  <2>5. ASSUME UNCHANGED unheard, NEW s \in Slot, NEW op \in ClientOps, NEW arg,
               Arrives(s, op, d, "lookup", arg, NoRow, TRUE)
        PROVE  KeysInv'
    <3>1. /\ call[s] = Idle /\ call'[s].heard /\ call'[s].step = "lookup"
          /\ \A t \in Slot \ {s} : call'[t] = call[t]
      BY <1>0, <2>5 DEF Arrives
    <3>2. ~ Granted(s) /\ ~ Granted(s)'
      BY <3>1 DEF Granted, Asking, Idle, ClientOps
    <3>. QED  BY <1>0, <1>1, <2>1, <2>2, <2>5, <3>1, <3>2, KeysKept DEF Granted, Asking
  <2>6. CASE Stop(d)
    <3>1. \A t \in Slot :
            IF Asking(t) /\ call[t].dev = d
            THEN /\ call'[t].op = call[t].op /\ call'[t].dev = d
                 /\ call'[t].arg = call[t].arg /\ call'[t].step = call[t].step
                 /\ call'[t].status = call[t].status /\ ~ call'[t].heard
            ELSE call'[t] = call[t]
      <4>1. ASSUME NEW t \in Slot, Asking(t), call[t].dev = d
            PROVE  LET c == [call[t] EXCEPT !.heard = FALSE] IN
                   /\ c.op = call[t].op /\ c.dev = d /\ c.arg = call[t].arg
                   /\ c.step = call[t].step /\ c.status = call[t].status
                   /\ ~ c.heard
        BY <1>0, <4>1 DEF Call
      <4>. QED  BY <2>6, <4>1 DEF Stop, Asking
    <3>2. \A t \in Slot : Asking(t)' => Asking(t)
      BY <3>1 DEF Asking
    <3>3. /\ unheard \subseteq unheard'
          /\ \A t \in Slot : Asking(t) /\ call[t].dev = d => d \in unheard'
      <4>1. unheard' \in {unheard, unheard \cup {d}}
        BY <2>6 DEF Stop
      <4>2. ASSUME NEW t \in Slot, Asking(t), call[t].dev = d, d \notin unheard
            PROVE  unheard' = unheard \cup {d}
        <5>1. call[t] # Idle /\ call[t].heard
          BY <1>1, <4>2 DEF Asking, Idle, ClientOps
        <5>. QED  BY <2>6, <4>2, <5>1 DEF Stop
      <4>. QED  BY <4>1, <4>2
    <3>4. \A t \in Slot :
            /\ Asking(t)' /\ call'[t].dev \notin unheard' => call'[t].heard
            /\ Granted(t)' <=> Granted(t)
            /\ Granted(t) => call'[t].dev = call[t].dev /\ call'[t].arg = call[t].arg
      BY <1>1, <3>1, <3>2, <3>3 DEF Granted, Asking
    <3>. QED  BY <1>0, <1>1, <2>1, <2>2, <3>3, <3>4, KeysKept
  <2>. QED  BY <2>3, <2>4, <2>5, <2>6
<1>5. ASSUME NEW s \in Slot, GiveUp(s) \/ Forget(s)
      PROVE  KeysInv'
  <2>. DEFINE d == call[s].dev
  <2>1. call[s] \in Call /\ d \in Device /\ Asking(s)
    BY <1>0, <1>5 DEF GiveUp, Forget, Asking
  <2>2. unheard \subseteq unheard' /\ d \in unheard' /\ UNCHANGED row
    BY <1>1, <1>5, <2>1 DEF GiveUp, Forget, past
  <2>3. \A e \in Device : client'[e].key = client[e].key
    BY <1>5, ClientKeepsKey DEF Forget
  <2>4. \A t \in Slot :
          IF t # s THEN call'[t] = call[t]
          ELSE \/ call'[s] = Idle
               \/ /\ call'[s].op = call[s].op /\ call'[s].dev = d
                  /\ call'[s].arg = call[s].arg /\ call'[s].step = call[s].step
                  /\ call'[s].status = call[s].status
    BY <1>0, <1>5, <2>1 DEF GiveUp, Forget, Ends, Call
  <2>5. \A t \in Slot : Asking(t)' => Asking(t) /\ call'[t].dev = call[t].dev
    BY <2>1, <2>4 DEF Asking, Idle, ClientOps
  <2>6. \A t \in Slot : Granted(t)' => Granted(t) /\ call'[t].arg = call[t].arg
    <3>1. Granted(s)' => Granted(s) /\ call'[s].arg = call[s].arg
      BY <2>4 DEF Granted, Asking, Idle, ClientOps
    <3>2. \A t \in Slot \ {s} : call'[t] = call[t]
      BY <2>4
    <3>. QED  BY <3>1, <3>2 DEF Granted, Asking
  <2>. HIDE DEF d
  <2>7. \A t \in Slot : Granted(t) =>
          \/ call[t].dev \in unheard'
          \/ Granted(t)' /\ call'[t].dev = call[t].dev
    <3>1. \A t \in Slot \ {s} : Granted(t) => Granted(t)' /\ call'[t].dev = call[t].dev
      BY <2>4 DEF Granted, Asking
    <3>2. call[s].dev \in unheard'
      BY <2>2 DEF d
    <3>. QED  BY <3>1, <3>2
  <2>8. \A t \in Slot : Asking(t)' /\ call'[t].dev \notin unheard' => call'[t].heard
    BY <1>1, <2>2, <2>4, <2>5 DEF d
  <2>. QED  BY <1>0, <1>1, <2>2, <2>3, <2>5, <2>6, <2>7, <2>8, KeysKept DEF Granted
<1>6. ASSUME NEW s \in Slot, Answer(s)
      PROVE  KeysInv'
  <2>. DEFINE d == call[s].dev
  <2>1. call[s] \in Call /\ d \in Device /\ Asking(s) /\ call[s].heard
    BY <1>0, <1>6 DEF Answer, Asking
  <2>2. UNCHANGED <<row, unheard>> /\ call' = [call EXCEPT ![s] = Idle]
    BY <1>6 DEF Answer, Ends, past
  <2>3. \A t \in Slot : Asking(t)' => t # s /\ call'[t] = call[t]
    BY <1>0, <2>2 DEF Asking, Idle, ClientOps
  <2>4. /\ \A e \in Device \ {d} : client'[e] = client[e]
        /\ client'[d].key = IF Granted(s) THEN call[s].arg ELSE client[d].key
    BY <1>6, AnswerBringsKey
  <2>5. \A t \in Slot : t # s /\ Asking(t) /\ call[t].dev = d => d \in unheard
    BY <1>1, <2>1 DEF IInv, OneIsHeard
  <2>. HIDE DEF d
  <2>6. Heard' /\ GrantsAgree'
    BY <2>2, <2>3 DEF KeysInv, Heard, GrantsAgree, Granted, Asking
  <2>7. TableAgrees'
    <3>1. SUFFICES ASSUME NEW e \in Device, e \notin unheard,
                          \A t \in Slot : Granted(t)' => call'[t].dev # e
                   PROVE  row[e].key \in {client'[e].key, None}
      BY <2>2 DEF TableAgrees
    <3>2. \A t \in Slot \ {s} : Granted(t) => call[t].dev # e
      BY <1>0, <2>2, <3>1 DEF Granted, Asking
    <3>3. CASE e = d /\ Granted(s)
      BY <2>4, <3>1, <3>3 DEF KeysInv, GrantsAgree, d
    <3>4. CASE ~ (e = d /\ Granted(s))
      <4>1. \A t \in Slot : Granted(t) => call[t].dev # e
        BY <3>2, <3>4 DEF d
      <4>. QED  BY <2>4, <3>1, <3>4, <4>1 DEF KeysInv, TableAgrees
    <3>. QED  BY <3>3, <3>4
  <2>. QED  BY <2>6, <2>7 DEF KeysInv
<1>. QED  BY <1>2, <1>3, <1>4, <1>5, <1>6

\* The client uses the key the table holds: handleAuthPoll and
\* handleAuthRefresh write it before they answer, and one client asks for
\* one thing at a time.
THEOREM KeysAgree == Spec => []KeysAgreeUnlessUnheard
<1>1. Init => KeysInv
  BY DEF Init, KeysInv, Heard, TableAgrees, GrantsAgree, Granted, Asking, NoRow, Idle,
     ClientOps
<1>2. IInv /\ KeysInv /\ [Next]_vars => KeysInv'
  BY AuthAssumption, KeysServed, KeysElsewhere DEF Next
<1>3. IInv /\ KeysInv => KeysAgreeUnlessUnheard
  <2>1. ASSUME IInv, KeysInv, NEW d \in Device, d \notin unheard, client[d].pc = "keyed"
        PROVE  row[d].key \in {client[d].key, None}
    <3>1. \A s \in Slot : Granted(s) => call[s].dev # d
      BY <2>1, NobodyAsks DEF KeysInv, Heard, Granted
    <3>. QED  BY <2>1, <3>1 DEF KeysInv, TableAgrees
  <2>. QED  BY <2>1 DEF KeysAgreeUnlessUnheard
<1>. QED  BY <1>1, <1>2, <1>3, InductiveInvariant, PTL DEF Spec

-----------------------------------------------------------------------------
\* Addresses.  An administrator who never sets an override to the empty string.
NeverClears == "clear" \notin AdminOps

Live(d) == row[d].status \in {"pending", "approved"}

\* VipsDistinct is about these devices.
Sure(d) == Live(d) /\ d \notin returned

NoneCleared == \A d \in Device : row[d].override # Cleared

\* No sure device but d has the address v.
FreeFor(v, d) == \A e \in Device \ {d} : Sure(e) => EffectiveIP(row[e]) # v

\* The address a request is about to write is still free, and the override an
\* update has read is still there, or the row has gone.
WritesFit(s) ==
  LET c == call[s] IN
  /\ At(s, "init", "create") => FreeFor(c.arg, c.dev)
  /\ c.op \in UpdateOps =>
       /\ c.op \in AdminOps
       /\ Exists(c.dev) => c.snap.override = row[c.dev].override
  /\ At(s, "override", "write") /\ Sure(c.dev) => FreeFor(c.arg, c.dev)

VipsInv == NoneCleared /\ VipsDistinct /\ \A s \in Slot : WritesFit(s)

\* The queries of the store, where no override is the empty string.
LEMMA Queries ==
    ASSUME IInv, NoneCleared, NEW v \in Ip
    PROVE  /\ v \in AllocatedVIPs <=> \E d \in Device : Live(d) /\ EffectiveIP(row[d]) = v
           /\ \A d \in Device : d \in DevicesByVIP(v) <=>
                                  Exists(d) /\ EffectiveIP(row[d]) = v
<1>1. \A d \in Device : row[d] \in Row /\ row[d].override # Cleared
  BY DEF IInv, TypeOK, NoneCleared
<1>2. \A d \in Device : Exists(d) =>
        EffectiveIP(row[d]) = IF row[d].override = None THEN row[d].auto ELSE row[d].override
  BY <1>1 DEF Exists, EffectiveIP, Row, NoRow, Ip, None
<1>3. \A d \in Device : /\ Live(d) <=> row[d].status \notin {"absent", "revoked"}
                        /\ Live(d) => Exists(d)
  BY <1>1 DEF Live, Exists, Row, NoRow
<1>4. v # None
  BY DEF Ip, None
<1>5. v \in AllocatedVIPs <=> \E d \in Device : Live(d) /\ EffectiveIP(row[d]) = v
  BY <1>2, <1>3 DEF AllocatedVIPs
<1>6. \A d \in Device : d \in DevicesByVIP(v) <=> Exists(d) /\ EffectiveIP(row[d]) = v
  BY <1>2, <1>4 DEF DevicesByVIP
<1>. QED  BY <1>5, <1>6

\* Distinct addresses, in terms of sure devices.
SureApart == \A d \in Device : Sure(d) => FreeFor(EffectiveIP(row[d]), d)

LEMMA SureDistinct == VipsDistinct <=> SureApart
<1>1. ASSUME VipsDistinct, NEW d \in Device, Sure(d), NEW e \in Device \ {d}, Sure(e)
      PROVE  EffectiveIP(row[e]) # EffectiveIP(row[d])
  <2>1. /\ d \in Device \ returned /\ e \in Device \ returned
        /\ {row[d].status, row[e].status} \subseteq {"pending", "approved"}
    BY <1>1 DEF Sure, Live
  <2>. QED  BY <1>1, <2>1 DEF VipsDistinct
<1>2. ASSUME SureApart,
             NEW d \in Device \ returned, NEW e \in Device \ returned, d # e,
             {row[d].status, row[e].status} \subseteq {"pending", "approved"}
      PROVE  EffectiveIP(row[d]) # EffectiveIP(row[e])
  <2>1. Sure(d) /\ Sure(e)
    BY <1>2 DEF Sure, Live
  <2>. QED  BY <1>2, <2>1 DEF SureApart, FreeFor
<1>. QED  BY <1>1, <1>2 DEF VipsDistinct, SureApart, FreeFor

\* The steps that give no device an address: what was free stays free.
LEMMA AddressesKept ==
    ASSUME VipsInv,
           \A e \in Device :
             /\ Sure(e)' => Sure(e) /\ EffectiveIP(row'[e]) = EffectiveIP(row[e])
             /\ Exists(e)' => Exists(e)
             /\ row'[e].override \in {row[e].override, None},
           \A e \in Device : Exists(e)' => row'[e].override = row[e].override,
           \A t \in Slot :
             \/ WritesFit(t)'
             \/ call'[t] = call[t] /\ (call[t] = Idle \/ call[t].dev \in Device)
             \/ call'[t].op \notin UpdateOps /\ ~ At(t, "init", "create")'
    PROVE  VipsInv'
<1>1. NoneCleared'
  BY DEF VipsInv, NoneCleared, None, Cleared
<1>2. \A v : \A d \in Device : FreeFor(v, d) => FreeFor(v, d)'
  <2>. SUFFICES ASSUME NEW v, NEW d \in Device, FreeFor(v, d),
                       NEW e \in Device \ {d}, Sure(e)'
                PROVE  EffectiveIP(row'[e]) # v
    BY DEF FreeFor, EffectiveIP
  <2>. QED  BY DEF FreeFor
<1>3. VipsDistinct'
  <2>1. \A d \in Device : Sure(d) => FreeFor(EffectiveIP(row[d]), d)
    BY SureDistinct DEF VipsInv, SureApart
  <2>2. ASSUME NEW d \in Device, Sure(d)'
        PROVE  FreeFor(EffectiveIP(row[d]), d)'
    <3>1. Sure(d) /\ EffectiveIP(row'[d]) = EffectiveIP(row[d])
      BY <2>2
    <3>2. FreeFor(EffectiveIP(row[d]), d)
      BY <2>1, <3>1
    <3>3. \A e \in Device \ {d} : Sure(e)' => EffectiveIP(row'[e]) # EffectiveIP(row'[d])
      BY <3>1, <3>2 DEF FreeFor
    <3>. QED  BY <3>3 DEF FreeFor, EffectiveIP
  <2>3. SureApart'
    BY <2>2 DEF SureApart
  <2>. QED  BY <2>3, SureDistinct, PTL
<1>4. ASSUME NEW t \in Slot
      PROVE  WritesFit(t)'
  <2>1. CASE call'[t] = call[t] /\ call[t] = Idle
    BY <2>1 DEF WritesFit, At, Idle, UpdateOps
  <2>2. CASE call'[t] = call[t] /\ call[t].dev \in Device
    <3>. DEFINE d == call[t].dev
    <3>1. WritesFit(t)
      BY DEF VipsInv
    <3>2. At(t, "init", "create")' => FreeFor(call[t].arg, d)'
      BY <1>2, <2>2, <3>1 DEF WritesFit, At
    <3>3. call'[t].op \in UpdateOps =>
            /\ call'[t].op \in AdminOps
            /\ Exists(d)' => call'[t].snap.override = row'[d].override
      BY <2>2, <3>1 DEF WritesFit
    <3>4. At(t, "override", "write")' /\ Sure(d)' => FreeFor(call[t].arg, d)'
      BY <1>2, <2>2, <3>1 DEF WritesFit, At
    <3>. QED  BY <2>2, <3>2, <3>3, <3>4 DEF WritesFit, FreeFor, Sure, Live, Exists
  <2>3. CASE call'[t].op \notin UpdateOps /\ ~ At(t, "init", "create")'
    BY <2>3 DEF WritesFit, At, UpdateOps
  <2>. QED  BY <2>1, <2>2, <2>3
<1>. QED  BY <1>1, <1>3, <1>4 DEF VipsInv

\* Steps that write no row.
LEMMA RowsKept ==
    ASSUME IInv, VipsInv, UNCHANGED <<row, returned>>,
           \A t \in Slot :
             \/ WritesFit(t)'
             \/ call'[t] = call[t]
             \/ call'[t].op \notin UpdateOps /\ ~ At(t, "init", "create")'
    PROVE  VipsInv'
<1>1. \A t \in Slot : call[t] = Idle \/ call[t].dev \in Device
  BY DEF IInv, TypeOK, Call
<1>2. \A e \in Device :
        /\ Sure(e)' <=> Sure(e)
        /\ EffectiveIP(row'[e]) = EffectiveIP(row[e])
        /\ Exists(e)' <=> Exists(e)
        /\ row'[e].override = row[e].override
  BY DEF Sure, Live, Exists
<1>. QED  BY <1>1, <1>2, AddressesKept

\* A row that is written alone.
LEMMA RowWritten ==
    ASSUME IInv, VipsInv, NEW d \in Device, NEW r \in Row,
           row' = [row EXCEPT ![d] = r],
           returned \subseteq returned',
           r.override # Cleared,
           r.status \in {"pending", "approved"} /\ d \notin returned' =>
             FreeFor(EffectiveIP(r), d),
           \A t \in Slot : WritesFit(t)'
    PROVE  VipsInv'
<1>0. row \in [Device -> Row]
  BY DEF IInv, TypeOK
<1>1. NoneCleared'
  BY <1>0 DEF VipsInv, NoneCleared
<1>2. VipsDistinct'
  <2>1. SUFFICES ASSUME NEW e \in Device, NEW f \in Device, e # f,
                        e \notin returned', f \notin returned',
                        row'[e].status \in {"pending", "approved"},
                        row'[f].status \in {"pending", "approved"}
                 PROVE  EffectiveIP(row'[e]) # EffectiveIP(row'[f])
    BY DEF VipsDistinct, EffectiveIP
  <2>2. \A g \in Device : row'[g] = IF g = d THEN r ELSE row[g]
    BY <1>0
  <2>3. CASE e = d
    BY <2>1, <2>2, <2>3 DEF Sure, Live, FreeFor
  <2>4. CASE f = d
    BY <2>1, <2>2, <2>4 DEF Sure, Live, FreeFor
  <2>5. CASE e # d /\ f # d
    BY <2>1, <2>2, <2>5 DEF VipsInv, VipsDistinct
  <2>. QED  BY <2>3, <2>4, <2>5
<1>. QED  BY <1>1, <1>2 DEF VipsInv

\* The writer writes alone: nobody else relies on what it changes.
LEMMA WrittenAlone ==
    ASSUME OneWriter, NEW s \in Slot, Writing(s),
           \A t \in Slot \ {s} : call'[t] = call[t],
           call'[s].op \notin UpdateOps, ~ At(s, "init", "create")'
    PROVE  \A t \in Slot : WritesFit(t)'
<1>. SUFFICES ASSUME NEW t \in Slot  PROVE WritesFit(t)'
  OBVIOUS
<1>1. call'[t].op \notin UpdateOps /\ ~ At(t, "init", "create")'
  BY DEF OneWriter, Writing, At
<1>2. ~ At(t, "override", "write")'
  BY <1>1 DEF At, UpdateOps
<1>. QED  BY <1>1, <1>2 DEF WritesFit

LEMMA VipsServed ==
    ASSUME AuthAssumption, NeverClears, OneWriter, IInv, VipsInv,
           NEW s \in Slot, Serve(s)
    PROVE  VipsInv'
<1>0. /\ call \in [Slot -> Call \cup {Idle}] /\ row \in [Device -> Row]
      /\ call[s] \in Call /\ call[s].dev \in Device
  BY CallIs DEF IInv, TypeOK, Serve, InitLookup, InitAllocate, InitCreate, InitSession,
     PollSession, PollDevice, PollMark, RefreshLookup, IssueKeys, AdminValidates,
     AdminWrites, At, UpdateOps
<1>. DEFINE d == call[s].dev
<1>1. \A t \in Slot \ {s} : call'[t] = call[t]
  BY <1>0 DEF Serve, InitLookup, InitAllocate, InitCreate, InitSession, PollSession, PollDevice,
     PollMark, RefreshLookup, IssueKeys, AdminValidates, AdminWrites, Goes, Replies, Ends
<1>2. WritesFit(s)
  BY DEF VipsInv
<1>3. CASE /\ \/ InitLookup(s) \/ InitSession(s) \/ PollSession(s) \/ PollDevice(s)
              \/ PollMark(s) \/ RefreshLookup(s)
  <2>1. UNCHANGED <<row, returned>>
    BY <1>3 DEF InitLookup, InitSession, PollSession, PollDevice, PollMark, RefreshLookup, past
  <2>2. call'[s].op \notin UpdateOps /\ call'[s].step # "create"
    BY <1>0, <1>3 DEF InitLookup, InitSession, PollSession, PollDevice, PollMark,
       RefreshLookup, Goes, Replies, At, Call, UpdateOps
  <2>. QED  BY <1>1, <2>1, <2>2, RowsKept DEF At
<1>4. CASE InitAllocate(s)
  <2>1. UNCHANGED <<row, returned>>
    BY <1>4 DEF InitAllocate, past
  <2>2. CASE Replies(s, "error", None)
    BY <1>0, <1>1, <1>4, <2>1, <2>2, Replied, RowsKept DEF InitAllocate, At, UpdateOps
  <2>3. CASE /\ Ip \ AllocatedVIPs # {}
             /\ call' = [call EXCEPT ![s].step = "create",
                                     ![s].arg = Lowest(Ip \ AllocatedVIPs)]
    <3>1. call'[s].op = "init" /\ call'[s].arg \in Ip \ AllocatedVIPs
      <4>1. Ip \ AllocatedVIPs \in SUBSET Nat
        BY DEF Ip
      <4>2. Lowest(Ip \ AllocatedVIPs) \in Ip \ AllocatedVIPs
        BY <2>3, <4>1, LowestIsOne
      <4>. QED  BY <1>0, <1>4, <2>3, <4>2 DEF InitAllocate, At, Call
    <3>2. \A e \in Device : Sure(e) => EffectiveIP(row[e]) # call'[s].arg
      BY <3>1, Queries DEF VipsInv, Sure
    <3>3. WritesFit(s)'
      BY <2>1, <3>1, <3>2 DEF WritesFit, At, UpdateOps, FreeFor, Sure, Live, EffectiveIP
    <3>. QED  BY <1>1, <2>1, <3>3, RowsKept
  <2>. QED  BY <1>4, <2>2, <2>3 DEF InitAllocate
<1>5. CASE InitCreate(s)
  <2>1. call'[s].op = "init" /\ call'[s].step # "create" /\ UNCHANGED returned
    BY <1>0, <1>5 DEF InitCreate, Replies, At, Call, past
  <2>2. CASE Exists(d)
    BY <1>1, <1>5, <2>1, <2>2, RowsKept DEF InitCreate, At, UpdateOps
  <2>3. CASE ~ Exists(d)
    <3>. DEFINE r == [NoRow EXCEPT !.status = "pending", !.auto = call[s].arg]
    <3>1. call[s].arg \in Ip /\ FreeFor(call[s].arg, d)
      BY <1>2, <1>5 DEF InitCreate, IInv, ValuesCarried, WritesFit
    <3>2. /\ r \in Row /\ r.status = "pending" /\ r.override = None
          /\ EffectiveIP(r) = call[s].arg
      <4>1. /\ r \in Row /\ r.status = "pending" /\ r.override = None
            /\ r.auto = call[s].arg
        BY <3>1, NewRow
      <4>2. None \notin Ip
        BY DEF Ip, None
      <4>. HIDE DEF r
      <4>. QED  BY <4>1, <4>2 DEF EffectiveIP
    <3>3. row' = [row EXCEPT ![d] = r]
      BY <1>5, <2>3 DEF InitCreate
    <3>. HIDE DEF r
    <3>4. r.override # Cleared
      BY <3>2 DEF None, Cleared
    <3>5. Writing(s)
      BY <1>5 DEF Writing, InitCreate
    <3>6. \A t \in Slot : WritesFit(t)'
      BY <1>1, <2>1, <3>5, WrittenAlone DEF At, UpdateOps
    <3>. QED  BY <1>0, <2>1, <3>1, <3>2, <3>3, <3>4, <3>6, RowWritten
  <2>. QED  BY <2>2, <2>3
<1>6. CASE IssueKeys(s)
  <2>1. /\ row' = Keyed(d, FreshKey) /\ FreshKey \in Key
        /\ Replies(s, "approved", FreshKey) /\ call[s].op \notin UpdateOps
        /\ returned' = returned \cup Returning
    BY <1>6, FreshOnes DEF IssueKeys, UpdateOps
  <2>2. call'[s].op \notin UpdateOps /\ call'[s].step # "create"
    BY <1>0, <2>1, Replied
  <2>3. \A e \in Device :
          /\ \/ row'[e].status = row[e].status
             \/ row[e].status # "absent" /\ row'[e].status = "approved"
          /\ row'[e].auto = row[e].auto /\ row'[e].override = row[e].override
    <3>1. CASE ~ Exists(d)
      BY <2>1, <3>1 DEF Keyed
    <3>2. CASE Exists(d)
      <4>1. row' = [row EXCEPT ![d] = [row[d] EXCEPT !.key = FreshKey, !.status = "approved"]]
        BY <1>0, <2>1, <3>2 DEF Keyed
      <4>2. row[d] \in Row \ {NoRow} /\ row[d].status # "absent"
        BY <1>0, <3>2 DEF Exists, NoRow
      <4>. DEFINE r == [row[d] EXCEPT !.key = FreshKey, !.status = "approved"]
      <4>3. r.status = "approved" /\ r.auto = row[d].auto /\ r.override = row[d].override
        BY <4>2 DEF Row
      <4>4. \A e \in Device : row'[e] = IF e = d THEN r ELSE row[e]
        BY <1>0, <4>1
      <4>. HIDE DEF r
      <4>. QED  BY <4>2, <4>3, <4>4
    <3>. QED  BY <3>1, <3>2
  <2>4. ASSUME NEW e \in Device
        PROVE  /\ Sure(e)' => Sure(e) /\ EffectiveIP(row'[e]) = EffectiveIP(row[e])
               /\ Exists(e)' => Exists(e)
               /\ row'[e].override \in {row[e].override, None}
               /\ row'[e].override = row[e].override
    <3>1. row[e].status \in {"absent", "pending", "approved", "revoked"}
      BY <1>0 DEF Row, NoRow
    <3>2. Sure(e)' => Sure(e)
      BY <2>1, <2>3, <3>1 DEF Sure, Live, Returning
    <3>. QED  BY <2>3, <3>2 DEF Exists, EffectiveIP
  <2>5. \A t \in Slot : call[t] = Idle \/ call[t].dev \in Device
    BY <1>0 DEF Call
  <2>. QED  BY <1>1, <2>2, <2>4, <2>5, AddressesKept DEF At
<1>7. CASE AdminValidates(s)
  <2>. DEFINE v == call[s].arg
  <2>1. v \in Ip /\ call[s].op = "override" /\ UNCHANGED <<row, returned>>
    BY <1>7 DEF AdminValidates, At, IInv, ValuesCarried, past
  <2>2. CASE Ends(s)
    BY <1>0, <1>1, <2>1, <2>2, RowsKept DEF Ends, Idle, At, UpdateOps
  <2>3. CASE Goes(s, "write") /\ (DevicesByVIP(v) = {} \/ d \in DevicesByVIP(v))
    <3>1. Sure(d) => FreeFor(v, d)
      <4>1. CASE d \in DevicesByVIP(v)
        BY <1>0, <2>1, <4>1, Queries, SureDistinct DEF VipsInv, SureApart
      <4>2. CASE DevicesByVIP(v) = {}
        <5>1. \A e \in Device : row[e] \in Row /\ (Live(e) => Exists(e))
          BY <1>0 DEF Live, Exists
        <5>. QED  BY <2>1, <4>2, <5>1, Queries DEF VipsInv, FreeFor, Sure
      <4>. QED  BY <2>3, <4>1, <4>2
    <3>2. /\ call'[s].op = "override" /\ call'[s].dev = d /\ call'[s].arg = v
          /\ call'[s].snap = call[s].snap /\ call'[s].step = "write"
      BY <1>0, <2>1, <2>3, Gone
    <3>3. WritesFit(s)'
      BY <1>2, <2>1, <3>1, <3>2
         DEF WritesFit, At, UpdateOps, FreeFor, Sure, Live, Exists, EffectiveIP
    <3>. QED  BY <1>1, <2>1, <3>3, RowsKept
  <2>. QED  BY <1>7, <2>2, <2>3 DEF AdminValidates
<1>8. CASE AdminWrites(s)
  <2>. DEFINE r == Updated(row[d], call[s])
  <2>1. /\ row' = [row EXCEPT ![d] = r] /\ call'[s] = Idle
        /\ call[s].op \in UpdateOps /\ call[s].op # "clear"
        /\ returned' = returned \cup Returning
    BY <1>0, <1>2, <1>8 DEF AdminWrites, Ends, WritesFit, NeverClears
  <2>2. r \in Row
    BY <1>0, <2>1, UpdatedIsRow DEF IInv, ValuesCarried
  <2>3. call'[s].op \notin UpdateOps /\ ~ At(s, "init", "create")'
    BY <2>1 DEF At, Idle, UpdateOps
  <2>4. \A t \in Slot : WritesFit(t)'
    BY <1>1, <2>1, <2>3, WrittenAlone DEF Writing
  <2>5. row'[d] = r
    BY <1>0, <2>1
  <2>6. CASE ~ Exists(d)
    <3>1. r = row[d]
      BY <2>6 DEF Updated, Exists
    <3>2. row[d].status = "absent"
      BY <2>6 DEF Exists
    <3>. HIDE DEF r
    <3>3. r.status \notin {"pending", "approved"} /\ r.override # Cleared
      BY <1>0, <3>1, <3>2 DEF VipsInv, NoneCleared
    <3>. QED  BY <1>0, <2>1, <2>2, <2>4, <3>3, RowWritten
  <2>7. CASE Exists(d)
    <3>1. call[s].snap.override = row[d].override
      BY <1>2, <2>1, <2>7 DEF WritesFit
    <3>2. /\ r.auto = row[d].auto
          /\ r.override = IF call[s].op = "override" THEN call[s].arg ELSE row[d].override
      BY <1>0, <2>1, <2>7, <3>1 DEF Updated, Exists, Row, NoRow
    <3>. HIDE DEF r
    <3>3. call[s].op = "override" => call[s].arg \in Ip
      BY DEF IInv, ValuesCarried
    <3>4. r.override # Cleared
      BY <1>0, <3>2, <3>3 DEF VipsInv, NoneCleared, Ip, Cleared
    <3>5. r.status \in {"pending", "approved"} /\ d \notin returned' => Sure(d)
      <4>1. row[d].status \in {"pending", "approved", "revoked"}
        BY <1>0, <2>7 DEF Exists, Row, NoRow
      <4>. QED  BY <1>0, <2>1, <2>5, <4>1 DEF Returning, Sure, Live
    <3>6. EffectiveIP(r) = IF call[s].op = "override" THEN call[s].arg
                           ELSE EffectiveIP(row[d])
      BY <3>2, <3>3 DEF EffectiveIP
    <3>7. Sure(d) => FreeFor(EffectiveIP(r), d)
      <4>1. CASE call[s].op = "override"
        BY <1>2, <1>8, <3>6, <4>1 DEF WritesFit, AdminWrites, At
      <4>2. CASE call[s].op # "override"
        BY <1>0, <3>6, <4>2, SureDistinct DEF VipsInv, SureApart
      <4>. QED  BY <4>1, <4>2
    <3>. QED  BY <1>0, <2>1, <2>2, <2>4, <3>4, <3>5, <3>7, RowWritten
  <2>. QED  BY <2>6, <2>7
<1>. QED  BY <1>3, <1>4, <1>5, <1>6, <1>7, <1>8 DEF Serve

LEMMA VipsElsewhere ==
    ASSUME AuthAssumption, IInv, VipsInv,
           \/ \E s \in Slot, d \in Device, op \in UpdateOps, v \in Ip \cup {None} :
                AdminReads(s, d, op, v)
           \/ \E c \in Code : ApproveSession(c) \/ ExpireSession(c)
           \/ \E d \in Device : DeleteDevice(d) \/ Run(d) \/ Lose(d) \/ Stop(d)
           \/ \E k \in Key : AgeKey(k)
           \/ \E s \in Slot : Answer(s) \/ GiveUp(s) \/ Forget(s)
           \/ UNCHANGED vars
    PROVE  VipsInv'
<1>0. /\ call \in [Slot -> Call \cup {Idle}] /\ row \in [Device -> Row]
      /\ \A t \in Slot : call[t].op # "idle" => call[t] \in Call
  BY CallIs DEF IInv, TypeOK
<1>1. ASSUME NEW s \in Slot, NEW d \in Device, NEW op \in UpdateOps,
             NEW v \in Ip \cup {None}, AdminReads(s, d, op, v)
      PROVE  VipsInv'
  <2>1. /\ UNCHANGED <<row, returned>> /\ op \in AdminOps
        /\ \A t \in Slot \ {s} : call'[t] = call[t]
        /\ call'[s].op = op /\ call'[s].dev = d /\ call'[s].snap = row[d]
        /\ op = "override" => call'[s].step # "write"
    BY <1>0, <1>1 DEF AdminReads, Arrives, past
  <2>2. WritesFit(s)'
    BY <2>1 DEF WritesFit, At, UpdateOps
  <2>. QED  BY <2>1, <2>2, RowsKept
<1>2. ASSUME \/ \E c \in Code : ApproveSession(c) \/ ExpireSession(c)
             \/ \E k \in Key : AgeKey(k)
             \/ UNCHANGED vars
      PROVE  VipsInv'
  <2>1. UNCHANGED <<row, call, returned>>
    BY <1>2 DEF ApproveSession, ExpireSession, AgeKey, past, vars
  <2>. QED  BY <2>1, RowsKept
<1>3. ASSUME NEW d \in Device, DeleteDevice(d)
      PROVE  VipsInv'
  <2>1. /\ row' = [row EXCEPT ![d] = NoRow] /\ UNCHANGED call
        /\ returned' = returned \ {d}
    BY <1>3 DEF DeleteDevice
  <2>2. /\ NoRow.override = None
        /\ NoRow.status \notin {"pending", "approved", "revoked"}
        /\ NoRow.status = "absent"
    BY DEF NoRow
  <2>3. \A e \in Device : row'[e] = IF e = d THEN NoRow ELSE row[e]
    BY <1>0, <2>1
  <2>4. ASSUME NEW e \in Device
        PROVE  /\ Sure(e)' => Sure(e) /\ EffectiveIP(row'[e]) = EffectiveIP(row[e])
               /\ Exists(e)' => Exists(e)
               /\ row'[e].override \in {row[e].override, None}
               /\ Exists(e)' => row'[e].override = row[e].override
    BY <2>1, <2>2, <2>3 DEF Sure, Live, Exists
  <2>5. \A t \in Slot : call[t] = Idle \/ call[t].dev \in Device
    BY <1>0 DEF Call
  <2>. QED  BY <2>1, <2>4, <2>5, AddressesKept
<1>4. ASSUME NEW d \in Device, Run(d) \/ Lose(d)
      PROVE  VipsInv'
  <2>1. UNCHANGED <<row, returned>>
    BY <1>4 DEF Run, Start, InitDeviceAuth, PollAuthStatus, Connect, Rebuild, Lose, past
  <2>2. \/ UNCHANGED call
        \/ \E s \in Slot, op \in ClientOps : \E arg : Arrives(s, op, d, "lookup", arg, NoRow, TRUE)
    BY <1>4 DEF Run, Start, InitDeviceAuth, PollAuthStatus, Connect, Rebuild, Lose, ClientOps
  <2>3. \A t \in Slot : \/ call'[t] = call[t]
                        \/ call'[t].op \in ClientOps /\ call'[t].step = "lookup"
    BY <1>0, <2>2 DEF Arrives
  <2>. QED  BY <2>1, <2>3, RowsKept DEF At, ClientOps, UpdateOps
<1>5. ASSUME NEW d \in Device, Stop(d)
      PROVE  VipsInv'
  <2>1. UNCHANGED <<row, returned>>
    BY <1>5 DEF Stop
  <2>2. ASSUME NEW t \in Slot, call'[t] # call[t]
        PROVE  WritesFit(t)'
    <3>1. call[t] \in Call /\ call[t].op \in ClientOps
          /\ call'[t] = [call[t] EXCEPT !.heard = FALSE]
      BY <1>0, <1>5, <2>2 DEF Stop, ClientOps
    <3>2. /\ call'[t].op = call[t].op /\ call'[t].step = call[t].step
          /\ call'[t].arg = call[t].arg /\ call'[t].dev = call[t].dev
      BY <3>1 DEF Call
    <3>. QED  BY <2>1, <3>1, <3>2
           DEF VipsInv, WritesFit, At, FreeFor, Sure, Live, EffectiveIP, ClientOps, UpdateOps
  <2>. QED  BY <2>1, <2>2, RowsKept
<1>6. ASSUME NEW s \in Slot, Answer(s) \/ Forget(s)
      PROVE  VipsInv'
  <2>1. UNCHANGED <<row, returned>> /\ call' = [call EXCEPT ![s] = Idle]
    BY <1>6 DEF Answer, Forget, Ends, past
  <2>2. \A t \in Slot : call'[t] \in {call[t], Idle}
    BY <1>0, <2>1
  <2>. QED  BY <2>1, <2>2, RowsKept DEF At, Idle, UpdateOps
<1>7. ASSUME NEW s \in Slot, GiveUp(s)
      PROVE  VipsInv'
  <2>1. /\ UNCHANGED <<row, returned>> /\ call[s] \in Call /\ call[s].op \in ClientOps
        /\ call' = [call EXCEPT ![s].heard = FALSE]
    BY <1>0, <1>7 DEF GiveUp, ClientOps
  <2>2. /\ call'[s].op = call[s].op /\ call'[s].step = call[s].step
        /\ call'[s].arg = call[s].arg /\ call'[s].dev = call[s].dev
        /\ \A t \in Slot \ {s} : call'[t] = call[t]
    BY <1>0, <2>1 DEF Call
  <2>3. WritesFit(s)'
    BY <2>1, <2>2
       DEF VipsInv, WritesFit, At, FreeFor, Sure, Live, EffectiveIP, ClientOps, UpdateOps
  <2>. QED  BY <2>1, <2>2, <2>3, RowsKept
<1>. QED  BY <1>1, <1>2, <1>3, <1>4, <1>5, <1>6, <1>7

\* allocateVIP and validateDeviceVIP keep the addresses of devices that never
\* came back from a revocation apart, as long as no other registration or
\* update comes between their queries and the writes that follow, and no
\* override is cleared. Approvals, revocations, deletions, polls, refreshes,
\* lost answers and restarts come at any moment.  A device that does come back
\* (approved again, or by the keys of a poll whose session is approved, or of a
\* poll or refresh that was past its check) is left out, and has to be: its address may have been given away.
THEOREM AddressesDistinct == NeverClears /\ Spec /\ []OneWriter => []VipsDistinct
<1>. SUFFICES ASSUME NeverClears
              PROVE  Spec /\ []OneWriter => []VipsDistinct
  OBVIOUS
<1>1. Init => VipsInv
  BY DEF Init, VipsInv, NoneCleared, VipsDistinct, WritesFit, At, NoRow,
     Idle, None, Cleared, UpdateOps
<1>2. IInv /\ OneWriter /\ VipsInv /\ [Next]_vars => VipsInv'
  BY AuthAssumption, VipsServed, VipsElsewhere DEF Next
<1>3. VipsInv => VipsDistinct
  BY DEF VipsInv
<1>. QED  BY <1>1, <1>2, <1>3, InductiveInvariant, PTL DEF Spec

=============================================================================
