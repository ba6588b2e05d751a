------------------------------ MODULE DeviceAuth ------------------------------
(* Devices, their keys and their addresses: the SQLite device table         *)
(* (internal/store), the HTTP handlers that read and write it               *)
(* (internal/admin/handler.go), and the client that registers, polls,       *)
(* refreshes and says hello (internal/conn/auth.go, internal/app/client.go, *)
(* the hello check of internal/relay/server.go).                            *)
(*                                                                          *)
(* A handler is a sequence of store calls with no transaction around them,  *)
(* so a call in progress is a slot that makes one store call per step.      *)
(* Slot bounds how many overlap, OneWriter which.  An access key and the    *)
(* refresh key issued with it are one member of Key.                        *)
EXTENDS Integers, FiniteSets

CONSTANTS
  Device,     \* device identifiers
  Slot,       \* bound: requests the server works on at once
  MaxCode,    \* bound: session codes in use at once
  MaxKey,     \* bound: keys in use at once
  MaxIp,      \* the overlay's addresses are 1..MaxIp, lowest allocated first
  AdminOps,   \* what the administrator does in this instance
  MaxFaults   \* bound: requests given up and processes stopped

ASSUME AuthAssumption ==
  /\ {MaxCode, MaxKey, MaxIp, MaxFaults} \subseteq Nat
  /\ AdminOps \subseteq {"approve", "revoke", "pend", "rename",
                         "override", "clear", "session", "delete"}

VARIABLES
  row,        \* row[d]: the device's row in the devices table
  session,    \* session[c]: the row of auth_sessions with code c
  call,       \* call[s]: a request the server is working on
  client,     \* client[d]: the client process of device d and its key file
  age,        \* age[k]: which of the two expiry dates of key k are past
  faults,     \* faults so far
  unheard,    \* history: devices that did not wait for an answer
  authorized, \* history: devices an administrator has approved
  returned    \* history: devices that came back from a revocation

past == <<faults, unheard, authorized, returned>>
vars == <<row, session, call, client, age, past>>

Key == 1 .. MaxKey
Code == 1 .. MaxCode
Ip == 1 .. MaxIp
None == 0         \* no key, no code, a NULL column
Cleared == -1     \* an override set to the empty string

NoRow == [status |-> "absent", auto |-> None, override |-> None, key |-> None]
Row == {NoRow} \cup [status : {"pending", "approved", "revoked"}, auto : Ip,
                     override : Ip \cup {None, Cleared}, key : Key \cup {None}]

Session == [dev : Device, status : {"pending", "approved"},
            life : {"new", "polled", "expired"}]
NoSession == [status |-> "absent"]

ClientOps == {"init", "poll", "refresh"}
UpdateOps == {"approve", "revoke", "pend", "rename", "override", "clear"}
Call == [op : ClientOps \cup UpdateOps, dev : Device, arg : Int, snap : Row,
         step : {"lookup", "allocate", "create", "session", "device", "mark",
                 "keys", "validate", "write", "reply"},
         status : {"none", "ok", "pending", "approved", "expired", "error"},
         heard : BOOLEAN]
Idle == [op |-> "idle"]

\* A session code is kept while it is polled.
Client ==
  LET Is(pcs, codes) == [pc : pcs, key : Key \cup {None}, code : codes,
                         vip : Ip \cup {None}] IN
  Is({"polling", "awaiting"}, Code)
    \cup Is({"down", "refreshing", "refused", "initiating", "keyed", "online",
             "rebuilding"}, {None})

TypeOK ==
  /\ row \in [Device -> Row]
  /\ session \in [Code -> Session \cup {NoSession}]
  /\ call \in [Slot -> Call \cup {Idle}]
  /\ client \in [Device -> Client]
  /\ age \in [Key -> {"fresh", "aged", "dead"}]
  /\ faults \in 0 .. MaxFaults
  /\ unheard \subseteq Device
  /\ authorized \subseteq Device
  /\ returned \subseteq Device

Init ==
  /\ row = [d \in Device |-> NoRow]
  /\ session = [c \in Code |-> NoSession]
  /\ call = [s \in Slot |-> Idle]
  /\ client = [d \in Device |-> [pc |-> "down", key |-> None, code |-> None,
                                 vip |-> None]]
  /\ age = [k \in Key |-> "fresh"]
  /\ faults = 0
  /\ unheard = {}
  /\ authorized = {}
  /\ returned = {}

-----------------------------------------------------------------------------
\* Queries

Exists(d) == row[d].status # "absent"

EffectiveIP(r) == IF r.override \in Ip THEN r.override ELSE r.auto

\* Mutant: only approved devices keep their address.
AllocatedVIPsMutant ==
  {IF row[d].override = None THEN row[d].auto ELSE row[d].override :
     d \in {e \in Device : row[e].status = "approved"}}

\* GetAllocatedVIPs: COALESCE(virtual_ip, auto_vip) of the rows not revoked.
AllocatedVIPs ==
  {IF row[d].override = None THEN row[d].auto ELSE row[d].override :
     d \in {e \in Device : row[e].status \notin {"absent", "revoked"}}}

\* GetDeviceByVIP returns one of these rows.
DevicesByVIP(v) ==
  {d \in Device : Exists(d) /\ \/ row[d].override = v
                               \/ row[d].override = None /\ row[d].auto = v}

Lowest(S) == CHOOSE n \in S : \A m \in S : n <= m

\* GenerateRandomToken: a value nobody holds yet.
Carried(S) == {call[s].arg : s \in S}
FreeKeys == Key \
  ({row[d].key : d \in Device} \cup {client[d].key : d \in Device}
    \cup Carried({s \in Slot : \/ call[s].op = "refresh"
                               \/ call[s].op = "poll" /\ call[s].step = "reply"}))
FreeCodes == Code \
  ({client[d].code : d \in Device}
    \cup Carried({s \in Slot : \/ call[s].op = "poll" /\ call[s].step # "reply"
                               \/ call[s].op = "init" /\ call[s].step = "reply"}))
FreshKey == Lowest(FreeKeys)
FreshCode == Lowest(FreeCodes)

\* The check of readHelloAndValidate.
Accepts(d) ==
  /\ row[d].status = "approved"
  /\ row[d].key = client[d].key
  /\ age[client[d].key] = "fresh"

-----------------------------------------------------------------------------
\* Requests

At(s, op, step) == call[s].op = op /\ call[s].step = step

Arrives(s, op, d, step, arg, snap, heard) ==
  /\ call[s] = Idle
  /\ call' = [call EXCEPT ![s] =
       [op |-> op, dev |-> d, step |-> step, arg |-> arg, snap |-> snap,
        status |-> "none", heard |-> heard]]

Goes(s, step) == call' = [call EXCEPT ![s].step = step]

Replies(s, status, value) ==
  call' = [call EXCEPT ![s].step = "reply", ![s].status = status,
                       ![s].arg = value]

Ends(s) == call' = [call EXCEPT ![s] = Idle]

\* handleAuthInit: look the device up, allocate an address for a new one,
\* insert it (device_id is unique), open a session.
InitLookup(s) ==
  /\ At(s, "init", "lookup")
  /\ Goes(s, IF Exists(call[s].dev) THEN "session" ELSE "allocate")
  /\ UNCHANGED <<row, session, client, age, past>>

InitAllocate(s) ==
  /\ At(s, "init", "allocate")
  /\ LET free == Ip \ AllocatedVIPs IN
       IF free = {} THEN Replies(s, "error", None)
       ELSE call' = [call EXCEPT ![s].step = "create", ![s].arg = Lowest(free)]
  /\ UNCHANGED <<row, session, client, age, past>>

InitCreate(s) ==
  /\ At(s, "init", "create")
  /\ LET d == call[s].dev IN
       IF Exists(d)
       THEN /\ Replies(s, "error", None)
            /\ UNCHANGED row
       ELSE /\ row' = [row EXCEPT ![d] =
                         [NoRow EXCEPT !.status = "pending", !.auto = call[s].arg]]
            /\ call' = [call EXCEPT ![s].step = "session", ![s].arg = None]
  /\ UNCHANGED <<session, client, age, past>>

InitSession(s) ==
  /\ At(s, "init", "session")
  /\ FreeCodes # {}
  /\ session' = [session EXCEPT ![FreshCode] =
                   [dev |-> call[s].dev, status |-> "pending", life |-> "new"]]
  /\ Replies(s, "ok", FreshCode)
  /\ UNCHANGED <<row, client, age, past>>

\* handleAuthPoll: read the session, read the device, mark the session when
\* the device is approved already, issue keys.
PollSession(s) ==
  /\ At(s, "poll", "lookup")
  /\ LET c == call[s].arg IN
       IF session[c].life = "expired"
       THEN /\ Replies(s, "expired", None)
            /\ UNCHANGED session
       ELSE /\ call' = [call EXCEPT ![s].step = "device",
                                    ![s].status = session[c].status]
            /\ session' = [session EXCEPT ![c].life = "polled"]
  /\ UNCHANGED <<row, client, age, past>>

\* Mutants: the poll does not look at the device's status; only the approval
\* of the session itself counts.
MayIssueAlwaysMutant(d, status) == TRUE
MayIssueSessionMutant(d, status) == status = "approved"

\* The device's status as the poll goes on without looking at it again.
MayIssue(d, status) == status = "approved" \/ row[d].status = "approved"

PollDevice(s) ==
  /\ At(s, "poll", "device")
  /\ LET d == call[s].dev IN
       IF ~Exists(d) THEN Replies(s, "error", None)
       ELSE IF ~MayIssue(d, call[s].status) THEN Replies(s, "pending", None)
       ELSE Goes(s, IF call[s].status = "approved" THEN "keys" ELSE "mark")
  /\ UNCHANGED <<row, session, client, age, past>>

PollMark(s) ==
  /\ At(s, "poll", "mark")
  /\ session' = [session EXCEPT ![call[s].arg].status = "approved"]
  /\ Goes(s, "keys")
  /\ UNCHANGED <<row, client, age, past>>

\* handleAuthRefresh up to its decision.
RefreshLookup(s) ==
  /\ At(s, "refresh", "lookup")
  /\ LET r == row[call[s].dev] IN
       IF r.key = call[s].arg /\ r.status = "approved" /\ age[r.key] # "dead"
       THEN Goes(s, "keys")
       ELSE Replies(s, "error", None)
  /\ UNCHANGED <<row, session, client, age, past>>

\* Mutant: keys are written only where there are none.
KeyedMutant(d, k) ==
  IF Exists(d) /\ row[d].key = None
  THEN [row EXCEPT ![d].key = k, ![d].status = "approved"] ELSE row

\* UpdateDeviceKeys: sets the status too, and writes nothing when the row has
\* gone meanwhile.
Keyed(d, k) ==
  IF Exists(d) THEN [row EXCEPT ![d].key = k, ![d].status = "approved"] ELSE row

\* A step that writes the row of a revoked device may bring it back.
Returning ==
  {d \in Device : row[d].status = "revoked" /\ row'[d].status # "revoked"}

IssueKeys(s) ==
  /\ call[s].op \in {"poll", "refresh"} /\ call[s].step = "keys"
  /\ FreeKeys # {}
  /\ row' = Keyed(call[s].dev, FreshKey)
  /\ returned' = returned \cup Returning
  /\ age' = [k \in Key |-> IF k \in FreeKeys THEN "fresh" ELSE age[k]]
  /\ Replies(s, "approved", FreshKey)
  /\ UNCHANGED <<session, client, faults, unheard, authorized>>

-----------------------------------------------------------------------------
\* The administrator's requests

\* handleSetDeviceStatus and handleUpdateDevice read the row first ...
AdminReads(s, d, op, v) ==
  /\ op \in AdminOps \cap UpdateOps
  /\ v \in (IF op = "override" THEN Ip ELSE {None})
  /\ Exists(d)
  /\ Arrives(s, op, d, IF op = "override" THEN "validate" ELSE "write",
             v, row[d], FALSE)
  /\ UNCHANGED <<row, session, client, age, past>>

\* ... validateDeviceVIP asks for one device with the address ...
AdminValidates(s) ==
  /\ At(s, "override", "validate")
  /\ LET owners == DevicesByVIP(call[s].arg) IN
       \/ owners = {} /\ Goes(s, "write")
       \/ \E d \in owners :
            IF d = call[s].dev THEN Goes(s, "write") ELSE Ends(s)
  /\ UNCHANGED <<row, session, client, age, past>>

\* ... and UpdateDevice writes every column back from what was read.
Updated(r, c) ==
  IF r.status = "absent" THEN r
  ELSE [r EXCEPT
    !.status = CASE c.op = "approve" -> "approved"
                 [] c.op = "revoke" -> "revoked"
                 [] c.op = "pend" -> "pending"
                 [] OTHER -> c.snap.status,
    !.override = CASE c.op = "override" -> c.arg
                   [] c.op = "clear" -> Cleared
                   [] OTHER -> c.snap.override]

AdminWrites(s) ==
  /\ call[s].op \in UpdateOps /\ call[s].step = "write"
  /\ LET d == call[s].dev IN
       /\ row' = [row EXCEPT ![d] = Updated(@, call[s])]
       /\ authorized' = IF call[s].op = "approve" THEN authorized \cup {d}
                        ELSE authorized
  /\ returned' = returned \cup Returning
  /\ Ends(s)
  /\ UNCHANGED <<session, client, age, faults, unheard>>

\* handleAuthSession, POST.
ApproveSession(c) ==
  /\ "session" \in AdminOps
  /\ session[c].status = "pending"
  /\ session' = [session EXCEPT ![c].status = "approved"]
  /\ authorized' = authorized \cup {session[c].dev}
  /\ UNCHANGED <<row, call, client, age, faults, unheard, returned>>

DeleteDevice(d) ==
  /\ "delete" \in AdminOps
  /\ Exists(d)
  /\ row' = [row EXCEPT ![d] = NoRow]
  /\ returned' = returned \ {d}
  /\ UNCHANGED <<session, call, client, age, faults, unheard, authorized>>

-----------------------------------------------------------------------------
\* The client process

Becomes(d, pc) == client' = [client EXCEPT ![d].pc = pc]

\* RunClient: a valid access key is used as it is, an old one is refreshed,
\* and without a refresh key RefreshKey fails at once.
Start(d) ==
  /\ client[d].pc = "down"
  /\ LET k == client[d].key IN
       \/ k # None /\ age[k] = "fresh" /\ Becomes(d, "keyed") /\ UNCHANGED call
       \/ k = None /\ Becomes(d, "refused") /\ UNCHANGED call
       \/ /\ k # None /\ age[k] # "fresh"
          /\ Becomes(d, "refreshing")
          /\ \E s \in Slot : Arrives(s, "refresh", d, "lookup", k, NoRow, TRUE)
  /\ UNCHANGED <<row, session, age, past>>

InitDeviceAuth(d) ==
  /\ client[d].pc = "refused"
  /\ Becomes(d, "initiating")
  /\ \E s \in Slot : Arrives(s, "init", d, "lookup", None, NoRow, TRUE)
  /\ UNCHANGED <<row, session, age, past>>

PollAuthStatus(d) ==
  /\ client[d].pc = "polling"
  /\ Becomes(d, "awaiting")
  /\ \E s \in Slot :
       Arrives(s, "poll", d, "lookup", client[d].code, NoRow, TRUE)
  /\ UNCHANGED <<row, session, age, past>>

\* Mutant: the client goes on with the session after it has its keys.
AnsweredMutant(c, op, status, value) ==
  CASE status = "approved" -> [c EXCEPT !.pc = "keyed", !.key = value]
    [] op = "init" /\ status = "ok" ->
         [c EXCEPT !.pc = "polling", !.code = value]
    [] op = "poll" /\ status \notin {"approved", "expired"} -> [c EXCEPT !.pc = "polling"]
    [] op = "refresh" /\ status = "error" -> [c EXCEPT !.pc = "refused"]
    [] OTHER -> [c EXCEPT !.pc = "down", !.code = None]

\* What the client does with the answer to each request.
Answered(c, op, status, value) ==
  CASE status = "approved" ->
         [c EXCEPT !.pc = "keyed", !.key = value, !.code = None]
    [] op = "init" /\ status = "ok" ->
         [c EXCEPT !.pc = "polling", !.code = value]
    [] op = "poll" /\ status \notin {"approved", "expired"} -> [c EXCEPT !.pc = "polling"]
    [] op = "refresh" /\ status = "error" -> [c EXCEPT !.pc = "refused"]
    [] OTHER -> [c EXCEPT !.pc = "down", !.code = None]

Answer(s) ==
  /\ call[s].op \in ClientOps /\ call[s].step = "reply" /\ call[s].heard
  /\ client' = [client EXCEPT ![call[s].dev] =
                  Answered(@, call[s].op, call[s].status, call[s].arg)]
  /\ Ends(s)
  /\ UNCHANGED <<row, session, age, past>>

\* The request fails or times out at the client; the server may not notice
\* and go on with it.
GiveUp(s) ==
  /\ faults < MaxFaults
  /\ call[s].op \in ClientOps /\ call[s].heard
  /\ client' = [client EXCEPT ![call[s].dev] =
                  Answered(@, call[s].op, "error", None)]
  /\ call' = [call EXCEPT ![s].heard = FALSE]
  /\ faults' = faults + 1
  /\ unheard' = unheard \cup {call[s].dev}
  /\ UNCHANGED <<row, session, age, authorized, returned>>

\* The request's context is cancelled between two store calls, or nobody
\* reads the answer.
Forget(s) ==
  /\ call[s].op \in ClientOps /\ ~call[s].heard
  /\ Ends(s)
  /\ UNCHANGED <<row, session, client, age, past>>

\* The first hello (Pool.Connect); its failure ends RunClient.
Connect(d) ==
  /\ client[d].pc = "keyed"
  /\ client' = [client EXCEPT
       ![d].pc = IF Accepts(d) THEN "online" ELSE "down",
       ![d].vip = IF Accepts(d) THEN EffectiveIP(row[d]) ELSE None]
  /\ UNCHANGED <<row, session, call, age, past>>

\* The pool has lost every connection ...
Lose(d) ==
  /\ client[d].pc = "online"
  /\ Becomes(d, "rebuilding")
  /\ UNCHANGED <<row, session, call, age, past>>

\* ... and a build succeeds: hello is accepted with the key the pool was
\* created with, and the address is the one it had (buildStandby).
Rebuild(d) ==
  /\ client[d].pc = "rebuilding"
  /\ Accepts(d) /\ EffectiveIP(row[d]) = client[d].vip
  /\ Becomes(d, "online")
  /\ UNCHANGED <<row, session, call, age, past>>

\* The process ends and is started again; the key file survives.
Stop(d) ==
  /\ faults < MaxFaults
  /\ client[d].pc # "down"
  /\ client' = [client EXCEPT ![d].pc = "down", ![d].code = None, ![d].vip = None]
  /\ call' = [s \in Slot |->
       IF call[s].op \in ClientOps /\ call[s].dev = d
       THEN [call[s] EXCEPT !.heard = FALSE] ELSE call[s]]
  /\ unheard' = IF \E s \in Slot : call[s] # Idle /\ call[s].heard /\ call[s].dev = d
                THEN unheard \cup {d} ELSE unheard
  /\ faults' = faults + 1
  /\ UNCHANGED <<row, session, age, authorized, returned>>

-----------------------------------------------------------------------------
\* Time

\* 24 hours (access key), then 90 days (refresh key); only of a key a client
\* has can the age be asked for.  A key outlives the exchange that delivers it
\* and the first hello.
AgeKey(k) ==
  /\ \E d \in Device : k = client[d].key
  /\ \A d \in Device : client[d].key = k => client[d].pc # "keyed"
  /\ \/ age[k] = "fresh" /\ age' = [age EXCEPT ![k] = "aged"]
     \/ age[k] = "aged" /\ age' = [age EXCEPT ![k] = "dead"]
  /\ UNCHANGED <<row, session, call, client, past>>

\* 10 minutes, against a poll every 3 seconds.
ExpireSession(c) ==
  /\ session[c] # NoSession /\ session[c].life = "polled"
  /\ session' = [session EXCEPT ![c].life = "expired"]
  /\ UNCHANGED <<row, call, client, age, past>>

-----------------------------------------------------------------------------
Serve(s) ==
  \/ InitLookup(s) \/ InitAllocate(s) \/ InitCreate(s) \/ InitSession(s)
  \/ PollSession(s) \/ PollDevice(s) \/ PollMark(s) \/ RefreshLookup(s)
  \/ IssueKeys(s) \/ AdminValidates(s) \/ AdminWrites(s)

Run(d) ==
  \/ Start(d) \/ InitDeviceAuth(d) \/ PollAuthStatus(d) \/ Connect(d)
  \/ Rebuild(d)

Next ==
  \/ \E s \in Slot : Serve(s) \/ Answer(s) \/ GiveUp(s) \/ Forget(s)
  \/ \E d \in Device : Run(d) \/ Lose(d) \/ Stop(d) \/ DeleteDevice(d)
  \/ \E s \in Slot, d \in Device, op \in UpdateOps, v \in Ip \cup {None} :
       AdminReads(s, d, op, v)
  \/ \E c \in Code : ApproveSession(c) \/ ExpireSession(c)
  \/ \E k \in Key : AgeKey(k)

Spec == Init /\ [][Next]_vars

\* The server finishes what it has begun, the client runs when a slot is free
\* again and again, a day that goes by again and again has gone by.
FairSpec ==
  /\ Spec
  /\ \A s \in Slot : WF_vars(Serve(s)) /\ WF_vars(Answer(s)) /\ WF_vars(Forget(s))
  /\ \A d \in Device : SF_vars(Run(d))
  /\ \A k \in Key : SF_vars(AgeKey(k))

-----------------------------------------------------------------------------
(* Keys are issued only to devices an administrator has approved at some    *)
(* time, whatever polls, refreshes, deletions and registrations are under   *)
(* way.                                                                     *)
NoKeysWithoutApproval ==
  \A d \in Device : row[d].key # None \/ client[d].key # None => d \in authorized

(* Unless the client once did not wait for an answer, the key it is about   *)
(* to use is the one the device table holds (or the device was deleted):    *)
(* each issue replaces the pair, through polls, refreshes and restarts, and *)
(* one client has one request out at a time.                                *)
KeysAgreeUnlessUnheard ==
  \A d \in Device : d \notin unheard /\ client[d].pc = "keyed" =>
    row[d].key \in {client[d].key, None}

(* A request between a query about addresses, or the reading of a row, and  *)
(* the write that rests on it.  Where two overlap, addresses may collide    *)
(* (docs/HANDOFF.md:196); VipsDistinct is about behaviours without that.    *)
Writing(s) == At(s, "init", "create") \/ call[s].op \in UpdateOps
OneWriter == \A s, t \in Slot : Writing(s) /\ Writing(t) => s = t

(* As long as writers do not overlap and no override is cleared, two        *)
(* devices have the same effective address only if one is revoked or has    *)
(* come back from a revocation: through registrations, approvals, changes   *)
(* of the address, revocations, deletions and keys issued meanwhile.        *)
(* allocateVIP gives the address of a revoked device away, and nothing      *)
(* keeps that device from coming back: an administrator approves it again,  *)
(* a poll finds its session approved, or a poll or refresh was past its     *)
(* check when the revocation came (UpdateDeviceKeys writes the status too). *)
VipsDistinct ==
  \A d, e \in Device \ returned :
    /\ d # e
    /\ {row[d].status, row[e].status} \subseteq {"pending", "approved"}
    => EffectiveIP(row[d]) # EffectiveIP(row[e])

(* Once a device stays approved, a client that starts gets online, whatever *)
(* was lost before: a refresh whose answer is lost falls back to a new      *)
(* authorization, and a key replaced by a late request is used up in a day. *)
ApprovedComesUp ==
  \A d \in Device :
    <>[](row[d].status = "approved")
      => [](client[d].pc = "down" => <>(client[d].pc = "online"))

(* A client that stays running and approved is online again and again: lost *)
(* connections are rebuilt in the background (docs/HANDOFF.md:30) and the   *)
(* refresh key renews the access key (docs/admin-console-design.md:20).     *)
ReturnsOnline ==
  \A d \in Device :
    <>[](row[d].status = "approved")
      => [](client[d].pc = "rebuilding" => <>(client[d].pc # "rebuilding"))

=============================================================================
