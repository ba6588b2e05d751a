------------------------------- MODULE Console -------------------------------
(* One browser tab of the administration console (www/src): a single-page   *)
(* application whose pages fetch the device table, send changes and read it *)
(* again.  The bearer token lives in localStorage, which every tab of the   *)
(* browser shares; whether somebody is signed in lives in React state.      *)
(* Only one page is mounted, but a request survives the page that sent it,  *)
(* and what its handler does then depends on how it was written.            *)
(*                                                                          *)
(* The server (internal/admin/handler.go) is one step per request here; its *)
(* own interleavings are in DeviceAuth.  Names and addresses are left out:  *)
(* a saved edit is a new version of the table.                              *)
EXTENDS Integers, FiniteSets

CONSTANTS
  Device,     \* device identifiers
  MaxCall,    \* bound: requests of the tab under way at once
  MaxToken,   \* bound: tokens in use at once
  Budgets     \* bound: how many writes, faults, moves and endings there are

ASSUME ConsoleAssumption ==
  /\ {MaxCall, MaxToken} \subseteq Nat \ {0}
  /\ 0 \notin Device
  /\ Budgets \subseteq [writes : Nat, faults : Nat, moves : Nat, ends : Nat]

VARIABLES
  row,        \* server: status of each device, "absent" when there is no row
  asked,      \* server: status of the authorization request of each device
  version,    \* server: changes to the device table so far
  stored,     \* localStorage wsvpn_token
  dead,       \* tokens the server no longer accepts
  signedIn,   \* AuthProvider's token is not null
  page,       \* what the router shows
  from,       \* on the login page, where to go afterwards
  view,       \* state of the mounted page
  call,       \* call[s]: a request under way
  left,       \* what is left of the budget
  acked       \* history: version of the latest own change that was confirmed

server == <<row, asked, version>>
tab == <<signedIn, page, from, view>>
vars == <<server, stored, dead, tab, call, left, acked>>

None == 0          \* no token, no device, no code
Token == 1 .. MaxToken
Slot == 1 .. MaxCall
Status == {"absent", "pending", "approved", "revoked"}
NoRows == [d \in Device |-> "absent"]

\* The routes of App.
login == [at |-> "login", dev |-> None]
dashboard == [at |-> "dashboard", dev |-> None]
codeless == [at |-> "approval", dev |-> None]   \* no code in its URL
blank == [at |-> "blank", dev |-> None]         \* rendering threw
Protected == {dashboard} \cup [at : {"detail"}, dev : Device]
                         \cup [at : {"approval"}, dev : Device \cup {None}]
Page == Protected \cup {login, blank}

\* What an answer with rows says, and when it was true.
Data == [rows : [Device -> Status], asked : {"none", "pending", "approved"},
         at : Nat]
NoData == [rows |-> NoRows, asked |-> "none", at |-> 0]

\* The last three are history: the router kept the component for another
\* device; it did so while a request other than the effect's was under way; a
\* change was confirmed while the data shown was on its way, or, to a page that
\* is gone, after that.
View == [loading : BOOLEAN, error : BOOLEAN, data : Data,
         dialog : Device \cup {None}, success : BOOLEAN,
         kept : BOOLEAN, astray : BOOLEAN, crossed : BOOLEAN]

Loads == {"list", "get"}
Changes == {"approve", "revoke", "delete", "save"}
Call == [op : Loads \cup Changes \cup {"session", "allow", "login"},
         dev : Device \cup {None},
         page : Page,         \* whose code made it; for a login, the way back
         token : Token \cup {None},
         first : BOOLEAN,     \* sent by the page's effect, which can cancel it
         mounted : BOOLEAN,   \* that page is still there and has not cancelled
         crossed : BOOLEAN,   \* history: a change was confirmed meanwhile
         answer : {"none", "ok", "refused", "error"},
         data : Data]
Idle == [op |-> "idle"]

TypeOK ==
  /\ row \in [Device -> Status]
  /\ asked \in [Device -> {"pending", "approved"}]
  /\ version \in Nat
  /\ stored \in Token \cup {None}
  /\ dead \subseteq Token
  /\ signedIn \in BOOLEAN
  /\ page \in Page
  /\ from \in Protected
  /\ view \in View
  /\ call \in [Slot -> Call \cup {Idle}]
  /\ left \in [writes : Nat, faults : Nat, moves : Nat, ends : Nat]
  /\ acked \in Nat

Spend(what) == left[what] > 0 /\ left' = [left EXCEPT ![what] = @ - 1]

Valid(t) == t # None /\ t \notin dead

Held == {stored} \cup {call[s].token : s \in {r \in Slot : call[r] # Idle}}
Lowest(S) == CHOOSE n \in S : \A m \in S : n <= m
FreeTokens == Token \ Held \* (bound) a login needs one of them
FreshToken == Lowest(FreeTokens)

-----------------------------------------------------------------------------
(* Requests and pages.                                                      *)

\* request() reads the token when it sends.
Request(op, d, p, first, mounted) ==
  [op |-> op, dev |-> d, page |-> p, token |-> stored', first |-> first,
   mounted |-> mounted, crossed |-> FALSE, answer |-> "none", data |-> NoData]

Free(s) == call[s] = Idle /\ \A r \in 1 .. (s - 1) : call[r] # Idle

Fresh(p) ==
  [loading |-> p \notin {login, codeless, blank}, error |-> p = codeless,
   data |-> NoData, dialog |-> None, success |-> FALSE, kept |-> FALSE,
   astray |-> FALSE, crossed |-> FALSE]

Pending(calls) == {s \in Slot : calls[s] # Idle /\ calls[s].mounted /\ ~calls[s].first}

\* The router keeps a component whose parameter changes; its effect runs
\* again.  The effect of DeviceAuth does not set `loading`.
Reused(p, calls) ==
  [view EXCEPT !.kept = TRUE,
               !.astray = @ \/ Pending(calls) # {},
               !.loading = (p.at = "detail") \/ (p.dev # None /\ @),
               !.error = @ \/ p = codeless]

\* The cleanup of the effect cancels its request; when the component goes,
\* setting its state has no effect any more.
Left(calls, kept) ==
  [s \in Slot |-> IF calls[s] = Idle \/ (kept /\ ~calls[s].first)
                  THEN calls[s] ELSE [calls[s] EXCEPT !.mounted = FALSE]]

\* The request a page's effect sends.
Opening(p) ==
  LET op == CASE p.at = "dashboard" -> "list"
              [] p.at = "detail" -> "get"
              [] p.at = "approval" -> "session"
  IN  Request(op, p.dev, p, TRUE, TRUE)

\* Mutant: the login page sends people who are signed in to the dashboard.
TargetMutant(p) == IF p \in Protected /\ ~signedIn' THEN login
                   ELSE IF p = login /\ signedIn' THEN dashboard ELSE p

\* RequireAuth looks at React's token only.
Target(p) == IF p \in Protected /\ ~signedIn' THEN login ELSE p

\* The router goes to p with these requests under way; slot s is free for the
\* request of the new page.  A redirect to the login page mounts a new one, even
\* from the login page itself.
GoTo(p, calls, s) ==
  LET q == Target(p)
      kept == q # login /\ q.at = page.at
  IN
  IF page = blank THEN call' = calls /\ UNCHANGED <<page, from, view>>
  ELSE /\ page' = q
       /\ from' = IF q = login /\ p # login THEN p ELSE dashboard
       /\ IF p = page /\ q = page THEN view' = view /\ call' = calls
          ELSE /\ view' = IF kept THEN Reused(q, calls) ELSE Fresh(q)
               /\ call' = IF q \in {login, codeless} THEN Left(calls, kept)
                          ELSE [Left(calls, kept) EXCEPT ![s] = Opening(q)]

-----------------------------------------------------------------------------
(* The user.                                                                *)

\* A link, or back and forward in the history of the tab.
Navigate(s, p) ==
  /\ page # blank /\ p # page
  /\ Free(s)
  /\ Spend("moves")
  /\ UNCHANGED <<server, stored, dead, signedIn, acked>>
  /\ GoTo(p, call, s)

\* The page is loaded anew from its URL; the browser drops what was under way
\* (what the server still does of it counts as somebody else's change).
Reload(p) ==
  /\ Spend("moves")
  /\ UNCHANGED <<server, stored, dead, acked>>
  /\ signedIn' = (stored # None)
  /\ page' = Target(p)
  /\ from' = IF Target(p) = login /\ p # login THEN p ELSE dashboard
  /\ view' = Fresh(Target(p))
  /\ call' = LET none == [r \in Slot |-> Idle] IN
             IF Target(p) \in {login, codeless} THEN none
             ELSE [none EXCEPT ![1] = Opening(Target(p))]

\* The user has a page's code send something.
Sends(s, op, d, p) ==
  /\ Free(s)
  /\ call' = [call EXCEPT ![s] = Request(op, d, p, FALSE, TRUE)]

\* Login.handleSubmit; the button is disabled while a login is under way.
Submit(s) ==
  /\ page = login /\ ~view.loading
  /\ view' = [view EXCEPT !.loading = TRUE, !.error = FALSE]
  /\ UNCHANGED <<server, stored, dead, signedIn, page, from, left, acked>>
  /\ Sends(s, "login", None, from)

\* A dialog covers the rest of the dashboard.
OnDashboard == page = dashboard /\ view.dialog = None

Refresh(s) ==
  /\ OnDashboard
  /\ view' = [view EXCEPT !.loading = TRUE]
  /\ UNCHANGED <<server, stored, dead, signedIn, page, from, left, acked>>
  /\ Sends(s, "list", None, page)

Logout ==
  /\ OnDashboard
  /\ Spend("moves")
  /\ stored' = None
  /\ signedIn' = FALSE
  /\ UNCHANGED <<server, dead, acked>>
  /\ GoTo(login, call, 1)

\* The buttons of a row depend on the status it shows; only the table is
\* hidden while the list loads.
Offered(d, op) ==
  CASE op = "approve" -> view.data.rows[d] = "pending"
    [] op = "revoke" -> view.data.rows[d] = "approved"
    [] op = "delete" -> view.data.rows[d] # "absent"

Click(s, d, op) ==
  /\ OnDashboard /\ ~view.loading
  /\ op # "save" /\ Offered(d, op)
  /\ Spend("writes")
  /\ UNCHANGED <<server, stored, dead, tab, acked>>
  /\ Sends(s, op, d, page)

OpenEdit(d) ==
  /\ OnDashboard /\ ~view.loading
  /\ view.data.rows[d] # "absent"
  /\ view' = [view EXCEPT !.dialog = d]
  /\ UNCHANGED <<server, stored, dead, signedIn, page, from, call, left, acked>>

CloseEdit ==
  /\ page = dashboard /\ view.dialog # None
  /\ view' = [view EXCEPT !.dialog = None]
  /\ UNCHANGED <<server, stored, dead, signedIn, page, from, call, left, acked>>

\* handleSave; the dialog stays open until the answer.
Save(s) ==
  /\ page = dashboard /\ view.dialog # None
  /\ Spend("writes")
  /\ UNCHANGED <<server, stored, dead, tab, acked>>
  /\ Sends(s, "save", view.dialog, page)

\* setApproved and setRevoked of DeviceDetail: the buttons depend on the device
\* the component holds, the request on the URL.
ClickDetail(s, op) ==
  /\ page.at = "detail"
  /\ op \in {"approve", "revoke"}
  /\ \E d \in Device : Offered(d, op)
  /\ Spend("writes")
  /\ UNCHANGED <<server, stored, dead, tab, acked>>
  /\ Sends(s, op, page.dev, page)

\* DeviceAuth.handleApprove.
Allow(s) ==
  /\ page.at = "approval" /\ page.dev # None
  /\ ~view.loading /\ ~view.success /\ view.data.asked = "pending"
  /\ UNCHANGED <<server, stored, dead, tab, left, acked>>
  /\ Sends(s, "allow", page.dev, page)

-----------------------------------------------------------------------------
(* The server answers.                                                      *)

Answers(s, answer, data, token) ==
  call' = [call EXCEPT ![s] =
             [@ EXCEPT !.answer = answer, !.data = data, !.token = token]]

\* requireAuth.
Refuse(s) ==
  /\ call[s] # Idle /\ call[s].answer = "none"
  /\ call[s].op # "login" /\ ~Valid(call[s].token)
  /\ Answers(s, "refused", NoData, call[s].token)
  /\ UNCHANGED <<server, stored, dead, tab, left, acked>>

Arrived(s, ops) ==
  call[s] # Idle /\ call[s].answer = "none" /\ call[s].op \in ops
    /\ (call[s].op = "login" \/ Valid(call[s].token))

\* handleLogin with the right password.
ServeLogin(s) ==
  /\ Arrived(s, {"login"})
  /\ FreeTokens # {}
  /\ Answers(s, "ok", NoData, FreshToken)
  /\ dead' = dead \ {FreshToken}
  /\ UNCHANGED <<server, stored, tab, left, acked>>

\* handleLogin with a wrong one, which is a 401 too.
RejectLogin(s) ==
  /\ Arrived(s, {"login"})
  /\ Spend("faults")
  /\ Answers(s, "refused", NoData, call[s].token)
  /\ UNCHANGED <<server, stored, dead, tab, acked>>

\* handleDevices, handleGetDevice, and handleAuthSession for GET.
ServeRead(s) ==
  /\ Arrived(s, Loads \cup {"session"})
  /\ LET d == call[s].dev
         rows == IF call[s].op = "list" THEN row ELSE [NoRows EXCEPT ![d] = row[d]]
         status == IF call[s].op = "session" THEN asked[d] ELSE "none"
     IN  IF call[s].op = "get" /\ row[d] = "absent"
         THEN Answers(s, "error", NoData, call[s].token)
         ELSE Answers(s, "ok", [rows |-> rows, asked |-> status, at |-> version],
                      call[s].token)
  /\ UNCHANGED <<server, stored, dead, tab, left, acked>>

\* Mutant: a deleted row stays, marked as such.
ChangedMutant(op, status) ==
  CASE op = "approve" -> "approved" [] op = "revoke" -> "revoked"
    [] op = "delete" -> "deleted" [] op = "save" -> status

Changed(op, status) ==
  CASE op = "approve" -> "approved" [] op = "revoke" -> "revoked"
    [] op = "delete" -> "absent" [] op = "save" -> status

\* handleSetDeviceStatus, handleUpdateDevice, handleDeleteDevice; the last one
\* does not mind that the device is gone.
ServeChange(s) ==
  /\ Arrived(s, Changes)
  /\ LET d == call[s].dev
         op == call[s].op
     IN  IF row[d] = "absent" /\ op # "delete"
         THEN /\ Answers(s, "error", NoData, call[s].token)
              /\ UNCHANGED <<row, version>>
         ELSE /\ row' = [row EXCEPT ![d] = Changed(op, @)]
              /\ version' = version + 1
              /\ Answers(s, "ok", [NoData EXCEPT !.at = version'], call[s].token)
  /\ UNCHANGED <<asked, stored, dead, tab, left, acked>>

\* handleAuthSession for POST.
ServeAllow(s) ==
  /\ Arrived(s, {"allow"})
  /\ asked' = [asked EXCEPT ![call[s].dev] = "approved"]
  /\ Answers(s, "ok", NoData, call[s].token)
  /\ UNCHANGED <<row, version, stored, dead, tab, left, acked>>

\* Another status, a network failure before or after the server acted, or too
\* many logins.
Fail(s) ==
  /\ call[s] # Idle /\ call[s].answer # "error"
  /\ Spend("faults")
  /\ Answers(s, "error", NoData, call[s].token)
  /\ UNCHANGED <<server, stored, dead, tab, acked>>

-----------------------------------------------------------------------------
(* The tab takes an answer.                                                 *)

Done(s) == [call EXCEPT ![s] = Idle]

\* Mutant: any failure clears the token.
ClearedMutant(s) == IF call[s].answer # "ok" THEN None ELSE stored

\* request() on a 401: whatever token is stored by now goes.
Cleared(s) == IF call[s].answer = "refused" THEN None ELSE stored

\* Mutant: an answer is shown by whatever page is there.
AppliesMutant(s) == page.at \in {"dashboard", "detail", "approval"}

Applies(s) == call[s].mounted

\* Mutant: `loading` is reset in the try block only.
LoadedMutant(c) ==
  IF c.answer = "ok"
  THEN [view EXCEPT !.data = c.data, !.loading = FALSE, !.error = FALSE,
                    !.crossed = c.crossed]
  ELSE [view EXCEPT !.error = TRUE]

\* What load() and loadInitial() leave behind.
Loaded(c) ==
  IF c.answer = "ok"
  THEN [view EXCEPT !.data = c.data, !.loading = FALSE, !.error = FALSE,
                    !.crossed = c.crossed]
  ELSE [view EXCEPT !.loading = FALSE, !.error = TRUE]

\* load() and loadInitial() of Dashboard and DeviceDetail.
TakeLoad(s) ==
  LET c == call[s] IN
  /\ c # Idle /\ c.op \in Loads /\ c.answer # "none"
  /\ stored' = Cleared(s)
  /\ UNCHANGED <<server, dead, signedIn, left, acked>>
  /\ IF c.answer = "refused" /\ (c.mounted \/ ~c.first)
     THEN GoTo(login, Done(s), s)
     ELSE /\ call' = Done(s)
          /\ UNCHANGED <<page, from>>
          /\ view' = IF Applies(s) THEN Loaded(c) ELSE view

Later(m, n) == IF m > n THEN m ELSE n

\* A change is confirmed: what is under way was sent before that.
Crossed ==
  [s \in Slot |-> IF call[s] = Idle THEN Idle ELSE [call[s] EXCEPT !.crossed = TRUE]]

\* Mutant: the handlers do not load again.
TakeChangeMutant(s) ==
  LET c == call[s] IN
  /\ c # Idle /\ c.op \in Changes /\ c.answer # "none"
  /\ stored' = Cleared(s)
  /\ acked' = IF c.answer = "ok" THEN Later(acked, c.data.at) ELSE acked
  /\ call' = [Crossed EXCEPT ![s] = Idle]
  /\ UNCHANGED <<server, dead, tab, left>>

\* The handlers that change a device: no failure is caught; after a success the
\* page that sent it loads again, whether it is still there or not.
TakeChange(s) ==
  LET c == call[s]
      op == IF c.page.at = "dashboard" THEN "list" ELSE "get"
  IN
  /\ c # Idle /\ c.op \in Changes /\ c.answer # "none"
  /\ stored' = Cleared(s)
  /\ UNCHANGED <<server, dead, signedIn, page, from, left>>
  /\ IF c.answer # "ok" THEN call' = Done(s) /\ UNCHANGED <<view, acked>>
     ELSE /\ acked' = Later(acked, c.data.at)
          /\ call' = [Crossed EXCEPT ![s] = Request(op, c.page.dev, c.page, FALSE, c.mounted)]
          /\ view' = IF ~c.mounted THEN [view EXCEPT !.crossed = TRUE]
                     ELSE [view EXCEPT !.loading = TRUE,
                             !.dialog = IF c.op = "save" THEN None ELSE @]

\* loadSession of DeviceAuth.  A request whose device was deleted has no device
\* to show, and no error boundary is there to catch that.
TakeSession(s) ==
  LET c == call[s] IN
  /\ c # Idle /\ c.op = "session" /\ c.answer # "none"
  /\ stored' = Cleared(s)
  /\ UNCHANGED <<server, dead, signedIn, from, left, acked>>
  /\ IF ~Applies(s) THEN call' = Done(s) /\ UNCHANGED <<page, view>>
     ELSE IF c.answer = "ok" /\ c.data.rows[c.dev] = "absent" /\ ~view.success
     THEN /\ page' = blank
          /\ view' = Fresh(blank)
          /\ call' = Left(Done(s), FALSE)
     ELSE /\ call' = Done(s)
          /\ UNCHANGED page
          /\ view' = Loaded(c)

\* DeviceAuth.handleApprove goes on.
TakeAllow(s) ==
  LET c == call[s] IN
  /\ c # Idle /\ c.op = "allow" /\ c.answer # "none"
  /\ stored' = Cleared(s)
  /\ call' = Done(s)
  /\ view' = IF ~Applies(s) THEN view
             ELSE IF c.answer = "ok" THEN [view EXCEPT !.success = TRUE]
             ELSE [view EXCEPT !.error = TRUE]
  /\ UNCHANGED <<server, dead, signedIn, page, from, left, acked>>

\* Login.handleSubmit and AuthProvider.login go on: the token is stored, and
\* the router leaves even if the login page has been left already.
TakeLogin(s) ==
  LET c == call[s] IN
  /\ c # Idle /\ c.op = "login" /\ c.answer # "none"
  /\ UNCHANGED <<server, dead, left, acked>>
  /\ IF c.answer = "ok"
     THEN /\ stored' = c.token
          /\ signedIn' = TRUE
          /\ GoTo(c.page, Done(s), s)
     ELSE /\ stored' = Cleared(s)
          /\ call' = Done(s)
          /\ view' = IF Applies(s) THEN [view EXCEPT !.loading = FALSE, !.error = TRUE]
                     ELSE view
          /\ UNCHANGED <<signedIn, page, from>>

-----------------------------------------------------------------------------
(* Everybody else.                                                          *)

\* Another administrator, or a device that registers.
OtherWrite(d, status) ==
  /\ Spend("writes")
  /\ row[d] # status
  /\ row' = [row EXCEPT ![d] = status]
  /\ version' = version + 1
  /\ UNCHANGED <<asked, stored, dead, tab, call, acked>>

\* 24 hours are over, or the server was restarted without a fixed secret.
Expire(t) ==
  /\ Spend("ends")
  /\ t \in Held /\ Valid(t)
  /\ dead' = dead \cup {t}
  /\ UNCHANGED <<server, stored, tab, call, acked>>

\* Another tab of the browser signs in or out.
OtherTab ==
  /\ Spend("ends")
  /\ \/ stored' = None /\ UNCHANGED dead
     \/ FreeTokens # {} /\ stored' = FreshToken /\ dead' = dead \ {FreshToken}
  /\ UNCHANGED <<server, tab, call, acked>>

-----------------------------------------------------------------------------
\* The tab has been opened without a token.
Init ==
  /\ row = [d \in Device |-> "pending"]
  /\ asked = [d \in Device |-> "pending"]
  /\ version = 0
  /\ stored = None
  /\ dead = {}
  /\ signedIn = FALSE
  /\ page = login /\ from = dashboard /\ view = Fresh(login)
  /\ call = [s \in Slot |-> Idle]
  /\ left \in Budgets
  /\ acked = 0

Serve(s) ==
  Refuse(s) \/ ServeLogin(s) \/ ServeRead(s) \/ ServeChange(s) \/ ServeAllow(s)

Take(s) ==
  TakeLoad(s) \/ TakeChange(s) \/ TakeSession(s) \/ TakeAllow(s) \/ TakeLogin(s)

Next ==
  \/ \E s \in Slot :
       \/ \E p \in Page \ {blank} : Navigate(s, p)
       \/ Submit(s) \/ Refresh(s) \/ Save(s) \/ Allow(s)
       \/ \E d \in Device, op \in Changes : Click(s, d, op)
       \/ \E op \in Changes : ClickDetail(s, op)
       \/ Serve(s) \/ RejectLogin(s) \/ Fail(s) \/ Take(s)
  \/ \E p \in Page \ {blank} : Reload(p)
  \/ Logout \/ CloseEdit \/ OtherTab
  \/ \E d \in Device : OpenEdit(d) \/ \E status \in Status : OtherWrite(d, status)
  \/ \E t \in Token : Expire(t)

Spec == Init /\ [][Next]_vars

\* Every fetch settles.  Nothing in the program makes a user act.
FairSpec == Spec /\ \A s \in Slot : WF_vars(Serve(s) \/ Take(s))

-----------------------------------------------------------------------------
(* A page at rest shows every change the tab was told has been made, however *)
(* many requests overlap, with one exception: an answer to a read that was   *)
(* sent before the confirmation and taken after it.  Nothing keeps answers   *)
(* in order, so when such an older answer comes last it does hide the change *)
(* (and until the newer one comes).  A change confirmed to a page that is    *)
(* gone is shown by pages loaded from then on.                               *)
ShowsOwnWrites ==
  page.at \in {"dashboard", "detail"} /\ ~view.loading /\ ~view.error /\ ~view.crossed
    => view.data.at >= acked

(* A page shows the device of its URL, and the success of an approval only   *)
(* when the request of its own code is approved, however late the answers to *)
(* other pages come.  The router keeps the component of one device for the   *)
(* next: a detail page that was kept shows its new device once it is done    *)
(* loading, beside no error message, and unless a change made on the page    *)
(* before, or the load after that, was still under way: its answer shows the *)
(* old device.  An approval page that was kept shows the old request, and    *)
(* the old success, at least until it has loaded the new one.                *)
ShowsItsDevice ==
  /\ page.at = "detail" /\ (view.kept => ~view.loading /\ ~view.error /\ ~view.astray) =>
       \A d \in Device : view.data.rows[d] # "absent" => d = page.dev
  /\ page.at = "approval" /\ ~view.kept =>
       /\ \A d \in Device : view.data.rows[d] # "absent" => d = page.dev
       /\ view.success => asked[page.dev] = "approved"

(* A token that is still good is removed by signing out, by a login that is *)
(* refused, or by a 401 to a request sent with another token, and never by  *)
(* a request that carried it, whatever else goes wrong with that one.       *)
TokenErasedForCause ==
  [][Valid(stored) /\ stored' = None =>
       \/ <<left.moves, left.ends>>' # <<left.moves, left.ends>>
       \/ \E s \in Slot :
            /\ call[s] # Idle /\ call'[s] # call[s] /\ call[s].answer = "refused"
            /\ call[s].op = "login" \/ call[s].token # stored]_vars

(* A page that shows the progress circle stops doing so by itself, however  *)
(* requests fail, are cancelled or overtaken.                               *)
SpinnerEnds == view.loading ~> ~view.loading

\* Somebody in front of the tab signs in or reloads the dashboard, if that is
\* possible again and again, and closes a dialog.
UserReturns ==
  /\ SF_vars(\E s \in Slot : Submit(s) \/ Refresh(s))
  /\ WF_vars(CloseEdit)

(* With such a user a tab whose token is lost gets a good one again, and    *)
(* keeps it, once nobody signs out and no token expires: its dashboard      *)
(* leads to the login page although React still believes to be signed in,   *)
(* and late 401s stop removing fresh tokens.                                *)
SessionRecovers ==
  UserReturns => (<>[](page \in {login, dashboard}) => <>[]Valid(stored))
=============================================================================
