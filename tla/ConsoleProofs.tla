--------------------------- MODULE ConsoleProofs ---------------------------
(***************************************************************************)
(* The console's tab for every set of devices and every number of          *)
(* requests, tokens, changes, faults and moves.                            *)
(***************************************************************************)
EXTENDS Console, Lemmas

\* Which code made a request, and for which device.
Proper(c) ==
    /\ c.page \in Protected
    /\ c.op = "list" => c.page = dashboard
    /\ c.op = "get" => c.page.at = "detail" /\ c.dev = c.page.dev
    /\ c.op \in Changes =>
         c.page.at \in {"dashboard", "detail"} /\ c.dev \in Device /\ ~c.first
    /\ c.op \in {"session", "allow"} =>
         c.page.at = "approval" /\ c.dev = c.page.dev /\ c.dev \in Device

\* Rows the tab has seen are rows; a dialog is open for a device.
IInv ==
    /\ TypeOK
    /\ \A s \in Slot : call[s] # Idle => Proper(call[s])

-----------------------------------------------------------------------------
(* The records.                                                            *)

LEMMA Constants ==
    /\ None \notin Device /\ Slot \subseteq Nat /\ Token \subseteq Nat /\ None \notin Token
    /\ MaxCall \in Nat /\ 1 \in Slot
    /\ NoRows \in [Device -> Status] /\ NoData \in Data
    /\ Idle \notin Call
<1>1. NoRows \in [Device -> Status] /\ NoData \in Data
  BY DEF NoRows, NoData, Data, Status
<1>2. Idle \notin Call
  BY DEF Idle, Call, Loads, Changes
<1>. QED  BY <1>1, <1>2, ConsoleAssumption DEF None, Slot, Token

LEMMA PageKinds ==
    /\ \A p \in Protected : \/ p = dashboard
                            \/ p.at = "detail" /\ p.dev \in Device
                            \/ p.at = "approval" /\ (p.dev \in Device \/ p = codeless)
    /\ dashboard \in Protected /\ codeless \in Protected
    /\ dashboard.at = "dashboard" /\ codeless.at = "approval" /\ login.at = "login"
    /\ blank.at = "blank" /\ codeless.dev = None /\ dashboard.dev = None
    /\ \A p \in Page : \/ p = login \/ p = blank \/ p \in Protected
    /\ \A p \in Protected : p # login /\ p # blank /\ p.dev \in Device \cup {None}
  BY DEF Protected, Page, dashboard, codeless, login, blank

\* A request of a page.
LEMMA RequestIs ==
    ASSUME NEW op \in Loads \cup Changes \cup {"session", "allow", "login"},
           NEW d \in Device \cup {None}, NEW p \in Page, NEW first \in BOOLEAN,
           NEW mounted \in BOOLEAN, stored' \in Token \cup {None}
    PROVE  LET c == Request(op, d, p, first, mounted) IN
           /\ c \in Call /\ c # Idle
           /\ c.op = op /\ c.dev = d /\ c.page = p /\ c.first = first
           /\ c.mounted = mounted /\ ~c.crossed /\ c.token = stored'
           /\ c.answer = "none"
<1>. DEFINE c == Request(op, d, p, first, mounted)
<1>1. c \in Call
  BY Constants DEF Request, Call
<1>2. /\ c.op = op /\ c.dev = d /\ c.page = p /\ c.first = first
      /\ c.mounted = mounted /\ c.token = stored' /\ c.answer = "none"
  BY DEF Request
<1>3. ~c.crossed
  BY DEF Request
<1>. QED  BY <1>1, <1>2, <1>3, Constants

LEMMA FreshIs ==
    ASSUME NEW p \in Page
    PROVE  /\ Fresh(p) \in View
           /\ ~Fresh(p).success /\ Fresh(p).data = NoData
           /\ ~Fresh(p).kept /\ ~Fresh(p).astray
           /\ p.at \in {"dashboard", "detail"} => Fresh(p).loading
<1>1. Fresh(p) \in View
  BY Constants DEF Fresh, View
<1>2. ~Fresh(p).success /\ Fresh(p).data = NoData /\ ~Fresh(p).kept /\ ~Fresh(p).astray
  BY DEF Fresh
<1>3. p.at \in {"dashboard", "detail"} => p \notin {login, codeless, blank}
  BY DEF login, codeless, blank
<1>4. p.at \in {"dashboard", "detail"} => Fresh(p).loading
  BY <1>3 DEF Fresh
<1>. QED  BY <1>1, <1>2, <1>4

LEMMA ReusedIs ==
    ASSUME view \in View, NEW p \in Page, NEW calls
    PROVE  /\ Reused(p, calls) \in View /\ Reused(p, calls).kept
           /\ Pending(calls) # {} => Reused(p, calls).astray
           /\ p.at = "detail" => Reused(p, calls).loading
<1>. DEFINE astray == view.astray \/ Pending(calls) # {}
<1>1. astray \in BOOLEAN /\ (Pending(calls) # {} => astray)
  BY DEF View
<1>2. Reused(p, calls) = [view EXCEPT !.kept = TRUE, !.astray = astray,
                                      !.loading = (p.at = "detail") \/ (p.dev # None /\ view.loading),
                                      !.error = view.error \/ p = codeless]
  BY DEF Reused
<1>. HIDE DEF astray
<1>. QED  BY <1>1, <1>2 DEF View

\* The same request with less to do.
Weaker(c, d) ==
    /\ c \in Call /\ c # Idle /\ d # Idle
    /\ c.op = d.op /\ c.dev = d.dev /\ c.page = d.page /\ c.token = d.token
    /\ c.first = d.first /\ c.answer = d.answer /\ c.data = d.data
    /\ (c.mounted => d.mounted)
    /\ (d.crossed => c.crossed)

LEMMA SameWeaker ==
    ASSUME NEW c \in Call
    PROVE  Weaker(c, c)
  BY Constants DEF Weaker

LEMMA WeakerProper ==
    ASSUME NEW c, NEW d, Weaker(c, d), Proper(d)
    PROVE  Proper(c)
  BY DEF Weaker, Proper

LEMMA CrossedAre ==
    ASSUME call \in [Slot -> Call \cup {Idle}]
    PROVE  /\ Crossed \in [Slot -> Call \cup {Idle}]
           /\ \A s \in Slot : /\ call[s] = Idle => Crossed[s] = Idle
                              /\ call[s] # Idle => /\ Weaker(Crossed[s], call[s])
                                                   /\ Crossed[s].crossed
<1>1. ASSUME NEW s \in Slot, call[s] # Idle
      PROVE  Weaker(Crossed[s], call[s]) /\ Crossed[s].crossed /\ Crossed[s] \in Call
  <2>1. Crossed[s] = [call[s] EXCEPT !.crossed = TRUE] /\ call[s] \in Call
    BY <1>1 DEF Crossed
  <2>2. [call[s] EXCEPT !.crossed = TRUE] \in Call
    BY <2>1 DEF Call
  <2>3. Crossed[s].crossed
    BY <2>1 DEF Call
  <2>4. Weaker(Crossed[s], call[s])
    BY <2>1, <2>2, <1>1, Constants DEF Weaker, Call
  <2>. QED  BY <2>1, <2>2, <2>3, <2>4
<1>2. \A s \in Slot : call[s] = Idle => Crossed[s] = Idle
  BY DEF Crossed
<1>3. Crossed \in [Slot -> Call \cup {Idle}]
  BY <1>1, <1>2 DEF Crossed
<1>. QED  BY <1>1, <1>2, <1>3

LEMMA LeftAre ==
    ASSUME NEW calls \in [Slot -> Call \cup {Idle}], NEW kept \in BOOLEAN
    PROVE  /\ Left(calls, kept) \in [Slot -> Call \cup {Idle}]
           /\ \A s \in Slot :
                /\ calls[s] = Idle => Left(calls, kept)[s] = Idle
                /\ calls[s] # Idle =>
                     /\ Weaker(Left(calls, kept)[s], calls[s])
                     /\ Left(calls, kept)[s].mounted => kept /\ ~calls[s].first
<1>1. ASSUME NEW s \in Slot, calls[s] # Idle
      PROVE  /\ Weaker(Left(calls, kept)[s], calls[s]) /\ Left(calls, kept)[s] \in Call
             /\ Left(calls, kept)[s].mounted => kept /\ ~calls[s].first
  <2>1. calls[s] \in Call
    BY <1>1
  <2>2. CASE kept /\ ~calls[s].first
    BY <1>1, <2>1, <2>2, SameWeaker DEF Left
  <2>3. CASE ~ (kept /\ ~calls[s].first)
    <3>1. Left(calls, kept)[s] = [calls[s] EXCEPT !.mounted = FALSE]
      BY <1>1, <2>3 DEF Left
    <3>2. [calls[s] EXCEPT !.mounted = FALSE] \in Call
      BY <2>1 DEF Call
    <3>3. Weaker(Left(calls, kept)[s], calls[s])
      BY <1>1, <2>1, <3>1, <3>2, Constants DEF Weaker, Call
    <3>4. ~Left(calls, kept)[s].mounted
      BY <2>1, <3>1 DEF Call
    <3>. QED  BY <2>3, <3>1, <3>2, <3>3, <3>4
  <2>. QED  BY <2>2, <2>3
<1>2. \A s \in Slot : calls[s] = Idle => Left(calls, kept)[s] = Idle
  BY DEF Left
<1>3. Left(calls, kept) \in [Slot -> Call \cup {Idle}]
  BY <1>1, <1>2 DEF Left
<1>. QED  BY <1>1, <1>2, <1>3

LEMMA DoneIs ==
    ASSUME call \in [Slot -> Call \cup {Idle}], NEW s \in Slot
    PROVE  /\ Done(s) \in [Slot -> Call \cup {Idle}] /\ Done(s)[s] = Idle
           /\ \A r \in Slot \ {s} : Done(s)[r] = call[r]
  BY DEF Done

-----------------------------------------------------------------------------
(* The router.                                                             *)

\* The request of the effect of the page that is shown from now on.
Opened(c) ==
    /\ c \in Call /\ c # Idle /\ Proper(c)
    /\ c.op \in Loads \cup {"session"} /\ c.page = page' /\ c.dev = page'.dev
    /\ c.first /\ c.mounted /\ c.answer = "none" /\ ~c.crossed /\ c.token = stored'

LEMMA OpeningIs ==
    ASSUME NEW q \in Protected, q # codeless, page' = q,
           stored' \in Token \cup {None}
    PROVE  Opened(Opening(q))
<1>. DEFINE op == CASE q.at = "dashboard" -> "list"
                    [] q.at = "detail" -> "get"
                    [] q.at = "approval" -> "session"
            c == Request(op, q.dev, q, TRUE, TRUE)
<1>1. \/ q = dashboard /\ op = "list"
      \/ q.at = "detail" /\ q.dev \in Device /\ op = "get"
      \/ q.at = "approval" /\ q.dev \in Device /\ op = "session"
  BY PageKinds
<1>2. op \in Loads \cup {"session"} /\ q \in Page /\ q.dev \in Device \cup {None}
  BY <1>1, PageKinds DEF Loads, Page
<1>. HIDE DEF op
<1>3. /\ c \in Call /\ c # Idle
      /\ c.op = op /\ c.dev = q.dev /\ c.page = q /\ c.first
      /\ c.mounted /\ ~c.crossed /\ c.token = stored' /\ c.answer = "none"
  <2>1. op \in Loads \cup Changes \cup {"session", "allow", "login"}
    BY <1>2
  <2>2. c \in Call
    BY <1>2, <2>1, Constants DEF Request, Call
  <2>3. c # Idle
    BY <2>2, Constants
  <2>4. c.op = op /\ c.dev = q.dev /\ c.page = q /\ c.token = stored' /\ c.answer = "none"
    BY DEF Request
  <2>5. c.first /\ c.mounted /\ ~c.crossed
    BY DEF Request
  <2>. QED  BY <2>2, <2>3, <2>4, <2>5
<1>4. Opening(q) = c
  BY DEF Opening, op
<1>. HIDE DEF c
<1>5. Proper(c)
  BY <1>1, <1>3 DEF Proper, Changes
<1>. QED  BY <1>2, <1>3, <1>4, <1>5 DEF Opened

\* The router keeps the component it shows.
Kept == page' # login /\ page'.at = page.at

\* Another page is shown: what is under way loses its page, or its component
\* has another device now.
Moved(calls, s) ==
    /\ page # blank /\ page' \in Protected \cup {login}
    /\ Kept => page' # page
    /\ view' = IF Kept THEN Reused(page', calls) ELSE Fresh(page')
    /\ \A r \in Slot :
         \/ call'[r] = Idle
         \/ r = s /\ Opened(call'[r])
         \/ /\ calls[r] # Idle /\ Weaker(call'[r], calls[r])
            /\ call'[r].mounted => Kept /\ ~call'[r].first

LEMMA GoToIs ==
    ASSUME TypeOK, NEW calls \in [Slot -> Call \cup {Idle}],
           \A r \in Slot : calls[r] # Idle => Proper(calls[r]),
           NEW p \in Protected \cup {login}, NEW s \in Slot,
           stored' \in Token \cup {None}, GoTo(p, calls, s)
    PROVE  /\ page' \in Page /\ from' \in Protected /\ view' \in View
           /\ call' \in [Slot -> Call \cup {Idle}]
           /\ \A r \in Slot : call'[r] # Idle => Proper(call'[r])
           /\ \/ page' = page /\ view' = view /\ call' = calls
              \/ Moved(calls, s)
<1>. DEFINE q == Target(p)
            kept == q # login /\ q.at = page.at
<1>0. page \in Page /\ view \in View /\ from \in Protected
  BY DEF TypeOK
<1>1. q = login \/ (q = p /\ q \in Protected)
  BY DEF Target
<1>2. /\ q \in Page /\ q # blank /\ (q \in Protected \/ q = login)
      /\ kept \in BOOLEAN
  BY <1>1, PageKinds DEF Page
<1>. HIDE DEF q
<1>3. CASE page = blank
  BY <1>0, <1>3 DEF GoTo
<1>4. CASE page # blank
  <2>1. /\ page' = q /\ from' = IF q = login /\ p # login THEN p ELSE dashboard
        /\ p = page /\ q = page => view' = view /\ call' = calls
        /\ ~(p = page /\ q = page) =>
             /\ view' = IF kept THEN Reused(q, calls) ELSE Fresh(q)
             /\ call' = IF q \in {login, codeless} THEN Left(calls, kept)
                        ELSE [Left(calls, kept) EXCEPT ![s] = Opening(q)]
    BY <1>4 DEF GoTo, q
  <2>2. from' \in Protected
    BY <2>1, PageKinds
  <2>3. CASE p = page /\ q = page
    BY <1>0, <2>1, <2>2, <2>3
  <2>4. CASE ~(p = page /\ q = page)
    <3>0. (Kept <=> kept) /\ (kept => q # page)
      BY <1>1, <2>1, <2>4 DEF Kept
    <3>1. view' \in View /\ view' = IF Kept THEN Reused(page', calls) ELSE Fresh(page')
      BY <1>0, <1>2, <2>1, <2>4, <3>0, FreshIs, ReusedIs
    <3>. HIDE DEF kept
    <3>2. /\ Left(calls, kept) \in [Slot -> Call \cup {Idle}]
          /\ \A r \in Slot :
                /\ calls[r] = Idle => Left(calls, kept)[r] = Idle
                /\ calls[r] # Idle =>
                     /\ Weaker(Left(calls, kept)[r], calls[r])
                     /\ Left(calls, kept)[r].mounted => kept /\ ~calls[r].first
      BY <1>2, LeftAre
    <3>3. \A r \in Slot : calls[r] # Idle =>
             /\ Proper(Left(calls, kept)[r])
             /\ Left(calls, kept)[r].first = calls[r].first
      BY <3>2, WeakerProper DEF Weaker
    <3>4. CASE q \in {login, codeless}
      <4>1. call' = Left(calls, kept)
        BY <2>1, <2>4, <3>4
      <4>2. Moved(calls, s)
        BY <1>2, <1>4, <2>1, <3>0, <3>1, <3>2, <3>3, <4>1 DEF Moved
      <4>. QED  BY <1>2, <2>1, <2>2, <3>1, <3>2, <3>3, <4>1, <4>2
    <3>5. CASE q \notin {login, codeless}
      <4>1. call' = [Left(calls, kept) EXCEPT ![s] = Opening(q)]
        BY <2>1, <2>4, <3>5
      <4>2. Opened(Opening(q))
        BY <1>2, <2>1, <3>5, OpeningIs
      <4>3. Opening(q) \in Call /\ Proper(Opening(q))
        BY <4>2 DEF Opened
      <4>4. /\ call' \in [Slot -> Call \cup {Idle}] /\ call'[s] = Opening(q)
            /\ \A r \in Slot \ {s} : call'[r] = Left(calls, kept)[r]
        BY <3>2, <4>1, <4>3
      <4>5. Moved(calls, s)
        BY <1>2, <1>4, <2>1, <3>0, <3>1, <3>2, <3>3, <4>2, <4>4 DEF Moved
      <4>. QED  BY <1>2, <2>1, <2>2, <3>1, <3>2, <3>3, <4>3, <4>4, <4>5
    <3>. QED  BY <3>4, <3>5
  <2>. QED  BY <2>3, <2>4
<1>. QED  BY <1>3, <1>4

-----------------------------------------------------------------------------
(* Requests and answers.                                                   *)

\* A new request of the page that is shown.
Sent(s, op, d, p) ==
    /\ call[s] = Idle
    /\ call'[s] \in Call /\ call'[s] # Idle
    /\ call'[s].op = op /\ call'[s].dev = d /\ call'[s].page = p /\ call'[s].token = stored'
    /\ ~call'[s].first /\ call'[s].mounted /\ call'[s].answer = "none"
    /\ \A r \in Slot \ {s} : call'[r] = call[r]

LEMMA SendsIs ==
    ASSUME call \in [Slot -> Call \cup {Idle}], NEW s \in Slot,
           NEW op \in Loads \cup Changes \cup {"allow", "login"}, NEW d \in Device \cup {None},
           NEW p \in Protected, stored' \in Token \cup {None}, Sends(s, op, d, p)
    PROVE  call' \in [Slot -> Call \cup {Idle}] /\ Sent(s, op, d, p)
<1>. DEFINE c == Request(op, d, p, FALSE, TRUE)
<1>1. op \in Loads \cup Changes \cup {"session", "allow", "login"} /\ p \in Page
  BY PageKinds DEF Page
<1>2. c \in Call
  BY <1>1 DEF Request, Call, NoData, Data, NoRows, Status
<1>3. c.op = op /\ c.dev = d /\ c.page = p /\ c.token = stored' /\ c.answer = "none"
  BY DEF Request
<1>4. ~c.first /\ c.mounted
  BY DEF Request
<1>5. call[s] = Idle /\ call' = [call EXCEPT ![s] = c]
  BY DEF Sends, Free
<1>. HIDE DEF c
<1>6. /\ call' \in [Slot -> Call \cup {Idle}] /\ call'[s] = c
      /\ \A r \in Slot \ {s} : call'[r] = call[r]
  BY <1>2, <1>5
<1>. QED  BY <1>2, <1>3, <1>4, <1>5, <1>6, Constants DEF Sent

\* What is sent is proper.
LEMMA SentProper ==
    ASSUME IInv, NEW s \in Slot, NEW op, NEW d, NEW p, Sent(s, op, d, p),
           p \in Protected, op # "session",
           op = "list" => p = dashboard,
           op = "get" => p.at = "detail" /\ d = p.dev,
           op \in Changes => p.at \in {"dashboard", "detail"} /\ d \in Device,
           op = "allow" => p.at = "approval" /\ d = p.dev /\ d \in Device
    PROVE  \A r \in Slot : call'[r] # Idle => Proper(call'[r])
<1>1. Proper(call'[s])
  BY DEF Sent, Proper
<1>2. ASSUME NEW r \in Slot \ {s}, call'[r] # Idle
      PROVE  Proper(call'[r])
  <2>1. call'[r] = call[r]
    BY <1>2 DEF Sent
  <2>. QED  BY <1>2, <2>1 DEF IInv
<1>. QED  BY <1>1, <1>2

Answered(s, answer, data, token) ==
    /\ call' \in [Slot -> Call \cup {Idle}]
    /\ call'[s] \in Call /\ call'[s] # Idle
    /\ call'[s].op = call[s].op /\ call'[s].dev = call[s].dev /\ call'[s].page = call[s].page
    /\ call'[s].first = call[s].first /\ call'[s].mounted = call[s].mounted
    /\ call'[s].crossed = call[s].crossed
    /\ call'[s].answer = answer /\ call'[s].data = data /\ call'[s].token = token
    /\ \A r \in Slot \ {s} : call'[r] = call[r]

LEMMA AnswersIs ==
    ASSUME IInv, NEW s \in Slot, call[s] # Idle,
           NEW answer \in {"none", "ok", "refused", "error"}, NEW data \in Data,
           NEW token \in Token \cup {None}, Answers(s, answer, data, token)
    PROVE  /\ Answered(s, answer, data, token)
           /\ \A r \in Slot : call'[r] # Idle => Proper(call'[r])
<1>. DEFINE c == call[s]
            w == [c EXCEPT !.answer = answer, !.data = data, !.token = token]
<1>1. c \in Call /\ call \in [Slot -> Call \cup {Idle}] /\ Proper(c)
  BY DEF IInv, TypeOK
<1>. HIDE DEF c
<1>2. w \in Call
  BY <1>1 DEF Call
<1>3. /\ w.op = c.op /\ w.dev = c.dev /\ w.page = c.page
      /\ w.first = c.first /\ w.mounted = c.mounted /\ w.crossed = c.crossed
      /\ w.answer = answer /\ w.data = data /\ w.token = token
  BY <1>1 DEF Call
<1>4. call' = [call EXCEPT ![s] = w]
  BY DEF Answers, c
<1>. HIDE DEF w
<1>5. /\ call' \in [Slot -> Call \cup {Idle}] /\ call'[s] = w
      /\ \A r \in Slot \ {s} : call'[r] = call[r]
  BY <1>1, <1>2, <1>4
<1>6. Answered(s, answer, data, token)
  BY <1>2, <1>3, <1>5, Constants DEF Answered, c
<1>7. Proper(w)
  BY <1>1, <1>3 DEF Proper
<1>. QED  BY <1>5, <1>6, <1>7 DEF IInv

\* Some token is free, or the step is not taken.
LEMMA FreshTokenIs ==
    ASSUME FreeTokens # {}
    PROVE  FreshToken \in Token /\ FreshToken \notin Held
<1>1. FreeTokens \in SUBSET Nat
  BY Constants DEF FreeTokens
<1>2. \E n \in FreeTokens : \A m \in FreeTokens : n <= m
  BY <1>1, LeastNatural
<1>. QED  BY <1>2 DEF FreshToken, Lowest, FreeTokens

LEMMA SpendIs ==
    ASSUME TypeOK, NEW what \in {"writes", "faults", "moves", "ends"}, Spend(what)
    PROVE  left' \in [writes : Nat, faults : Nat, moves : Nat, ends : Nat]
<1>1. CASE what = "writes"
  BY <1>1 DEF TypeOK, Spend
<1>2. CASE what = "faults"
  BY <1>2 DEF TypeOK, Spend
<1>3. CASE what = "moves"
  BY <1>3 DEF TypeOK, Spend
<1>4. CASE what = "ends"
  BY <1>4 DEF TypeOK, Spend
<1>. QED  BY <1>1, <1>2, <1>3, <1>4

-----------------------------------------------------------------------------
(* What each action leaves behind.                                         *)

\* Two views that may differ in their dialog, their progress circle, their
\* error message and nothing else.
Alike(v, w) ==
    /\ v.data = w.data /\ v.success = w.success
    /\ v.kept = w.kept /\ v.astray = w.astray /\ v.crossed = w.crossed

\* The user has the page send something.
UserSends(s, op, d) ==
    /\ op # "session"
    /\ Sent(s, op, d, IF op = "login" THEN from ELSE page)
    /\ \/ op = "login" /\ page = login
       \/ /\ op # "login" /\ page \in Protected
          /\ (view.loading => view'.loading) /\ view'.error = view.error
    /\ page' = page /\ Alike(view', view)
    /\ UNCHANGED <<server, stored, dead, acked>>

LEMMA SubmitStep ==
    ASSUME IInv, NEW s \in Slot, Submit(s)
    PROVE  IInv' /\ UserSends(s, "login", None)
<1>1. /\ page = login /\ view' = [view EXCEPT !.loading = TRUE, !.error = FALSE]
      /\ UNCHANGED <<server, stored, dead, signedIn, page, from, left, acked>>
      /\ Sends(s, "login", None, from)
  BY DEF Submit
<1>2. TypeOK
  BY DEF IInv
<1>3. call' \in [Slot -> Call \cup {Idle}] /\ Sent(s, "login", None, from)
  BY <1>1, <1>2, SendsIs DEF TypeOK
<1>4. \A r \in Slot : call'[r] # Idle => Proper(call'[r])
  BY <1>2, <1>3, SentProper DEF TypeOK, Changes
<1>5. view' \in View /\ Alike(view', view)
  BY <1>1, <1>2 DEF TypeOK, View, Alike
<1>6. TypeOK'
  BY <1>1, <1>2, <1>3, <1>5 DEF TypeOK, server
<1>. QED  BY <1>1, <1>3, <1>4, <1>5, <1>6 DEF IInv, UserSends

LEMMA RefreshStep ==
    ASSUME IInv, NEW s \in Slot, Refresh(s)
    PROVE  IInv' /\ UserSends(s, "list", None)
<1>1. /\ page = dashboard /\ view' = [view EXCEPT !.loading = TRUE]
      /\ UNCHANGED <<server, stored, dead, signedIn, page, from, left, acked>>
      /\ Sends(s, "list", None, page)
  BY DEF Refresh, OnDashboard
<1>2. TypeOK /\ page \in Protected
  BY <1>1, PageKinds DEF IInv
<1>3. call' \in [Slot -> Call \cup {Idle}] /\ Sent(s, "list", None, page)
  BY <1>1, <1>2, SendsIs DEF TypeOK, Loads
<1>4. \A r \in Slot : call'[r] # Idle => Proper(call'[r])
  BY <1>1, <1>2, <1>3, SentProper DEF Changes
<1>5. view' \in View /\ Alike(view', view) /\ view'.loading /\ view'.error = view.error
  BY <1>1, <1>2 DEF TypeOK, View, Alike
<1>6. TypeOK'
  BY <1>1, <1>2, <1>3, <1>5 DEF TypeOK, server
<1>. QED  BY <1>1, <1>2, <1>3, <1>4, <1>5, <1>6 DEF IInv, UserSends

\* Click, Save, ClickDetail and Allow.
LEMMA ButtonSends ==
    ASSUME IInv, NEW s \in Slot, NEW op \in Changes \cup {"allow"}, NEW d \in Device,
           page \in Protected, Sends(s, op, d, page), Spend("writes") \/ left' = left,
           UNCHANGED <<server, stored, dead, tab, acked>>,
           op \in Changes => page.at \in {"dashboard", "detail"},
           op = "allow" => page.at = "approval" /\ d = page.dev
    PROVE  IInv' /\ UserSends(s, op, d)
<1>2. TypeOK /\ op \notin {"login", "session", "list", "get"}
  BY DEF IInv, Changes
<1>3. call' \in [Slot -> Call \cup {Idle}] /\ Sent(s, op, d, page)
  BY <1>2, SendsIs DEF TypeOK
<1>4. \A r \in Slot : call'[r] # Idle => Proper(call'[r])
  BY <1>2, <1>3, SentProper
<1>5. left' \in [writes : Nat, faults : Nat, moves : Nat, ends : Nat]
  BY <1>2, SpendIs DEF TypeOK
<1>6. TypeOK'
  BY <1>2, <1>3, <1>5 DEF TypeOK, server, tab
<1>. QED  BY <1>2, <1>3, <1>4, <1>6 DEF IInv, UserSends, tab, Alike

LEMMA ButtonStep ==
    ASSUME IInv, NEW s \in Slot,
           \/ \E d \in Device, op \in Changes : Click(s, d, op)
           \/ Save(s) \/ Allow(s)
           \/ \E op \in Changes : ClickDetail(s, op)
    PROVE  IInv' /\ \E op, d : UserSends(s, op, d)
<1>0. TypeOK /\ page \in Page /\ view.dialog \in Device \cup {None}
  BY DEF IInv, TypeOK, View
<1>1. ASSUME NEW d \in Device, NEW op \in Changes, Click(s, d, op)
      PROVE  IInv' /\ UserSends(s, op, d)
  BY <1>1, PageKinds, ButtonSends DEF Click, OnDashboard, Changes
<1>2. CASE Save(s)
  <2>1. /\ view.dialog \in Device /\ page \in Protected /\ page.at = "dashboard"
        /\ Sends(s, "save", view.dialog, page) /\ Spend("writes")
        /\ UNCHANGED <<server, stored, dead, tab, acked>> /\ "save" \in Changes
    BY <1>0, <1>2, PageKinds DEF Save, Changes
  <2>2. IInv' /\ UserSends(s, "save", view.dialog)
    BY <2>1, ButtonSends
  <2>. QED  BY <2>2
<1>3. CASE Allow(s)
  <2>1. /\ page.dev \in Device /\ page \in Protected /\ page.at = "approval"
        /\ Sends(s, "allow", page.dev, page) /\ left' = left
        /\ UNCHANGED <<server, stored, dead, tab, acked>>
    BY <1>0, <1>3, PageKinds DEF Allow
  <2>2. IInv' /\ UserSends(s, "allow", page.dev)
    BY <2>1, ButtonSends DEF Changes
  <2>. QED  BY <2>2
<1>4. ASSUME NEW op \in Changes, ClickDetail(s, op)
      PROVE  IInv' /\ UserSends(s, op, page.dev)
  <2>1. /\ page.dev \in Device /\ page \in Protected /\ page.at = "detail"
        /\ Sends(s, op, page.dev, page) /\ Spend("writes") /\ op # "allow"
        /\ UNCHANGED <<server, stored, dead, tab, acked>>
    BY <1>0, <1>4, PageKinds DEF ClickDetail
  <2>. QED  BY <2>1, ButtonSends
<1>. QED  BY <1>1, <1>2, <1>3, <1>4

\* A page is left, or the router stays where it is.
Goes(calls, s) ==
    \/ page' = page /\ view' = view /\ call' = calls
    \/ Moved(calls, s)

LEMMA NavigateStep ==
    ASSUME IInv, NEW s \in Slot, NEW p \in Page \ {blank}, Navigate(s, p)
    PROVE  /\ IInv' /\ Goes(call, s) /\ call[s] = Idle
           /\ UNCHANGED <<server, stored, dead, acked>>
<1>1. /\ Free(s) /\ Spend("moves") /\ GoTo(p, call, s)
      /\ UNCHANGED <<server, stored, dead, signedIn, acked>>
  BY DEF Navigate
<1>2. /\ TypeOK /\ p \in Protected \cup {login} /\ call[s] = Idle
      /\ call \in [Slot -> Call \cup {Idle}] /\ stored' \in Token \cup {None}
  BY <1>1, PageKinds DEF IInv, Free, TypeOK
<1>4. /\ page' \in Page /\ from' \in Protected /\ view' \in View
      /\ call' \in [Slot -> Call \cup {Idle}]
      /\ \A r \in Slot : call'[r] # Idle => Proper(call'[r])
      /\ Goes(call, s)
  BY <1>1, <1>2, GoToIs DEF Goes, IInv
<1>5. left' \in [writes : Nat, faults : Nat, moves : Nat, ends : Nat]
  BY <1>1, <1>2, SpendIs
<1>6. TypeOK'
  BY <1>1, <1>2, <1>4, <1>5 DEF TypeOK, server
<1>. QED  BY <1>1, <1>2, <1>4, <1>6 DEF IInv

LEMMA LogoutStep ==
    ASSUME IInv, Logout
    PROVE  /\ IInv' /\ Goes(call, 1) /\ left'.moves # left.moves
           /\ page' \notin Protected
           /\ UNCHANGED <<server, dead, acked>>
<1>1. /\ Spend("moves") /\ GoTo(login, call, 1)
      /\ UNCHANGED <<server, dead, acked>> /\ stored' = None /\ signedIn' = FALSE
      /\ page = dashboard
  BY DEF Logout, OnDashboard
<1>2. TypeOK /\ 1 \in Slot /\ call \in [Slot -> Call \cup {Idle}]
  BY Constants DEF IInv, TypeOK
<1>4. /\ page' \in Page /\ from' \in Protected /\ view' \in View
      /\ call' \in [Slot -> Call \cup {Idle}]
      /\ \A r \in Slot : call'[r] # Idle => Proper(call'[r])
      /\ Goes(call, 1)
  BY <1>1, <1>2, GoToIs DEF TypeOK, Goes, IInv
<1>5. /\ left' \in [writes : Nat, faults : Nat, moves : Nat, ends : Nat]
      /\ left'.moves # left.moves
  <2>1. left'.moves = left.moves - 1
    BY <1>1, <1>2 DEF Spend, TypeOK
  <2>. QED  BY <1>1, <1>2, <2>1, SpendIs DEF TypeOK
<1>6. TypeOK'
  BY <1>1, <1>2, <1>4, <1>5 DEF TypeOK, server
<1>7. page' = login
  BY <1>1, PageKinds DEF GoTo, Target
<1>. QED  BY <1>1, <1>2, <1>4, <1>5, <1>6, <1>7, PageKinds DEF IInv

\* The page is loaded anew: nothing is under way but what it asks for.
Restarts ==
    /\ page' \in Protected \cup {login} /\ view' = Fresh(page')
    /\ \A r \in Slot : call'[r] = Idle \/ (r = 1 /\ Opened(call'[r]))

LEMMA ReloadStep ==
    ASSUME IInv, NEW p \in Page \ {blank}, Reload(p)
    PROVE  /\ IInv' /\ Restarts /\ UNCHANGED <<server, stored, dead, acked>>
<1>. DEFINE q == Target(p)
            none == [r \in Slot |-> Idle]
<1>1. /\ Spend("moves") /\ UNCHANGED <<server, stored, dead, acked>>
      /\ signedIn' = (stored # None) /\ page' = q /\ view' = Fresh(q)
      /\ from' = IF q = login /\ p # login THEN p ELSE dashboard
      /\ call' = IF q \in {login, codeless} THEN none ELSE [none EXCEPT ![1] = Opening(q)]
  BY DEF Reload
<1>2. TypeOK /\ p \in Protected \cup {login} /\ 1 \in Slot
  BY PageKinds, Constants DEF IInv
<1>3. q \in Page /\ q \in Protected \cup {login} /\ (q = login \/ q = p)
  BY <1>2 DEF Target, Page
<1>. HIDE DEF q
<1>4. from' \in Protected /\ view' \in View
  BY <1>1, <1>2, <1>3, PageKinds, FreshIs
<1>5. q \notin {login, codeless} => Opened(Opening(q))
  BY <1>1, <1>2, <1>3, OpeningIs DEF TypeOK
<1>6. /\ call' \in [Slot -> Call \cup {Idle}]
      /\ \A r \in Slot : call'[r] = Idle \/ (r = 1 /\ Opened(call'[r]))
  <2>1. none \in [Slot -> Call \cup {Idle}]
    OBVIOUS
  <2>. QED  BY <1>1, <1>2, <1>5, <2>1 DEF Opened
<1>7. \A r \in Slot : call'[r] # Idle => Proper(call'[r])
  BY <1>6 DEF Opened
<1>8. left' \in [writes : Nat, faults : Nat, moves : Nat, ends : Nat]
  BY <1>1, <1>2, SpendIs
<1>9. TypeOK'
  <2>1. signedIn' \in BOOLEAN
    BY <1>1
  <2>. QED  BY <1>1, <1>2, <1>3, <1>4, <1>6, <1>8, <2>1 DEF TypeOK, server
<1>. QED  BY <1>1, <1>3, <1>6, <1>7, <1>9 DEF IInv, Restarts

LEMMA DialogStep ==
    ASSUME IInv, CloseEdit \/ \E d \in Device : OpenEdit(d)
    PROVE  /\ IInv' /\ \E d : view' = [view EXCEPT !.dialog = d]
           /\ UNCHANGED <<server, stored, dead, page, call, acked>>
<1>1. PICK d \in Device \cup {None} : view' = [view EXCEPT !.dialog = d]
  BY DEF CloseEdit, OpenEdit
<1>2. UNCHANGED <<server, stored, dead, signedIn, page, from, call, left, acked>>
  BY DEF CloseEdit, OpenEdit
<1>3. view' \in View
  BY <1>1 DEF IInv, TypeOK, View
<1>4. TypeOK'
  BY <1>2, <1>3 DEF IInv, TypeOK, server
<1>. QED  BY <1>1, <1>2, <1>4 DEF IInv

\* The server answers, or the request fails.
Replied(s, answer, data, token) ==
    LET op == call[s].op IN
    /\ call[s] # Idle /\ Answered(s, answer, data, token)
    /\ \/ dead' = dead /\ token = call[s].token
       \/ op = "login" /\ token \notin Held /\ dead' = dead \ {token}
    /\ op = "login" /\ answer = "ok" => token \in Token
    /\ answer = "refused" => op = "login" \/ (~Valid(token) /\ dead' = dead)
    /\ op \in {"get", "session"} /\ answer = "ok" =>
         \A d \in Device : data.rows[d] # "absent" => d = call[s].dev
    /\ op = "allow" /\ answer = "ok" => asked'[call[s].dev] = "approved"
    /\ \A d \in Device : asked[d] = "approved" => asked'[d] = "approved"
    /\ version' \in {version, version + 1}
    /\ op \in Loads /\ answer = "ok" => data.at = version
    /\ op \in Changes /\ answer = "ok" => data.at = version'
    /\ UNCHANGED <<stored, tab, acked>>

LEMMA ServeStep ==
    ASSUME IInv, NEW s \in Slot, Serve(s) \/ RejectLogin(s) \/ Fail(s)
    PROVE  IInv' /\ \E answer, data, token : Replied(s, answer, data, token)
<1>. DEFINE c == call[s]
            op == call[s].op
            d == call[s].dev
<1>0. /\ TypeOK /\ c # Idle /\ c \in Call /\ Proper(c)
      /\ op \in Loads \cup Changes \cup {"session", "allow", "login"}
      /\ c.token \in Token \cup {None} /\ NoData \in Data /\ NoRows \in [Device -> Status]
  <2>1. c # Idle
    BY DEF Serve, Refuse, ServeLogin, ServeRead, ServeChange, ServeAllow, Arrived, RejectLogin, Fail
  <2>. QED  BY <2>1, Constants DEF IInv, TypeOK, Call
<1>1. ASSUME NEW answer \in {"none", "ok", "refused", "error"}, NEW data \in Data,
             NEW token \in Token \cup {None}, Answers(s, answer, data, token)
      PROVE  /\ Answered(s, answer, data, token) /\ call' \in [Slot -> Call \cup {Idle}]
             /\ \A r \in Slot : call'[r] # Idle => Proper(call'[r])
  <2>1. Answered(s, answer, data, token) /\ \A r \in Slot : call'[r] # Idle => Proper(call'[r])
    BY <1>0, <1>1, AnswersIs
  <2>. QED  BY <2>1 DEF Answered
<1>. HIDE DEF c
<1>2. CASE Refuse(s)
  <2>1. /\ op # "login" /\ ~Valid(c.token) /\ Answers(s, "refused", NoData, c.token)
        /\ UNCHANGED <<server, stored, dead, tab, left, acked>>
    BY <1>2 DEF Refuse, c
  <2>2. TypeOK' /\ IInv'
    BY <1>0, <1>1, <2>1 DEF TypeOK, IInv, server, tab
  <2>3. Replied(s, "refused", NoData, c.token)
    BY <1>0, <1>1, <2>1 DEF Replied, server, c, TypeOK
  <2>. QED  BY <2>2, <2>3
<1>3. CASE ServeLogin(s)
  <2>1. /\ op = "login" /\ FreeTokens # {} /\ Answers(s, "ok", NoData, FreshToken)
        /\ dead' = dead \ {FreshToken}
        /\ UNCHANGED <<server, stored, tab, left, acked>>
    BY <1>3 DEF ServeLogin, Arrived
  <2>2. FreshToken \in Token /\ FreshToken \notin Held
    BY <2>1, FreshTokenIs
  <2>3. TypeOK' /\ IInv'
    BY <1>0, <1>1, <2>1, <2>2 DEF TypeOK, IInv, server, tab
  <2>4. Replied(s, "ok", NoData, FreshToken)
    BY <1>0, <1>1, <2>1, <2>2 DEF Replied, server, c, TypeOK, Loads, Changes
  <2>. QED  BY <2>3, <2>4
<1>4. CASE RejectLogin(s)
  <2>1. /\ op = "login" /\ Answers(s, "refused", NoData, c.token) /\ Spend("faults")
        /\ UNCHANGED <<server, stored, dead, tab, acked>>
    BY <1>4 DEF RejectLogin, Arrived, c
  <2>2. left' \in [writes : Nat, faults : Nat, moves : Nat, ends : Nat]
    BY <1>0, <2>1, SpendIs
  <2>3. TypeOK' /\ IInv'
    BY <1>0, <1>1, <2>1, <2>2 DEF TypeOK, IInv, server, tab
  <2>4. Replied(s, "refused", NoData, c.token)
    BY <1>0, <1>1, <2>1 DEF Replied, server, c, TypeOK
  <2>. QED  BY <2>3, <2>4
<1>5. CASE Fail(s)
  <2>1. /\ Answers(s, "error", NoData, c.token) /\ Spend("faults")
        /\ UNCHANGED <<server, stored, dead, tab, acked>>
    BY <1>5 DEF Fail, c
  <2>2. left' \in [writes : Nat, faults : Nat, moves : Nat, ends : Nat]
    BY <1>0, <2>1, SpendIs
  <2>3. TypeOK' /\ IInv'
    BY <1>0, <1>1, <2>1, <2>2 DEF TypeOK, IInv, server, tab
  <2>4. Replied(s, "error", NoData, c.token)
    BY <1>0, <1>1, <2>1 DEF Replied, server, c, TypeOK
  <2>. QED  BY <2>3, <2>4
<1>6. CASE ServeRead(s)
  <2>. DEFINE rows == IF op = "list" THEN row ELSE [NoRows EXCEPT ![d] = row[d]]
              status == IF op = "session" THEN asked[d] ELSE "none"
              data == [rows |-> rows, asked |-> status, at |-> version]
  <2>1. /\ op \in Loads \cup {"session"}
        /\ \/ Answers(s, "error", NoData, c.token)
           \/ Answers(s, "ok", data, c.token)
        /\ UNCHANGED <<server, stored, dead, tab, left, acked>>
    BY <1>6 DEF ServeRead, Arrived, c
  <2>2. op # "list" => d \in Device
    BY <1>0, <2>1, PageKinds DEF Proper, Loads, c
  <2>3. rows \in [Device -> Status] /\ status \in {"none", "pending", "approved"}
    BY <1>0, <2>2 DEF TypeOK
  <2>4. op # "list" => \A e \in Device : rows[e] # "absent" => e = d
    BY <1>0, <2>2 DEF NoRows
  <2>. HIDE DEF rows, status
  <2>5. data \in Data /\ data.rows = rows /\ data.at = version
    BY <1>0, <2>3 DEF Data, TypeOK
  <2>. HIDE DEF data
  <2>6. TypeOK' /\ IInv'
    <3>1. call' \in [Slot -> Call \cup {Idle}] /\ \A r \in Slot : call'[r] # Idle => Proper(call'[r])
      BY <1>0, <1>1, <2>1, <2>5
    <3>. QED  BY <1>0, <2>1, <3>1 DEF TypeOK, IInv, server, tab
  <2>7. CASE Answers(s, "error", NoData, c.token)
    <3>1. Answered(s, "error", NoData, c.token)
      BY <1>0, <1>1, <2>7
    <3>2. Replied(s, "error", NoData, c.token)
      BY <1>0, <2>1, <3>1 DEF Replied, server, c, TypeOK
    <3>. QED  BY <2>6, <3>2
  <2>8. CASE Answers(s, "ok", data, c.token)
    <3>1. Answered(s, "ok", data, c.token)
      BY <1>0, <1>1, <2>5, <2>8
    <3>2. Replied(s, "ok", data, c.token)
      BY <1>0, <2>1, <2>4, <2>5, <3>1 DEF Replied, server, c, TypeOK, Loads, Changes
    <3>. QED  BY <2>6, <3>2
  <2>. QED  BY <2>1, <2>7, <2>8
<1>7. CASE ServeChange(s)
  <2>. DEFINE data == [NoData EXCEPT !.at = version']
  <2>1. /\ op \in Changes /\ UNCHANGED <<asked, stored, dead, tab, left, acked>>
        /\ \/ Answers(s, "error", NoData, c.token) /\ UNCHANGED <<row, version>>
           \/ /\ row' = [row EXCEPT ![d] = Changed(op, row[d])] /\ version' = version + 1
              /\ Answers(s, "ok", data, c.token)
    BY <1>7 DEF ServeChange, Arrived, c
  <2>2. d \in Device
    BY <1>0, <2>1 DEF Proper, c
  <2>3. Changed(op, row[d]) \in Status
    BY <1>0, <2>1, <2>2 DEF Changed, Changes, Status, TypeOK
  <2>4. row' \in [Device -> Status] /\ version' \in {version, version + 1} /\ version' \in Nat
    BY <1>0, <2>1, <2>3 DEF TypeOK
  <2>5. data \in Data /\ data.at = version'
    BY <1>0, <2>4 DEF Data, NoData
  <2>. HIDE DEF data
  <2>6. TypeOK' /\ IInv'
    <3>1. call' \in [Slot -> Call \cup {Idle}] /\ \A r \in Slot : call'[r] # Idle => Proper(call'[r])
      BY <1>0, <1>1, <2>1, <2>5
    <3>. QED  BY <1>0, <2>1, <2>4, <3>1 DEF TypeOK, IInv, tab
  <2>7. CASE Answers(s, "error", NoData, c.token)
    <3>1. Answered(s, "error", NoData, c.token)
      BY <1>0, <1>1, <2>7
    <3>2. Replied(s, "error", NoData, c.token)
      BY <1>0, <2>1, <2>4, <3>1 DEF Replied, c, TypeOK
    <3>. QED  BY <2>6, <3>2
  <2>8. CASE Answers(s, "ok", data, c.token)
    <3>1. Answered(s, "ok", data, c.token)
      BY <1>0, <1>1, <2>5, <2>8
    <3>2. Replied(s, "ok", data, c.token)
      BY <1>0, <2>1, <2>4, <2>5, <3>1 DEF Replied, c, TypeOK, Loads, Changes
    <3>. QED  BY <2>6, <3>2
  <2>. QED  BY <2>1, <2>7, <2>8
<1>8. CASE ServeAllow(s)
  <2>1. /\ op = "allow" /\ Answers(s, "ok", NoData, c.token)
        /\ asked' = [asked EXCEPT ![d] = "approved"]
        /\ UNCHANGED <<row, version, stored, dead, tab, left, acked>>
    BY <1>8 DEF ServeAllow, Arrived, c
  <2>2. d \in Device
    BY <1>0, <2>1 DEF Proper, c
  <2>3. TypeOK' /\ IInv'
    BY <1>0, <1>1, <2>1, <2>2 DEF TypeOK, IInv, tab
  <2>4. Replied(s, "ok", NoData, c.token)
    BY <1>0, <1>1, <2>1, <2>2 DEF Replied, c, TypeOK, Loads, Changes
  <2>. QED  BY <2>3, <2>4
<1>. QED  BY <1>2, <1>3, <1>4, <1>5, <1>6, <1>7, <1>8 DEF Serve

\* Everybody else.
LEMMA OthersStep ==
    ASSUME IInv, \/ \E d \in Device, status \in Status : OtherWrite(d, status)
                 \/ OtherTab \/ \E t \in Token : Expire(t)
    PROVE  /\ IInv' /\ UNCHANGED <<asked, tab, call, acked>>
           /\ version' \in {version, version + 1}
           /\ stored' = stored \/ left'.ends # left.ends
           /\ \A t \in Held : t \in dead => t \in dead'
<1>0. TypeOK
  BY DEF IInv
<1>1. ASSUME NEW d \in Device, NEW status \in Status, OtherWrite(d, status)
      PROVE  /\ TypeOK' /\ UNCHANGED <<asked, tab, call, acked, stored, dead>>
             /\ version' = version + 1
  <2>1. left' \in [writes : Nat, faults : Nat, moves : Nat, ends : Nat]
    BY <1>0, <1>1, SpendIs DEF OtherWrite
  <2>2. row' \in [Device -> Status] /\ version' \in Nat
    BY <1>0, <1>1 DEF OtherWrite, TypeOK
  <2>. QED  BY <1>0, <1>1, <2>1, <2>2 DEF OtherWrite, TypeOK, tab
<1>2. ASSUME NEW t \in Token, Expire(t)
      PROVE  TypeOK' /\ UNCHANGED <<server, tab, call, acked, stored>> /\ dead' = dead \cup {t}
  <2>1. left' \in [writes : Nat, faults : Nat, moves : Nat, ends : Nat]
    BY <1>0, <1>2, SpendIs DEF Expire
  <2>. QED  BY <1>0, <1>2, <2>1 DEF Expire, TypeOK, tab, server
<1>3. CASE OtherTab
  <2>1. /\ left' \in [writes : Nat, faults : Nat, moves : Nat, ends : Nat]
        /\ left'.ends # left.ends
    <3>1. left'.ends = left.ends - 1
      BY <1>0, <1>3 DEF OtherTab, Spend, TypeOK
    <3>. QED  BY <1>0, <1>3, <3>1, SpendIs DEF OtherTab, TypeOK
  <2>2. \/ stored' = None /\ dead' = dead
        \/ /\ stored' \in Token /\ stored' \notin Held /\ dead' = dead \ {stored'}
    BY <1>3, FreshTokenIs DEF OtherTab
  <2>3. TypeOK'
    BY <1>0, <1>3, <2>1, <2>2 DEF OtherTab, TypeOK, tab, server
  <2>. QED  BY <1>0, <1>3, <2>1, <2>2, <2>3 DEF OtherTab, IInv, server
<1>. QED  BY <1>1, <1>2, <1>3 DEF IInv, server

-----------------------------------------------------------------------------
(* The tab takes an answer.                                                *)

LEMMA LoadedIs ==
    ASSUME view \in View, NEW c \in Call
    PROVE  /\ Loaded(c) \in View /\ Loaded(c).success = view.success
           /\ Loaded(c).kept = view.kept /\ Loaded(c).astray = view.astray
           /\ c.answer = "ok" => Loaded(c).data = c.data /\ Loaded(c).crossed = c.crossed
           /\ c.answer # "ok" => Loaded(c).data = view.data /\ Loaded(c).error
<1>1. CASE c.answer = "ok"
  <2>1. c.data \in Data /\ c.crossed \in BOOLEAN
    BY DEF Call
  <2>. QED  BY <1>1, <2>1 DEF Loaded, View
<1>2. CASE c.answer # "ok"
  BY <1>2 DEF Loaded, View
<1>. QED  BY <1>1, <1>2

\* What the takes have in common.
Taken(s) ==
    /\ call[s] # Idle /\ call[s] \in Call /\ Proper(call[s]) /\ TypeOK
    /\ Done(s) \in [Slot -> Call \cup {Idle}] /\ Done(s)[s] = Idle
    /\ \A r \in Slot \ {s} : Done(s)[r] = call[r]
    /\ \A r \in Slot : Done(s)[r] # Idle => Proper(Done(s)[r])
    /\ Cleared(s) \in Token \cup {None}

LEMMA TakenIs ==
    ASSUME IInv, NEW s \in Slot, call[s] # Idle
    PROVE  Taken(s)
  BY DoneIs DEF IInv, TypeOK, Taken, Cleared

\* A load has ended.
TakesLoad(s) ==
    LET c == call[s] IN
    /\ c # Idle /\ c.op \in Loads
    /\ \/ Goes(Done(s), s) /\ page' \notin Protected
       \/ call' = Done(s) /\ page' = page /\ view' = IF c.mounted THEN Loaded(c) ELSE view
    /\ stored' = Cleared(s) /\ UNCHANGED <<server, dead, acked>>

LEMMA TakeLoadStep ==
    ASSUME IInv, NEW s \in Slot, TakeLoad(s)
    PROVE  IInv' /\ TakesLoad(s)
<1>. DEFINE c == call[s]
<1>1. /\ c # Idle /\ c.op \in Loads /\ stored' = Cleared(s)
      /\ UNCHANGED <<server, dead, signedIn, left, acked>>
      /\ \/ GoTo(login, Done(s), s)
         \/ /\ call' = Done(s) /\ UNCHANGED <<page, from>>
            /\ view' = IF c.mounted THEN Loaded(c) ELSE view
  BY DEF TakeLoad, Applies
<1>2. Taken(s)
  BY <1>1, TakenIs
<1>3. CASE GoTo(login, Done(s), s)
  <2>1. /\ page' \in Page /\ from' \in Protected /\ view' \in View
        /\ call' \in [Slot -> Call \cup {Idle}]
        /\ \A r \in Slot : call'[r] # Idle => Proper(call'[r])
        /\ Goes(Done(s), s)
    BY <1>1, <1>2, <1>3, GoToIs DEF Taken, Goes
  <2>2. page' \in {login, blank}
    BY <1>3, PageKinds DEF GoTo, Target
  <2>3. TypeOK'
    BY <1>1, <1>2, <2>1 DEF Taken, TypeOK, server
  <2>. QED  BY <1>1, <2>1, <2>2, <2>3, PageKinds DEF IInv, TakesLoad
<1>4. CASE /\ call' = Done(s) /\ UNCHANGED <<page, from>>
           /\ view' = IF c.mounted THEN Loaded(c) ELSE view
  <2>1. view' \in View
    BY <1>2, <1>4, LoadedIs DEF Taken, TypeOK
  <2>2. TypeOK'
    BY <1>1, <1>2, <1>4, <2>1 DEF Taken, TypeOK, server
  <2>3. \A r \in Slot : call'[r] # Idle => Proper(call'[r])
    BY <1>2, <1>4 DEF Taken
  <2>. QED  BY <1>1, <1>4, <2>2, <2>3 DEF IInv, TakesLoad
<1>. QED  BY <1>1, <1>3, <1>4

\* A change was refused or failed; or it was made, and its page loads again.
TakesChange(s) ==
    LET c == call[s]
        d == call'[s]
    IN
    /\ c # Idle /\ c.op \in Changes /\ page' = page
    /\ view'.data = view.data /\ view'.success = view.success /\ view'.error = view.error
    /\ view'.kept = view.kept /\ view'.astray = view.astray
    /\ \/ call' = Done(s) /\ acked' = acked /\ view' = view
       \/ /\ c.answer = "ok" /\ acked' = Later(acked, c.data.at)
          /\ d \in Call /\ d # Idle /\ d.op \in Loads /\ d.page = c.page /\ d.answer = "none"
          /\ d.mounted = c.mounted /\ ~d.first /\ d.token = stored'
          /\ \A r \in Slot \ {s} : call'[r] # Idle =>
               call[r] # Idle /\ Weaker(call'[r], call[r]) /\ call'[r].crossed
          /\ view.loading => view'.loading
          /\ IF c.mounted THEN view'.loading ELSE view'.crossed
    /\ stored' = Cleared(s) /\ UNCHANGED <<server, dead>>

LEMMA TakeChangeStep ==
    ASSUME IInv, NEW s \in Slot, TakeChange(s)
    PROVE  IInv' /\ TakesChange(s)
<1>. DEFINE c == call[s]
            op == IF c.page.at = "dashboard" THEN "list" ELSE "get"
            d == Request(op, c.page.dev, c.page, FALSE, c.mounted)
            dialog == IF c.op = "save" THEN None ELSE view.dialog
<1>1. /\ c # Idle /\ c.op \in Changes /\ stored' = Cleared(s)
      /\ UNCHANGED <<server, dead, signedIn, page, from, left>>
      /\ \/ call' = Done(s) /\ UNCHANGED <<view, acked>>
         \/ /\ c.answer = "ok" /\ acked' = Later(acked, c.data.at)
            /\ call' = [Crossed EXCEPT ![s] = d]
            /\ view' = IF ~c.mounted THEN [view EXCEPT !.crossed = TRUE]
                       ELSE [view EXCEPT !.loading = TRUE, !.dialog = dialog]
  BY DEF TakeChange
<1>2. Taken(s)
  BY <1>1, TakenIs
<1>3. CASE call' = Done(s) /\ UNCHANGED <<view, acked>>
  <2>1. TypeOK'
    BY <1>1, <1>2, <1>3 DEF Taken, TypeOK, server
  <2>2. \A r \in Slot : call'[r] # Idle => Proper(call'[r])
    BY <1>2, <1>3 DEF Taken
  <2>. QED  BY <1>1, <1>2, <1>3, <2>1, <2>2 DEF IInv, TakesChange, Taken
<1>4. CASE /\ c.answer = "ok" /\ acked' = Later(acked, c.data.at)
           /\ call' = [Crossed EXCEPT ![s] = d]
           /\ view' = IF ~c.mounted THEN [view EXCEPT !.crossed = TRUE]
                      ELSE [view EXCEPT !.loading = TRUE, !.dialog = dialog]
  <2>1. /\ c \in Call /\ Proper(c) /\ stored' \in Token \cup {None} /\ view \in View
        /\ call \in [Slot -> Call \cup {Idle}] /\ acked \in Nat
        /\ dialog \in Device \cup {None}
    BY <1>1, <1>2 DEF Taken, TypeOK, View
  <2>2. \/ c.page = dashboard /\ op = "list"
        \/ c.page.at = "detail" /\ op = "get"
    BY <1>1, <2>1, PageKinds DEF Proper
  <2>3. /\ op \in Loads /\ c.page \in Page /\ c.page.dev \in Device \cup {None}
        /\ c.page \in Protected /\ op \notin Changes \cup {"session", "allow"}
        /\ c.data.at \in Nat /\ c.mounted \in BOOLEAN
    BY <2>1, <2>2, PageKinds DEF Proper, Loads, Changes, Page, Call, Data
  <2>. HIDE DEF op, dialog
  <2>4. d \in Call
    BY <2>1, <2>3 DEF Request, Call, NoData, Data, NoRows, Status
  <2>5. /\ d.op = op /\ d.dev = c.page.dev /\ d.page = c.page
        /\ d.token = stored' /\ d.answer = "none" /\ d.mounted = c.mounted
    BY DEF Request
  <2>6. ~d.first
    BY DEF Request
  <2>7. Proper(d) /\ d # Idle
    BY <2>2, <2>3, <2>4, <2>5, Constants DEF Proper, op
  <2>. HIDE DEF d
  <2>8. /\ call' \in [Slot -> Call \cup {Idle}] /\ call'[s] = d
        /\ \A r \in Slot \ {s} : call'[r] = Crossed[r]
    BY <1>4, <2>1, <2>4, CrossedAre
  <2>9. /\ view' \in View /\ view'.data = view.data /\ view'.error = view.error
        /\ view'.success = view.success
        /\ view'.kept = view.kept /\ view'.astray = view.astray
        /\ (view.loading => view'.loading)
        /\ IF c.mounted THEN view'.loading ELSE view'.crossed
    <3>1. CASE c.mounted
      BY <1>4, <2>1, <3>1 DEF View
    <3>2. CASE ~c.mounted
      BY <1>4, <2>1, <3>2 DEF View
    <3>. QED  BY <3>1, <3>2
  <2>10. acked' \in Nat
    BY <1>4, <2>1, <2>3 DEF Later
  <2>11. TypeOK'
    BY <1>1, <1>2, <2>1, <2>8, <2>9, <2>10 DEF Taken, TypeOK, server
  <2>12. \A r \in Slot \ {s} : call'[r] # Idle =>
            call[r] # Idle /\ Weaker(call'[r], call[r]) /\ call'[r].crossed
    BY <2>1, <2>8, CrossedAre
  <2>13. \A r \in Slot : call'[r] # Idle => Proper(call'[r])
    <3>1. ASSUME NEW r \in Slot \ {s}, call'[r] # Idle
          PROVE  Proper(call'[r])
      BY <2>12, <3>1, WeakerProper DEF IInv
    <3>. QED  BY <2>7, <2>8, <3>1
  <2>. HIDE DEF c
  <2>14. IInv'
    BY <2>11, <2>13 DEF IInv
  <2>. QED  BY <1>1, <1>4, <2>3, <2>4, <2>5, <2>6, <2>7, <2>8, <2>9, <2>12, <2>14
            DEF TakesChange, c
<1>. QED  BY <1>1, <1>3, <1>4

\* The end of a request of the approval page, or of a login that failed.
Settles(s) ==
    LET c == call[s] IN
    /\ c # Idle /\ c.op \in {"session", "allow", "login"}
    /\ stored' = Cleared(s) /\ UNCHANGED <<server, dead, acked>>
    /\ \/ /\ call' = Done(s) /\ page' = page
          /\ view'.kept = view.kept /\ view'.astray = view.astray
          /\ \/ view' = view
             \/ /\ c.mounted /\ c.op = "session" /\ view'.success = view.success
                /\ view'.data = view.data \/ (c.answer = "ok" /\ view'.data = c.data)
             \/ /\ c.mounted /\ c.op = "allow" /\ view'.data = view.data
                /\ view'.success => view.success \/ c.answer = "ok"
             \/ c.mounted /\ c.op = "login"
       \/ /\ call' = Left(Done(s), FALSE) /\ page' = blank /\ view' = Fresh(blank)
          /\ c.op = "session" /\ c.mounted

LEMMA TakeSessionStep ==
    ASSUME IInv, NEW s \in Slot, TakeSession(s)
    PROVE  IInv' /\ Settles(s)
<1>. DEFINE c == call[s]
<1>1. /\ c # Idle /\ c.op = "session" /\ stored' = Cleared(s)
      /\ UNCHANGED <<server, dead, signedIn, from, left, acked>>
      /\ \/ call' = Done(s) /\ UNCHANGED <<page, view>>
         \/ /\ c.mounted /\ page' = blank /\ view' = Fresh(blank)
            /\ call' = Left(Done(s), FALSE)
         \/ c.mounted /\ call' = Done(s) /\ UNCHANGED page /\ view' = Loaded(c)
  BY DEF TakeSession, Applies
<1>2. Taken(s)
  BY <1>1, TakenIs
<1>3. CASE call' = Done(s) /\ page' = page /\ (view' = view \/ (c.mounted /\ view' = Loaded(c)))
  <2>1. /\ view' \in View /\ view'.kept = view.kept /\ view'.astray = view.astray
        /\ view'.success = view.success
        /\ view'.data = view.data \/ (c.answer = "ok" /\ view'.data = c.data)
    BY <1>2, <1>3, LoadedIs DEF Taken, TypeOK
  <2>2. TypeOK'
    BY <1>1, <1>2, <1>3, <2>1 DEF Taken, TypeOK, server
  <2>3. \A r \in Slot : call'[r] # Idle => Proper(call'[r])
    BY <1>2, <1>3 DEF Taken
  <2>. QED  BY <1>1, <1>3, <2>1, <2>2, <2>3 DEF IInv, Settles
<1>4. CASE /\ c.mounted /\ page' = blank /\ view' = Fresh(blank)
           /\ call' = Left(Done(s), FALSE)
  <2>1. blank \in Page
    BY DEF Page
  <2>2. /\ call' \in [Slot -> Call \cup {Idle}]
        /\ \A r \in Slot : call'[r] # Idle =>
              Done(s)[r] # Idle /\ Weaker(call'[r], Done(s)[r])
    BY <1>2, <1>4, LeftAre DEF Taken
  <2>3. \A r \in Slot : call'[r] # Idle => Proper(call'[r])
    BY <1>2, <2>2, WeakerProper DEF Taken
  <2>4. view' \in View
    BY <1>4, <2>1, FreshIs
  <2>5. TypeOK'
    BY <1>1, <1>2, <1>4, <2>1, <2>2, <2>4 DEF Taken, TypeOK, server
  <2>. QED  BY <1>1, <1>4, <2>3, <2>5 DEF IInv, Settles
<1>. QED  BY <1>1, <1>3, <1>4

LEMMA TakeAllowStep ==
    ASSUME IInv, NEW s \in Slot, TakeAllow(s)
    PROVE  IInv' /\ Settles(s)
<1>. DEFINE c == call[s]
<1>1. /\ c # Idle /\ c.op = "allow" /\ stored' = Cleared(s) /\ call' = Done(s)
      /\ UNCHANGED <<server, dead, signedIn, page, from, left, acked>>
      /\ \/ view' = view
         \/ c.mounted /\ c.answer = "ok" /\ view' = [view EXCEPT !.success = TRUE]
         \/ c.mounted /\ view' = [view EXCEPT !.error = TRUE]
  BY DEF TakeAllow, Applies
<1>2. Taken(s)
  BY <1>1, TakenIs
<1>3. /\ view' \in View /\ view'.kept = view.kept /\ view'.astray = view.astray
      /\ view'.data = view.data
      /\ view' = view \/ (c.mounted /\ (view'.success => view.success \/ c.answer = "ok"))
  BY <1>1, <1>2 DEF Taken, TypeOK, View
<1>4. TypeOK'
  BY <1>1, <1>2, <1>3 DEF Taken, TypeOK, server
<1>5. \A r \in Slot : call'[r] # Idle => Proper(call'[r])
  BY <1>1, <1>2 DEF Taken
<1>. QED  BY <1>1, <1>3, <1>4, <1>5 DEF IInv, Settles

\* A login that succeeded leads away.
LogsIn(s) ==
    LET c == call[s] IN
    /\ c # Idle /\ c.op = "login"
    /\ stored' = c.token /\ Goes(Done(s), s) /\ UNCHANGED <<server, dead, acked>>

LEMMA TakeLoginStep ==
    ASSUME IInv, NEW s \in Slot, TakeLogin(s)
    PROVE  IInv' /\ (Settles(s) \/ (LogsIn(s) /\ call[s].answer = "ok"))
<1>. DEFINE c == call[s]
<1>1. /\ c # Idle /\ c.op = "login" /\ UNCHANGED <<server, dead, left, acked>>
  BY DEF TakeLogin
<1>2. Taken(s)
  BY <1>1, TakenIs
<1>3. CASE c.answer = "ok"
  <2>1. stored' = c.token /\ signedIn' = TRUE /\ GoTo(c.page, Done(s), s)
    BY <1>3 DEF TakeLogin
  <2>2. c.page \in Protected \cup {login} /\ c.token \in Token \cup {None}
    BY <1>2 DEF Taken, Proper, Call
  <2>. DEFINE p == c.page
  <2>3. /\ p \in Protected \cup {login} /\ GoTo(p, Done(s), s)
        /\ stored' \in Token \cup {None}
    BY <2>1, <2>2
  <2>. HIDE DEF p, c
  <2>4. /\ page' \in Page /\ from' \in Protected /\ view' \in View
        /\ call' \in [Slot -> Call \cup {Idle}]
        /\ \A r \in Slot : call'[r] # Idle => Proper(call'[r])
        /\ Goes(Done(s), s)
    BY <1>2, <2>3, GoToIs DEF Taken, Goes
  <2>5. TypeOK'
    BY <1>1, <1>2, <2>1, <2>3, <2>4 DEF Taken, TypeOK, server
  <2>. QED  BY <1>1, <1>3, <2>1, <2>4, <2>5 DEF IInv, LogsIn, c
<1>4. CASE c.answer # "ok"
  <2>1. /\ stored' = Cleared(s) /\ call' = Done(s) /\ UNCHANGED <<signedIn, page, from>>
        /\ \/ view' = view
           \/ c.mounted /\ view' = [view EXCEPT !.loading = FALSE, !.error = TRUE]
    BY <1>4 DEF TakeLogin, Applies
  <2>2. /\ view' \in View /\ view'.kept = view.kept /\ view'.astray = view.astray
        /\ view' = view \/ c.mounted
    BY <1>2, <2>1 DEF Taken, TypeOK, View
  <2>3. TypeOK'
    BY <1>1, <1>2, <2>1, <2>2 DEF Taken, TypeOK, server
  <2>4. \A r \in Slot : call'[r] # Idle => Proper(call'[r])
    BY <1>2, <2>1 DEF Taken
  <2>. QED  BY <1>1, <2>1, <2>2, <2>3, <2>4 DEF IInv, Settles
<1>. QED  BY <1>3, <1>4

-----------------------------------------------------------------------------
(* All steps.                                                              *)

Browses(s) ==
    /\ Goes(call, s) /\ call[s] = Idle
    /\ UNCHANGED <<server, stored, dead, acked>>

SignsOut ==
    /\ Goes(call, 1) /\ left'.moves # left.moves /\ page' \notin Protected
    /\ UNCHANGED <<server, dead, acked>>

StartsAnew == Restarts /\ UNCHANGED <<server, stored, dead, acked>>

\* Only a dialog opens or closes, or nothing happens in the tab.
Rests ==
    /\ \/ view' = view \/ \E d : view' = [view EXCEPT !.dialog = d]
    /\ UNCHANGED <<server, stored, dead, page, call, acked>>

OthersAct ==
    /\ UNCHANGED <<asked, tab, call, acked>> /\ version' \in {version, version + 1}
    /\ stored' = stored \/ left'.ends # left.ends
    /\ \A t \in Held : t \in dead => t \in dead'

LEMMA StepIs ==
    ASSUME IInv, [Next]_vars
    PROVE  /\ IInv'
           /\ \/ \E s \in Slot :
                   \/ \E op, d : UserSends(s, op, d)
                   \/ Browses(s)
                   \/ \E answer, data, token : Replied(s, answer, data, token)
                   \/ TakesLoad(s) \/ TakesChange(s) \/ Settles(s)
                   \/ (LogsIn(s) /\ call[s].answer = "ok")
              \/ SignsOut \/ StartsAnew \/ Rests \/ OthersAct
<1>1. CASE UNCHANGED vars
  <2>1. IInv'
    BY <1>1 DEF vars, server, tab, IInv, TypeOK
  <2>. QED  BY <1>1, <2>1 DEF vars, server, tab, Rests
<1>2. ASSUME NEW s \in Slot, NEW p \in Page \ {blank}, Navigate(s, p)
      PROVE  IInv' /\ Browses(s)
  BY <1>2, NavigateStep DEF Browses
<1>3. ASSUME NEW s \in Slot, Submit(s) \/ Refresh(s)
      PROVE  IInv' /\ \E op, d : UserSends(s, op, d)
  BY <1>3, SubmitStep, RefreshStep
<1>4. ASSUME NEW s \in Slot,
             \/ Save(s) \/ Allow(s) \/ \E d \in Device, op \in Changes : Click(s, d, op)
             \/ \E op \in Changes : ClickDetail(s, op)
      PROVE  IInv' /\ \E op, d : UserSends(s, op, d)
  BY <1>4, ButtonStep
<1>5. ASSUME NEW s \in Slot, Serve(s) \/ RejectLogin(s) \/ Fail(s)
      PROVE  IInv' /\ \E answer, data, token : Replied(s, answer, data, token)
  BY <1>5, ServeStep
<1>6. ASSUME NEW s \in Slot, Take(s)
      PROVE  IInv' /\ \/ TakesLoad(s) \/ TakesChange(s) \/ Settles(s)
                      \/ (LogsIn(s) /\ call[s].answer = "ok")
  BY <1>6, TakeLoadStep, TakeChangeStep, TakeSessionStep, TakeAllowStep, TakeLoginStep DEF Take
<1>7. ASSUME NEW p \in Page \ {blank}, Reload(p)
      PROVE  IInv' /\ StartsAnew
  BY <1>7, ReloadStep DEF StartsAnew
<1>8. CASE Logout
  BY <1>8, LogoutStep DEF SignsOut
<1>9. CASE CloseEdit \/ \E d \in Device : OpenEdit(d)
  BY <1>9, DialogStep DEF Rests
<1>10. CASE \/ \E d \in Device, status \in Status : OtherWrite(d, status)
            \/ OtherTab \/ \E t \in Token : Expire(t)
  BY <1>10, OthersStep DEF OthersAct
<1>. QED  BY <1>1, <1>2, <1>3, <1>4, <1>5, <1>6, <1>7, <1>8, <1>9, <1>10 DEF Next

LEMMA InitInv == Init => IInv
<1>. SUFFICES ASSUME Init
              PROVE  IInv
  OBVIOUS
<1>1. page = login /\ login \in Page /\ view \in View /\ dashboard \in Protected
  BY FreshIs, PageKinds DEF Init, Page
<1>2. TypeOK
  BY <1>1, ConsoleAssumption DEF Init, TypeOK, Status, None
<1>. QED  BY <1>2 DEF IInv, Init

LEMMA Inductive == Spec => []IInv
  BY InitInv, StepIs, PTL DEF Spec

\* Every variable keeps its type: a page is one the router knows, and a
\* request has the fields its answer is handled by.
THEOREM TypeCorrect == Spec => []TypeOK
  BY Inductive, PTL DEF IInv

-----------------------------------------------------------------------------
(* The page of a request.                                                  *)

\* A request that may still change the page belongs to the component shown,
\* and to its device too, if it was sent by the effect or nothing went astray.
Attached ==
    /\ view.astray => view.kept
    /\ \A s \in Slot : call[s] # Idle /\ call[s].mounted =>
         /\ call[s].op = "login" => page = login
         /\ call[s].op # "login" =>
              /\ page.at = call[s].page.at
              /\ call[s].first \/ ~view.astray => page = call[s].page

\* What goes on is the request it was.
LEMMA Bases ==
    ASSUME IInv
    PROVE  /\ \A r \in Slot : call[r] # Idle => Weaker(call[r], call[r])
           /\ \A s, r \in Slot : Done(s)[r] # Idle =>
                r # s /\ call[r] # Idle /\ Weaker(Done(s)[r], call[r]) /\ Done(s)[r] = call[r]
<1>1. call \in [Slot -> Call \cup {Idle}]
  BY DEF IInv, TypeOK
<1>. QED  BY <1>1, DoneIs, SameWeaker

\* Another page, or the same component with another device.
LEMMA MovedView ==
    ASSUME IInv, IInv', NEW calls, NEW t, Moved(calls, t)
    PROVE  /\ view'.astray => view'.kept
           /\ Kept => view'.kept /\ page' # page /\ (Pending(calls) # {} => view'.astray)
           /\ ~Kept => \E p \in Page : page' = p /\ view' = Fresh(p)
           /\ page'.at \in {"dashboard", "detail"} => view'.loading
<1>. DEFINE p == page'
<1>1. p \in Page /\ view \in View /\ page \in Page
  BY DEF IInv, TypeOK
<1>2. /\ Kept => p # page
      /\ view' = IF Kept THEN Reused(p, calls) ELSE Fresh(p)
  BY DEF Moved
<1>3. Kept => p.at = page.at /\ p # login
  BY DEF Kept
<1>. HIDE DEF p
<1>4. CASE Kept
  <2>1. /\ view'.kept /\ (Pending(calls) # {} => view'.astray)
        /\ p.at = "detail" => view'.loading
    BY <1>1, <1>2, <1>4, ReusedIs
  <2>2. p.at # "dashboard"
    BY <1>1, <1>2, <1>3, <1>4, PageKinds
  <2>. QED  BY <1>2, <1>4, <2>1, <2>2 DEF p
<1>5. CASE ~Kept
  BY <1>1, <1>2, <1>5, FreshIs DEF p
<1>. QED  BY <1>4, <1>5

LEMMA GoesAttached ==
    ASSUME IInv, IInv', Attached, NEW calls, NEW t \in Slot, Goes(calls, t),
           \A r \in Slot : calls[r] # Idle => call[r] # Idle /\ Weaker(calls[r], call[r])
    PROVE  Attached'
<1>1. CASE page' = page /\ view' = view /\ call' = calls
  BY <1>1 DEF Attached, Weaker
<1>2. CASE Moved(calls, t)
  <2>. SUFFICES ASSUME NEW s \in Slot, call'[s] # Idle, call'[s].mounted
                PROVE  /\ call'[s].op = "login" => page' = login
                       /\ call'[s].op # "login" =>
                            /\ page'.at = call'[s].page.at
                            /\ call'[s].first \/ ~view'.astray => page' = call'[s].page
    BY <1>2, MovedView DEF Attached
  <2>1. CASE Opened(call'[s])
    BY <2>1 DEF Opened, Loads
  <2>2. CASE /\ calls[s] # Idle /\ Weaker(call'[s], calls[s])
             /\ call'[s].mounted => Kept /\ ~call'[s].first
    <3>1. /\ call[s] # Idle /\ Weaker(calls[s], call[s]) /\ Kept /\ ~call'[s].first
      BY <2>2
    <3>2. /\ call'[s].op = call[s].op /\ call'[s].page = call[s].page /\ call[s].mounted
          /\ calls[s].mounted /\ ~calls[s].first
      BY <2>2, <3>1 DEF Weaker
    <3>3. view'.astray
      BY <1>2, <2>2, <3>1, <3>2, MovedView DEF Pending
    <3>4. page # login /\ page'.at = page.at
      BY <1>2, <3>1, PageKinds DEF Kept, Moved
    <3>. QED  BY <3>1, <3>2, <3>3, <3>4 DEF Attached
  <2>. QED  BY <1>2, <2>1, <2>2 DEF Moved
<1>. QED  BY <1>1, <1>2 DEF Goes

LEMMA AttachedInv == IInv /\ Attached /\ [Next]_vars => Attached'
<1>. SUFFICES ASSUME IInv, Attached, [Next]_vars
              PROVE  Attached'
  OBVIOUS
<1>0. /\ TypeOK /\ call \in [Slot -> Call \cup {Idle}] /\ 1 \in Slot /\ page \in Page
      /\ IInv' /\ view \in View
  BY StepIs, Constants DEF IInv, TypeOK
<1>1. ASSUME NEW s \in Slot, NEW op, NEW d, UserSends(s, op, d)
      PROVE  Attached'
  BY <1>1 DEF UserSends, Sent, Alike, Attached
<1>2. ASSUME NEW s \in Slot, Goes(call, s)
      PROVE  Attached'
  BY <1>0, <1>2, Bases, GoesAttached
<1>3. ASSUME NEW s \in Slot, Goes(Done(s), s)
      PROVE  Attached'
  BY <1>0, <1>3, Bases, GoesAttached
<1>4. ASSUME NEW s \in Slot, NEW answer, NEW data, NEW token, Replied(s, answer, data, token)
      PROVE  Attached'
  BY <1>4 DEF Replied, Answered, tab, Attached
<1>5. ASSUME NEW s \in Slot, call' = Done(s), page' = page,
             view'.kept = view.kept, view'.astray = view.astray
      PROVE  Attached'
  BY <1>5, Bases DEF Attached
<1>6. ASSUME NEW s \in Slot, TakesLoad(s)
      PROVE  Attached'
  <2>1. CASE Goes(Done(s), s)
    BY <1>3, <2>1
  <2>2. CASE call' = Done(s) /\ page' = page /\ view' = IF call[s].mounted THEN Loaded(call[s]) ELSE view
    <3>1. view'.kept = view.kept /\ view'.astray = view.astray
      BY <1>0, <1>6, <2>2, LoadedIs DEF TakesLoad
    <3>. QED  BY <1>5, <2>2, <3>1
  <2>. QED  BY <1>6, <2>1, <2>2 DEF TakesLoad
<1>7. ASSUME NEW s \in Slot, TakesChange(s)
      PROVE  Attached'
  <2>1. CASE call' = Done(s)
    BY <1>5, <1>7, <2>1 DEF TakesChange
  <2>2. CASE call' # Done(s)
    <3>1. /\ call[s] # Idle /\ call[s].op # "login" /\ call'[s].op # "login"
          /\ call'[s].page = call[s].page /\ call'[s].mounted = call[s].mounted
          /\ ~call'[s].first /\ page' = page /\ ~call[s].first
          /\ view'.kept = view.kept /\ view'.astray = view.astray
          /\ \A r \in Slot \ {s} : call'[r] # Idle => call[r] # Idle /\ Weaker(call'[r], call[r])
      BY <1>7, <2>2 DEF TakesChange, Changes, Loads, IInv, Proper
    <3>. QED  BY <3>1 DEF Attached, Weaker
  <2>. QED  BY <2>1, <2>2
<1>8. ASSUME NEW s \in Slot, Settles(s)
      PROVE  Attached'
  <2>1. CASE call' = Done(s) /\ page' = page /\ view'.kept = view.kept /\ view'.astray = view.astray
    BY <1>5, <2>1
  <2>2. CASE call' = Left(Done(s), FALSE) /\ page' = blank /\ view' = Fresh(blank)
    <3>1. \A r \in Slot : call'[r] # Idle => ~call'[r].mounted
      BY <1>0, <2>2, DoneIs, LeftAre
    <3>2. ~view'.astray
      BY <2>2, FreshIs DEF Page
    <3>. QED  BY <3>1, <3>2 DEF Attached
  <2>. QED  BY <1>8, <2>1, <2>2 DEF Settles
<1>9. CASE StartsAnew
  <2>. DEFINE p == page'
  <2>1. p \in Page /\ view' = Fresh(p)
    BY <1>9 DEF StartsAnew, Restarts, Page
  <2>. HIDE DEF p
  <2>2. ~view'.astray
    BY <2>1, FreshIs
  <2>. QED  BY <1>9, <2>2 DEF StartsAnew, Restarts, Opened, Loads, Attached
<1>10. CASE Rests
  <2>1. view'.kept = view.kept /\ view'.astray = view.astray
    BY <1>0, <1>10 DEF Rests, View
  <2>. QED  BY <1>10, <2>1 DEF Rests, Attached
<1>11. CASE OthersAct
  BY <1>11 DEF OthersAct, tab, Attached
<1>. QED  BY <1>0, <1>1, <1>2, <1>3, <1>4, <1>6, <1>7, <1>8, <1>9, <1>10, <1>11, StepIs
          DEF Browses, SignsOut, LogsIn

-----------------------------------------------------------------------------
(* What is shown.                                                          *)

\* Answers are about the device they were asked for, and stay true.
Honest ==
    \A s \in Slot : call[s] # Idle /\ call[s].answer = "ok" =>
        /\ call[s].op \in {"get", "session"} =>
             \A d \in Device : call[s].data.rows[d] # "absent" => d = call[s].dev
        /\ call[s].op = "allow" => asked[call[s].dev] = "approved"

\* A request after a step is one from before it, or has no answer.
FewerAnswers ==
    /\ \A s \in Slot : call'[s] # Idle =>
         \/ call'[s].answer = "none"
         \/ \E r \in Slot : call[r] # Idle /\ Weaker(call'[s], call[r])
    /\ UNCHANGED <<server, dead>>

\* The end of a change brings no answers.
LEMMA NoNewTake ==
    ASSUME IInv, NEW s \in Slot, TakesChange(s)
    PROVE  FewerAnswers
<1>1. CASE call' = Done(s)
  BY <1>1, Bases DEF TakesChange, FewerAnswers
<1>2. CASE call' # Done(s)
  BY <1>2 DEF TakesChange, FewerAnswers
<1>. QED  BY <1>1, <1>2

\* The takes and the user bring no answers.
LEMMA NoNewAnswers ==
    ASSUME IInv, [Next]_vars
    PROVE  \/ FewerAnswers
           \/ OthersAct
           \/ \E s \in Slot : \E answer, data, token : Replied(s, answer, data, token)
<1>0. call \in [Slot -> Call \cup {Idle}] /\ 1 \in Slot
  BY Constants DEF IInv, TypeOK
<1>1. ASSUME NEW calls, NEW s \in Slot, Goes(calls, s),
             \A r \in Slot : calls[r] # Idle => call[r] # Idle /\ Weaker(calls[r], call[r]),
             UNCHANGED <<server, dead>>
      PROVE  FewerAnswers
  <2>1. CASE call' = calls
    BY <1>1, <2>1 DEF FewerAnswers
  <2>2. CASE Moved(calls, s)
    <3>1. ASSUME NEW r \in Slot, call'[r] # Idle, calls[r] # Idle, Weaker(call'[r], calls[r])
          PROVE  call[r] # Idle /\ Weaker(call'[r], call[r])
      BY <1>1, <3>1 DEF Weaker
    <3>. QED  BY <1>1, <2>2, <3>1 DEF Moved, Opened, FewerAnswers
  <2>. QED  BY <1>1, <2>1, <2>2 DEF Goes
<1>2. ASSUME NEW s \in Slot, call' = Done(s), UNCHANGED <<server, dead>>
      PROVE  FewerAnswers
  BY <1>2, Bases DEF FewerAnswers
<1>3. ASSUME NEW s \in Slot, NEW op, NEW d, UserSends(s, op, d)
      PROVE  FewerAnswers
  BY <1>3, Bases DEF UserSends, Sent, FewerAnswers
<1>4. ASSUME NEW s \in Slot, TakesChange(s)
      PROVE  FewerAnswers
  BY <1>4, NoNewTake
<1>5. ASSUME NEW s \in Slot, call' = Left(Done(s), FALSE), UNCHANGED <<server, dead>>
      PROVE  FewerAnswers
  <2>1. \A r \in Slot : call'[r] # Idle => Done(s)[r] # Idle /\ Weaker(call'[r], Done(s)[r])
    BY <1>0, <1>5, DoneIs, LeftAre
  <2>2. \A r \in Slot : Done(s)[r] # Idle => call[r] # Idle /\ Done(s)[r] = call[r]
    BY Bases
  <2>. QED  BY <1>5, <2>1, <2>2 DEF FewerAnswers
<1>6. CASE StartsAnew
  BY <1>6 DEF StartsAnew, Restarts, Opened, FewerAnswers
<1>7. CASE Rests
  BY <1>7, Bases DEF Rests, FewerAnswers
<1>8. \A s \in Slot : Browses(s) => FewerAnswers
  BY <1>1, Bases DEF Browses
<1>9. SignsOut => FewerAnswers
  BY <1>0, <1>1, Bases DEF SignsOut
<1>10. \A s \in Slot : TakesLoad(s) \/ Settles(s) \/ LogsIn(s) => FewerAnswers
  BY <1>1, <1>2, <1>5, Bases DEF TakesLoad, Settles, LogsIn
<1>. QED  BY <1>3, <1>4, <1>6, <1>7, <1>8, <1>9, <1>10, StepIs

LEMMA HonestInv == IInv /\ Honest /\ [Next]_vars => Honest'
<1>. SUFFICES ASSUME IInv, Honest, [Next]_vars
              PROVE  Honest'
  OBVIOUS
<1>1. CASE FewerAnswers
  BY <1>1 DEF FewerAnswers, Honest, Weaker, server
<1>2. CASE OthersAct
  BY <1>2 DEF OthersAct, tab, Honest
<1>3. ASSUME NEW s \in Slot, NEW answer, NEW data, NEW token, Replied(s, answer, data, token)
      PROVE  Honest'
  <2>1. \A r \in Slot : call[r] # Idle /\ call[r].op = "allow" => call[r].dev \in Device
    BY DEF IInv, Proper
  <2>. QED  BY <1>3, <2>1 DEF Replied, Answered, Honest
<1>. QED  BY <1>1, <1>2, <1>3, NoNewAnswers

\* ShowsItsDevice, and a success has a device.
Shown ==
    /\ page.at = "detail" /\ (view.kept => ~view.loading /\ ~view.error /\ ~view.astray) =>
         \A d \in Device : view.data.rows[d] # "absent" => d = page.dev
    /\ page.at = "approval" /\ ~view.kept =>
         /\ \A d \in Device : view.data.rows[d] # "absent" => d = page.dev
         /\ view.success => page.dev \in Device /\ asked[page.dev] = "approved"

\* A page that has just been opened shows nothing.
LEMMA FreshShown ==
    ASSUME NEW p \in Page, page' = p, view' = Fresh(p)
    PROVE  Shown'
  BY FreshIs DEF Shown, NoData, NoRows

LEMMA GoesShown ==
    ASSUME IInv, IInv', Shown, NEW calls, NEW s, Goes(calls, s), UNCHANGED server
    PROVE  Shown'
<1>1. CASE page' = page /\ view' = view
  BY <1>1 DEF Shown, server
<1>2. CASE Moved(calls, s)
  <2>1. CASE Kept
    <3>1. view'.kept /\ (page'.at = "detail" => view'.loading)
      BY <1>2, <2>1, MovedView
    <3>. QED  BY <3>1 DEF Shown
  <2>2. CASE ~Kept
    BY <1>2, <2>2, MovedView, FreshShown
  <2>. QED  BY <2>1, <2>2
<1>. QED  BY <1>1, <1>2 DEF Goes

LEMMA ShownInv == IInv /\ Attached /\ Honest /\ Shown /\ [Next]_vars => Shown'
<1>. SUFFICES ASSUME IInv, Attached, Honest, Shown, [Next]_vars
              PROVE  Shown'
  OBVIOUS
<1>0. view \in View /\ page \in Page /\ IInv' /\ (~view.kept => ~view.astray)
  BY StepIs DEF IInv, TypeOK, Attached
<1>1. ASSUME NEW s \in Slot, NEW op, NEW d, UserSends(s, op, d)
      PROVE  Shown'
  BY <1>1, PageKinds DEF UserSends, Alike, server, Shown
<1>2. ASSUME NEW s \in Slot, NEW answer, NEW data, NEW token, Replied(s, answer, data, token)
      PROVE  Shown'
  <2>1. page' = page /\ view' = view /\ \A d \in Device : asked[d] = "approved" => asked'[d] = "approved"
    BY <1>2 DEF Replied, tab
  <2>. QED  BY <2>1 DEF Shown
<1>3. ASSUME NEW s \in Slot, TakesLoad(s)
      PROVE  Shown'
  <2>. DEFINE c == call[s]
  <2>1. CASE Goes(Done(s), s)
    BY <1>0, <1>3, <2>1, GoesShown DEF TakesLoad
  <2>2. CASE page' = page /\ view' = IF c.mounted THEN Loaded(c) ELSE view
    <3>1. c \in Call /\ c # Idle /\ c.op \in Loads /\ UNCHANGED server /\ Proper(c)
      BY <1>3 DEF TakesLoad, IInv, TypeOK
    <3>2. CASE ~c.mounted
      BY <2>2, <3>1, <3>2 DEF Shown, server
    <3>3. CASE c.mounted
      <4>1. page.at = c.page.at /\ (~view.astray => page = c.page)
        BY <3>1, <3>3 DEF Attached, Loads
      <4>2. page.at \in {"dashboard", "detail"} /\ (page.at = "detail" => c.op = "get")
        BY <3>1, <4>1, PageKinds DEF Proper, Loads
      <4>3. view'.kept = view.kept /\ view'.astray = view.astray
        BY <1>0, <2>2, <3>1, <3>3, LoadedIs
      <4>4. CASE c.answer # "ok"
        <5>1. view'.data = view.data /\ view'.error
          BY <1>0, <2>2, <3>1, <3>3, <4>4, LoadedIs
        <5>. QED  BY <2>2, <4>2, <4>3, <5>1 DEF Shown
      <4>5. CASE c.answer = "ok"
        <5>1. view'.data = c.data
          BY <1>0, <2>2, <3>1, <3>3, <4>5, LoadedIs
        <5>2. page.at = "detail" /\ ~view.astray =>
                \A d \in Device : c.data.rows[d] # "absent" => d = page.dev
          BY <3>1, <4>1, <4>2, <4>5 DEF Honest, Proper
        <5>. QED  BY <1>0, <2>2, <4>2, <4>3, <5>1, <5>2 DEF Shown
      <4>. QED  BY <4>4, <4>5
    <3>. QED  BY <3>2, <3>3
  <2>. QED  BY <1>3, <2>1, <2>2 DEF TakesLoad
<1>4. ASSUME NEW s \in Slot, TakesChange(s)
      PROVE  Shown'
  <2>1. /\ page' = page /\ view'.data = view.data /\ view'.success = view.success
        /\ view'.error = view.error /\ view'.kept = view.kept /\ view'.astray = view.astray
        /\ (view.loading => view'.loading) /\ asked' = asked
    BY <1>4 DEF TakesChange, server
  <2>. QED  BY <2>1 DEF Shown
<1>5. ASSUME NEW s \in Slot, Settles(s)
      PROVE  Shown'
  <2>. DEFINE c == call[s]
  <2>1. c # Idle /\ Proper(c) /\ asked' = asked
    BY <1>5 DEF Settles, IInv, server
  <2>2. CASE page' = blank /\ view' = Fresh(blank)
    BY <2>2, FreshShown DEF Page
  <2>3. CASE page' = page /\ view' = view
    BY <2>1, <2>3 DEF Shown
  <2>4. CASE page' = page /\ c.mounted /\ c.op = "login"
    BY <2>1, <2>4, PageKinds DEF Attached, Shown
  <2>5. CASE /\ page' = page /\ view'.kept = view.kept /\ c.mounted
             /\ c.op = "session" /\ view'.success = view.success
             /\ view'.data = view.data \/ (c.answer = "ok" /\ view'.data = c.data)
    <3>1. page.at = "approval" /\ (~view.kept => page = c.page)
      BY <1>0, <2>1, <2>5 DEF Attached, Proper
    <3>2. c.dev = c.page.dev /\ (c.answer = "ok" =>
             \A d \in Device : c.data.rows[d] # "absent" => d = c.dev)
      BY <2>1, <2>5 DEF Proper, Honest
    <3>. QED  BY <2>1, <2>5, <3>1, <3>2 DEF Shown
  <2>6. CASE /\ page' = page /\ view'.kept = view.kept /\ c.mounted
             /\ c.op = "allow" /\ (view'.success => view.success \/ c.answer = "ok")
             /\ view'.data = view.data
    <3>1. page.at = "approval" /\ (~view.kept => page = c.page)
      BY <1>0, <2>1, <2>6 DEF Attached, Proper
    <3>2. c.dev = c.page.dev /\ c.dev \in Device /\ (c.answer = "ok" => asked[c.dev] = "approved")
      BY <2>1, <2>6 DEF Proper, Honest
    <3>. QED  BY <2>1, <2>6, <3>1, <3>2 DEF Shown
  <2>. QED  BY <1>5, <2>2, <2>3, <2>4, <2>5, <2>6 DEF Settles
<1>6. ASSUME NEW s \in Slot, Browses(s) \/ LogsIn(s)
      PROVE  Shown'
  BY <1>0, <1>6, GoesShown DEF Browses, LogsIn
<1>7. CASE SignsOut
  BY <1>0, <1>7, GoesShown DEF SignsOut
<1>8. CASE StartsAnew
  <2>. DEFINE p == page'
  <2>1. p \in Page /\ page' = p /\ view' = Fresh(p)
    BY <1>8 DEF StartsAnew, Restarts, Page
  <2>. HIDE DEF p
  <2>. QED  BY <2>1, FreshShown
<1>9. CASE Rests
  <2>1. /\ view'.kept = view.kept /\ view'.astray = view.astray /\ view'.data = view.data
        /\ view'.success = view.success /\ view'.loading = view.loading
        /\ view'.error = view.error
    BY <1>0, <1>9 DEF Rests, View
  <2>. QED  BY <1>9, <2>1 DEF Rests, server, Shown
<1>10. CASE OthersAct
  BY <1>10 DEF OthersAct, tab, Shown
<1>. QED  BY <1>1, <1>2, <1>3, <1>4, <1>5, <1>6, <1>7, <1>8, <1>9, <1>10, StepIs

LEMMA AlwaysShown == Spec => [](IInv /\ Attached /\ Honest /\ Shown)
<1>1. Init => Attached /\ Honest /\ Shown
  BY PageKinds, FreshIs DEF Init, Attached, Honest, Shown, Page
<1>. QED  BY <1>1, InitInv, StepIs, AttachedInv, HonestInv, ShownInv, PTL DEF Spec

\* A page shows the device of its URL, and a success only when the request of
\* its own code is approved, however late the answers to other pages come and
\* whichever requests fail, are cancelled or overtake each other.  A detail
\* page the router has kept for another device does so once it has loaded
\* without an error, provided that no request but its effect's was under way when
\* the device changed; about an approval page that was kept nothing is said.
THEOREM ItsDevice == Spec => []ShowsItsDevice
<1>1. Shown => ShowsItsDevice
  BY DEF Shown, ShowsItsDevice
<1>. QED  BY <1>1, AlwaysShown, PTL

-----------------------------------------------------------------------------
(* Who removes the token.                                                  *)

\* A 401 was given to a token that is no good, and stays no good as long as
\* the answer is under way; a login that succeeded has a token.
Refused ==
    \A s \in Slot : call[s] # Idle =>
        /\ call[s].answer = "refused" /\ call[s].op # "login" => ~Valid(call[s].token)
        /\ call[s].answer = "ok" /\ call[s].op = "login" => call[s].token \in Token

LEMMA RefusedInv == IInv /\ Refused /\ [Next]_vars => Refused'
<1>. SUFFICES ASSUME IInv, Refused, [Next]_vars
              PROVE  Refused'
  OBVIOUS
<1>0. \A s \in Slot : call[s] # Idle => call[s].token \in Held
  BY DEF Held
<1>1. CASE FewerAnswers
  BY <1>1 DEF FewerAnswers, Refused, Weaker, Valid
<1>2. CASE OthersAct
  BY <1>0, <1>2 DEF OthersAct, Refused, Valid
<1>3. ASSUME NEW s \in Slot, NEW answer, NEW data, NEW token, Replied(s, answer, data, token)
      PROVE  Refused'
  <2>. SUFFICES ASSUME NEW r \in Slot, call'[r] # Idle
                PROVE  /\ call'[r].answer = "refused" /\ call'[r].op # "login" =>
                            ~(call'[r].token # None /\ call'[r].token \notin dead')
                       /\ call'[r].answer = "ok" /\ call'[r].op = "login" =>
                            call'[r].token \in Token
    BY DEF Refused, Valid
  <2>1. CASE r = s
    BY <1>3, <2>1 DEF Replied, Answered, Valid
  <2>2. CASE r # s
    <3>1. call'[r] = call[r] /\ call[r] # Idle /\ call[r].token \in Held
      BY <1>0, <1>3, <2>2 DEF Replied, Answered
    <3>2. call[r].token \in dead => call[r].token \in dead'
      BY <1>3, <3>1 DEF Replied
    <3>. QED  BY <3>1, <3>2 DEF Refused, Valid
  <2>. QED  BY <2>1, <2>2
<1>. QED  BY <1>1, <1>2, <1>3, NoNewAnswers

\* An answer is taken once.
LEMMA AnswerIsTaken ==
    ASSUME IInv, NEW s \in Slot, call[s].answer = "refused",
           TakesLoad(s) \/ TakesChange(s) \/ Settles(s)
    PROVE  call[s] # Idle /\ call'[s] # call[s]
<1>1. call[s] # Idle /\ call \in [Slot -> Call \cup {Idle}] /\ Done(s)[s] = Idle
      /\ Done(s) \in [Slot -> Call \cup {Idle}]
  BY DoneIs DEF TakesLoad, TakesChange, Settles, IInv, TypeOK
<1>2. CASE call' = Done(s)
  BY <1>1, <1>2
<1>3. CASE Moved(Done(s), s)
  BY <1>1, <1>3 DEF Moved, Opened
<1>4. CASE call' = Left(Done(s), FALSE)
  BY <1>1, <1>4, LeftAre
<1>5. CASE TakesChange(s)
  BY <1>1, <1>2, <1>5 DEF TakesChange
<1>. QED  BY <1>1, <1>2, <1>3, <1>4, <1>5 DEF TakesLoad, Settles, Goes

\* A good token is removed by signing out or by another tab, by a refused
\* login, or by a 401 to a request with another token: never by a request that
\* carried it, however long the answer took and whatever was stored meanwhile.
THEOREM ErasedForCause == Spec => TokenErasedForCause
<1>. DEFINE Cause == \/ <<left.moves, left.ends>>' # <<left.moves, left.ends>>
                     \/ \E s \in Slot :
                          /\ call[s] # Idle /\ call'[s] # call[s] /\ call[s].answer = "refused"
                          /\ call[s].op = "login" \/ call[s].token # stored
<1>1. ASSUME IInv, Refused, [Next]_vars, Valid(stored), stored' = None
      PROVE  Cause
  <2>1. stored # None /\ stored' # stored
    BY <1>1 DEF Valid
  <2>2. CASE SignsOut
    BY <2>2 DEF SignsOut
  <2>3. CASE OthersAct
    BY <2>1, <2>3 DEF OthersAct
  <2>4. ASSUME NEW s \in Slot, TakesLoad(s) \/ TakesChange(s) \/ Settles(s)
        PROVE  Cause
    <3>1. call[s].answer = "refused" /\ call[s] # Idle
      BY <2>1, <2>4 DEF TakesLoad, TakesChange, Settles, Cleared
    <3>2. call[s].op = "login" \/ call[s].token # stored
      BY <1>1, <3>1 DEF Refused
    <3>. QED  BY <1>1, <2>4, <3>1, <3>2, AnswerIsTaken
  <2>5. ASSUME NEW s \in Slot, LogsIn(s), call[s].answer = "ok"
        PROVE  FALSE
    BY <1>1, <2>5, Constants DEF LogsIn, Refused
  <2>6. ASSUME NEW s \in Slot,
               \/ \E op, d : UserSends(s, op, d)
               \/ Browses(s)
               \/ \E answer, data, token : Replied(s, answer, data, token)
        PROVE  FALSE
    BY <2>1, <2>6 DEF UserSends, Browses, Replied
  <2>7. ~StartsAnew /\ ~Rests
    BY <2>1 DEF StartsAnew, Rests
  <2>. QED  BY <1>1, <2>2, <2>3, <2>4, <2>5, <2>6, <2>7, StepIs
<1>2. ASSUME IInv, Refused, [Next]_vars
      PROVE  [Valid(stored) /\ stored' = None => Cause]_vars
  BY <1>1, <1>2
<1>3. Init => Refused
  BY DEF Init, Refused
<1>4. Spec => [](IInv /\ Refused)
  BY <1>3, InitInv, StepIs, RefusedInv, PTL DEF Spec
<1>. QED  BY <1>2, <1>4, PTL DEF Spec, TokenErasedForCause, Cause

-----------------------------------------------------------------------------
(* How old what is shown may be.                                           *)

\* What a load has fetched is recent enough, unless a change was confirmed
\* while it was under way; a confirmed change is one the table has.
Recent ==
    /\ acked <= version
    /\ \A s \in Slot : call[s] # Idle /\ call[s].answer = "ok" =>
         /\ call[s].op \in Loads /\ ~call[s].crossed => call[s].data.at >= acked
         /\ call[s].op \in Changes => call[s].data.at <= version

LEMMA RecentInv == IInv /\ Recent /\ [Next]_vars => Recent'
<1>. SUFFICES ASSUME IInv, Recent, [Next]_vars
              PROVE  Recent'
  OBVIOUS
<1>0. /\ version \in Nat /\ acked \in Nat /\ version' \in Nat
      /\ \A s \in Slot : call[s] # Idle => call[s] \in Call /\ call[s].data.at \in Nat
  BY StepIs DEF IInv, TypeOK, Call, Data
<1>1. CASE FewerAnswers /\ acked' = acked
  <2>1. version' = version
    BY <1>1 DEF FewerAnswers, server
  <2>2. ASSUME NEW s \in Slot, call'[s] # Idle, call'[s].answer = "ok"
        PROVE  /\ call'[s].op \in Loads /\ ~call'[s].crossed => call'[s].data.at >= acked
               /\ call'[s].op \in Changes => call'[s].data.at <= version
    <3>1. PICK r \in Slot : call[r] # Idle /\ Weaker(call'[s], call[r])
      BY <1>1, <2>2 DEF FewerAnswers
    <3>2. /\ call[r].answer = "ok" /\ call'[s].op = call[r].op /\ call'[s].data = call[r].data
          /\ (~call'[s].crossed => ~call[r].crossed)
      BY <2>2, <3>1 DEF Weaker
    <3>. QED  BY <3>1, <3>2 DEF Recent
  <2>. QED  BY <1>1, <2>1, <2>2 DEF Recent
<1>2. ASSUME NEW s \in Slot, TakesChange(s)
      PROVE  Recent'
  <2>1. CASE acked' = acked
    <3>1. FewerAnswers
      BY <1>2, NoNewTake
    <3>. QED  BY <1>1, <2>1, <3>1
  <2>2. CASE call[s].answer = "ok" /\ acked' = Later(acked, call[s].data.at) /\ acked' # acked
    <3>1. /\ call[s] # Idle /\ call[s].op \in Changes /\ version' = version
          /\ call'[s].op \in Loads /\ call'[s].answer = "none"
          /\ \A r \in Slot \ {s} : call'[r] # Idle =>
               call[r] # Idle /\ Weaker(call'[r], call[r]) /\ call'[r].crossed
      BY <1>2, <2>2 DEF TakesChange, server
    <3>2. acked' <= version'
      BY <1>0, <2>2, <3>1 DEF Recent, Later
    <3>3. ASSUME NEW r \in Slot, call'[r] # Idle, call'[r].answer = "ok"
          PROVE  /\ call'[r].crossed
                 /\ call'[r].op \in Changes => call'[r].data.at <= version'
      <4>1. r # s
        BY <3>1, <3>3
      <4>2. /\ call[r] # Idle /\ call[r].answer = "ok" /\ call'[r].op = call[r].op
            /\ call'[r].data = call[r].data /\ call'[r].crossed
        BY <3>1, <3>3, <4>1 DEF Weaker
      <4>. QED  BY <3>1, <4>2 DEF Recent
    <3>. QED  BY <3>2, <3>3 DEF Recent
  <2>. QED  BY <1>2, <2>1, <2>2 DEF TakesChange
<1>3. ASSUME NEW s \in Slot, NEW answer, NEW data, NEW token, Replied(s, answer, data, token)
      PROVE  Recent'
  <2>1. /\ version' \in {version, version + 1} /\ acked' = acked
        /\ call[s] # Idle /\ Answered(s, answer, data, token)
        /\ (call[s].op \in Loads /\ answer = "ok" => data.at = version)
        /\ (call[s].op \in Changes /\ answer = "ok" => data.at = version')
    BY <1>3 DEF Replied
  <2>2. version <= version' /\ acked <= version /\ acked <= version'
    BY <1>0, <2>1 DEF Recent
  <2>3. ASSUME NEW r \in Slot, call'[r] # Idle, call'[r].answer = "ok"
        PROVE  /\ call'[r].op \in Loads /\ ~call'[r].crossed => call'[r].data.at >= acked
               /\ call'[r].op \in Changes => call'[r].data.at <= version'
    <3>1. CASE r = s
      <4>1. call'[r].op = call[s].op /\ answer = "ok" /\ call'[r].data = data
        BY <2>1, <2>3, <3>1 DEF Answered
      <4>. QED  BY <1>0, <2>1, <2>2, <4>1
    <3>2. CASE r # s
      <4>1. call'[r] = call[r] /\ call[r] # Idle
        BY <2>1, <2>3, <3>2 DEF Answered
      <4>. QED  BY <1>0, <2>2, <2>3, <4>1 DEF Recent
    <3>. QED  BY <3>1, <3>2
  <2>. QED  BY <2>1, <2>2, <2>3 DEF Recent
<1>4. CASE OthersAct
  <2>1. version' \in {version, version + 1} /\ acked' = acked /\ call' = call
    BY <1>4 DEF OthersAct
  <2>2. version' >= version /\ acked <= version
    BY <1>0, <2>1 DEF Recent
  <2>. QED  BY <1>0, <2>1, <2>2 DEF Recent
<1>5. \/ acked' = acked
      \/ \E s \in Slot : TakesChange(s)
  <2>1. \A s \in Slot : (\E op, d : UserSends(s, op, d)) => acked' = acked
    BY DEF UserSends
  <2>2. \A s \in Slot : (\E answer, data, token : Replied(s, answer, data, token)) => acked' = acked
    BY DEF Replied
  <2>3. \A s \in Slot : Browses(s) \/ TakesLoad(s) \/ Settles(s) \/ LogsIn(s) => acked' = acked
    BY DEF Browses, TakesLoad, Settles, LogsIn
  <2>4. SignsOut \/ StartsAnew \/ Rests \/ OthersAct => acked' = acked
    BY DEF SignsOut, StartsAnew, Rests, OthersAct
  <2>. QED  BY <2>1, <2>2, <2>3, <2>4, StepIs
<1>. QED  BY <1>1, <1>2, <1>3, <1>4, <1>5, NoNewAnswers

\* A page that is left or opened is loading or shows what it showed.
LEMMA GoesRecent ==
    ASSUME IInv, IInv', ShowsOwnWrites, NEW calls, NEW t, Goes(calls, t), acked' = acked
    PROVE  ShowsOwnWrites'
<1>1. CASE page' = page /\ view' = view
  BY <1>1 DEF ShowsOwnWrites
<1>2. CASE Moved(calls, t)
  BY <1>2, MovedView DEF ShowsOwnWrites
<1>. QED  BY <1>1, <1>2 DEF Goes

LEMMA WritesInv == IInv /\ Attached /\ Recent /\ ShowsOwnWrites /\ [Next]_vars
                     => ShowsOwnWrites'
<1>. SUFFICES ASSUME IInv, Attached, Recent, ShowsOwnWrites, [Next]_vars
              PROVE  ShowsOwnWrites'
  OBVIOUS
<1>0. view \in View /\ page \in Page /\ IInv' /\ call \in [Slot -> Call \cup {Idle}]
  BY StepIs DEF IInv, TypeOK
<1>1. ASSUME NEW s \in Slot, NEW op, NEW d, UserSends(s, op, d)
      PROVE  ShowsOwnWrites'
  BY <1>1, PageKinds DEF UserSends, Alike, ShowsOwnWrites
<1>2. ASSUME NEW s \in Slot, NEW answer, NEW data, NEW token, Replied(s, answer, data, token)
      PROVE  ShowsOwnWrites'
  BY <1>2 DEF Replied, tab, ShowsOwnWrites
<1>3. ASSUME NEW s \in Slot, TakesLoad(s)
      PROVE  ShowsOwnWrites'
  <2>. DEFINE c == call[s]
  <2>1. CASE Goes(Done(s), s)
    BY <1>0, <1>3, <2>1, GoesRecent DEF TakesLoad
  <2>2. CASE page' = page /\ view' = IF c.mounted THEN Loaded(c) ELSE view
    <3>1. c \in Call /\ c # Idle /\ c.op \in Loads /\ acked' = acked
      BY <1>0, <1>3 DEF TakesLoad
    <3>2. CASE ~c.mounted
      BY <2>2, <3>1, <3>2 DEF ShowsOwnWrites
    <3>3. CASE c.mounted /\ c.answer = "ok"
      BY <1>0, <2>2, <3>1, <3>3, LoadedIs DEF ShowsOwnWrites, Recent
    <3>4. CASE c.mounted /\ c.answer # "ok"
      BY <1>0, <2>2, <3>1, <3>4, LoadedIs DEF ShowsOwnWrites
    <3>. QED  BY <3>2, <3>3, <3>4
  <2>. QED  BY <1>3, <2>1, <2>2 DEF TakesLoad
<1>4. ASSUME NEW s \in Slot, TakesChange(s)
      PROVE  ShowsOwnWrites'
  <2>1. CASE acked' = acked /\ view' = view /\ page' = page
    BY <2>1 DEF ShowsOwnWrites
  <2>2. CASE IF call[s].mounted THEN view'.loading ELSE view'.crossed
    BY <2>2 DEF ShowsOwnWrites
  <2>. QED  BY <1>4, <2>1, <2>2 DEF TakesChange
<1>5. ASSUME NEW s \in Slot, Settles(s)
      PROVE  ShowsOwnWrites'
  <2>1. CASE page' = blank
    BY <2>1, PageKinds DEF ShowsOwnWrites
  <2>2. CASE page' = page /\ view' = view
    BY <1>5, <2>2 DEF Settles, ShowsOwnWrites
  <2>3. CASE page' = page /\ call[s].mounted
    <3>1. page.at \in {"approval", "login"}
      BY <1>5, <2>3, PageKinds DEF Settles, Attached, IInv, Proper
    <3>. QED  BY <2>3, <3>1 DEF ShowsOwnWrites
  <2>. QED  BY <1>5, <2>1, <2>2, <2>3 DEF Settles
<1>6. ASSUME NEW s \in Slot, Browses(s) \/ LogsIn(s)
      PROVE  ShowsOwnWrites'
  BY <1>0, <1>6, GoesRecent DEF Browses, LogsIn
<1>7. CASE SignsOut
  BY <1>0, <1>7, GoesRecent DEF SignsOut
<1>8. CASE StartsAnew
  <2>. DEFINE p == page'
  <2>1. p \in Page /\ view' = Fresh(p)
    BY <1>8 DEF StartsAnew, Restarts, Page
  <2>. HIDE DEF p
  <2>2. p.at \in {"dashboard", "detail"} => view'.loading
    BY <2>1, FreshIs
  <2>. QED  BY <2>2 DEF ShowsOwnWrites, p
<1>9. CASE Rests
  <2>1. /\ view'.crossed = view.crossed /\ view'.data = view.data /\ view'.error = view.error
        /\ view'.loading = view.loading
    BY <1>0, <1>9 DEF Rests, View
  <2>. QED  BY <1>9, <2>1 DEF Rests, ShowsOwnWrites
<1>10. CASE OthersAct
  BY <1>10 DEF OthersAct, tab, ShowsOwnWrites
<1>. QED  BY <1>1, <1>2, <1>3, <1>4, <1>5, <1>6, <1>7, <1>8, <1>9, <1>10, StepIs

\* A page at rest shows every change the tab was told has been made: however
\* many requests are under way and whatever becomes of them, unless its data
\* was on its way when a change was confirmed, or was loaded before a change that
\* was confirmed to a page that is gone.
THEOREM OwnWrites == Spec => []ShowsOwnWrites
<1>1. Init => Attached /\ Recent /\ ShowsOwnWrites
  BY PageKinds, FreshIs DEF Init, Attached, Recent, ShowsOwnWrites, Page
<1>. QED  BY <1>1, InitInv, StepIs, AttachedInv, RecentInv, WritesInv, PTL DEF Spec

=============================================================================
