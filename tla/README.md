# Formal model of tun-over-ws

tun-over-ws carries a TUN device's IP packets over WebSocket connections. A
client keeps a small pool of connections to a relay server, which forwards
packets between clients by virtual IP; administrators approve devices in a web
console. This directory holds TLA+ models of the parts that are concurrent, the
TLC runs that check them on small instances, and TLAPS proofs, for every
instance, of the safety properties of all six models.

Line numbers refer to the files under `src/`. `PROJECT.json` maps every
definition that models code to the lines it stands for.

## 1. The system

### Components

| Component | Code | State it keeps | Operations | What makes it correct |
|---|---|---|---|---|
| Client connection pool | `internal/conn/pool.go` | `conns` with a role each, `alive`, `plannedClose`, `pendingBuilds`, tick counters | `Connect`, `monitorTick`, `primaryOrWait`, `buildStandby`, `closeAfterDrain`, `closeAll` | one primary, no gap at a handover, capacity, builders accounted for, retired connections leave |
| Client data path | `pool.go` | `writeCh` of each connection, `tcpFlows` | `dispatchPacket`, `enqueueTCP/UDP`, `writeConn`, `expireTCPFlows` | a flow stays on one lane; no loss or duplicate by the client itself; backpressure without deadlock |
| Timeout detector | `internal/conn/timeout.go` | up to five lifetimes, the detected limit | `RecordDisconnect`, `RotationInterval` | learns a real limit, never a phantom one, rotates in time |
| Relay core | `internal/relay/server.go` | connections by device and by address, flow table, queues | register, forward, unregister, expire | the registry is exact; a flow is not split |
| Device registry | `internal/admin/handler.go`, `internal/store` | tables `devices`, `auth_sessions` | init, poll, refresh, approve, revoke, update, delete, hello check | keys only after approval, one address per device |
| Client credentials | `internal/conn/auth.go`, `internal/app/client.go` | `device.json`, keys, session code | start, refresh, register, poll, hello, rebuild | an approved client gets online and stays so |
| Connection quality | `internal/conn/connstate.go` | EWMAs, counters | record, mark degraded | (inputs of the pool) |
| Relay address allocator | `internal/relay/allocator.go` | map of addresses | `Allocate`, `Release` | unused on every path |
| Web console | `www/src` | token in localStorage and in React state, route, state of the mounted page, requests under way | sign in and out, navigate, load, approve, revoke, edit, delete, approve a session | a page shows its own device and the tab's own changes; a good token is kept, a lost one replaced |
| Admin login | `handler.go`, `admin/auth.go` | attempts per address, JWT | login, token check | a bounded window |
| Packet parsing | `internal/packet` | none | parse, classify | class and flags |
| TUN, configuration, logging, built assets | `internal/tun`, `config`, `logger`, `admin/static` | none of their own | I/O | not modelled |

### How they interact

The TUN reader (one goroutine) calls `dispatchPacket`, which looks connections
up under `Pool.mu` and sends on their channels without it. The monitor (one
goroutine, once a second) and the TUN reader (in `primaryOrWait`) assign roles
under the mutex; builders append connections under it; connection goroutines
and drainers only flip the atomic `alive`. On the relay each connection's
reader copies the destination's connections under `Server.mu`, then works on
that copy, on channels, and on the shared flow table. The HTTP handlers and the
hello check meet in the SQLite table, one statement at a time and with no
transaction around them. The client reads its access key once, when the pool is
created. A tab of the console shares the token in localStorage with the other
tabs of the browser; its requests outlive the pages that sent them, and their
handlers run when the answers come, in any order.

### What is hard

Flips of `alive` during decisions; two promoters and two rotations; builds that
finish after shutdown; a look-up that is stale when the enqueue happens; a full
queue that blocks the only reader; time as a primary against age of a
connection; store calls of overlapping requests; answers lost after the server
acted; keys that expire under a running pool; answers that come to a page other than
the one that asked; two copies of the fact that somebody is signed in.
`PROJECT.json` lists each of
these with its line under `hazards`.

## 2. The modules

| Module | Models | Main abstractions |
|---|---|---|
| `PoolRoles` | what the pool promises: roles only move forward, one primary, no gap | one variable, no queues, no builders |
| `Pool` | `pool.go`, roles and builders | data left out; ages and latencies are free inputs of a tick |
| `PoolProofs` | theorems: the invariants of `Pool` | |
| `PoolRefinement` | theorems: its action properties, what the data path needs of it, and that it implements `PoolRoles` | |
| `Delivery` | what a forwarder promises: a packet is held until one connection accepts it, arrives at most once, and is lost only with that connection | sets of packets, no queues, no reader |
| `PoolFlow` | `pool.go`, packets and flow bindings | roles move as `PoolRoles` says; a packet is a flow, a number and a kind |
| `Rotation` | `timeout.go` with the monitor, in discrete time | a build takes one unit; a middlebox cuts at one fixed age |
| `Relay` | `relay/server.go`, forwarding | a packet as above; heartbeats are failures at any moment |
| `DeviceAuth` | `admin/handler.go`, `store`, `conn/auth.go`, `app/client.go`, hello | one store call per step; an access key and its refresh key are one value |
| `Console` | `www/src`, and `admin/handler.go` as the console meets it | one tab; a server request is one step; the table is a status per device and a version |
| `PoolFlowProofs`, `RelayProofs` | theorems: the safety properties of those modules, and that each implements `Delivery` | |
| `RotationProofs`, `DeviceAuthProofs`, `ConsoleProofs` | theorems: the safety properties of those modules | |
| `Lemmas` | lemmas about least elements and small sets that several proofs need | |

The modules named `MC...` instantiate them for TLC.

### Pool

An action is a critical section of `Pool.mu`. `MonitorTick` is the whole of
`monitorTick`: pruning, `RecordDisconnect`, `ensurePrimaryLocked`, the rotation
by age, the three pressure and latency tests, the critical rotation and the
rebuilding. Its parameters `aged`, `pressed`, `slow` and `critical` stand for
comparisons with clocks and averages, which may come out either way whenever
there is a live primary. `Serving`, `Normalized`, `Retiring` and `Rotated` are
`normalizePrimaryLocked` and `rotatePrimaryLocked` as functions from roles to
roles. A builder is a token that moves from `dialing` through `joining` (its
connection is listed, `startConn` has not run) to `finishing` (the deferred
decrement). `Die` needs a started connection; `DrainClose` does not, since
`closeAfterDrain` is started by the rotation itself. After `CloseAll` builders
may still join, as in the code. `Connect` includes the start of `Run`.

### PoolFlow

The reader's program counter `at` has one value for each place where another
goroutine can come between: after the look-up of the binding (`check`), between
the test of `alive` and the select (`push`), between the enqueue and
`afterTCPEnqueue` (`after`), and between the snapshot of burst candidates and
each attempt (`tryUdp`). In `Push` the choice is Go's: with room and a closed
connection both cases of the select are ready. `Take` and `Write` split
`writeConn`, because the packet in hand is what a drain does not see.
`Listings` are the orders in which `burstCandidates` may list a set of
connections of one role.

`Delivery` sees of this that a packet is *held* from `Read` until a connection
accepts it, through every retry; that a connection *carries* what is in its queue,
in its writer's hand and on its wire; and that a connection is *broken* once it is
closed. It is told that no TCP packet is dropped while it is held (`Sure`): a
packet is lost only with the connection that had accepted it.

### Rotation

A unit of time is long enough for one build. All connections age; the
middlebox cuts those that reach `limit`; the tick prunes, records, promotes,
rotates and refills. `cut` remembers the primaries the middlebox has cut in the last unit
and what was detected then. `Fault` ends a connection early. The connections kept
and the dead ones are listed in the order they had (`Listings`), which is what the
loop of `monitorTick` does with its list.

### Relay

One record per reader, with the packet, the snapshot and the target it works
on. `TargetClosed` removes the binding unconditionally when the target came
from the table, as the code does. `TryStandby` goes on with the primary that was
chosen together with the standby (`fallback`). `Push` has the three cases of
`enqueueTCPToClient`'s select, `PushTimeout` its timer. A datagram is UDP (`Udp`,
`UdpWait`: two attempts, then a wait on one connection) or ICMP, which stands for
every other class as well (`Icmp`, `IcmpWait`: the loop of
`enqueuePrimaryWithTimeout`, which turns to the next primary when one closes);
`PlainKind` has the two. `Unregister` removes the
first occurrence of the connection from the list of its address, as `removeConn`
does. In `Delivery`'s terms a packet is held by the reader that forwards it and
carried by the destination connection in whose queue it waits; since the relay
gives TCP packets up as well, after 30 s, no flow is `Sure`.

### DeviceAuth

A request is a slot whose `step` names the store call it makes next; with two
slots any two requests overlap. `OneWriter` describes the behaviours in which no
two of them are between a query about addresses, or the reading of a row, and the
write that rests on it. An administrator's
update reads the row (`AdminReads`, kept in `snap`), may validate an address,
and writes all columns back (`Updated`). The client's `pc` follows `RunClient`.
`IssueKeys` writes the status as well as the keys (`Keyed`), as `UpdateDeviceKeys`
does, so it can bring a revoked device back; so can an approval. The history
variable `returned` has the devices that came back, until they are deleted.
`GiveUp` is a request that fails at the client while the server may go on;
`Forget` is the server noticing; `Stop` is a restart, which keeps the key file.
Keys age fresh, aged (24 hours), dead (90 days). A new key or code is the
lowest one nobody holds, so that values are reused without ambiguity; when every
one is held, no step that needs one is taken (a bound).

### Console

`page` and `from` are the router's; `view` is the state of the one mounted
page: its data with the version of the table they were read at, `loading`,
`error`, the edit dialog, the success of an approval. `stored` is localStorage,
`signedIn` is `AuthProvider`'s state: `RequireAuth` (`Target`) asks the second,
`request` sends the first. A `call` is a request under way and remembers what
its handler will need: the page whose code sent it, whether an effect's cleanup
can cancel it (`first`), whether its page is still there (`mounted`).

The user's actions are those the pages offer: `Navigate`, `Reload`, `Submit`,
`Refresh`, `Logout`, `Click` (a row's buttons), `OpenEdit`, `CloseEdit`, `Save`,
`ClickDetail`, `Allow`. `GoTo` is a step of the router: a page of another route
is mounted afresh and sends its request; a page of the same route with another
device is kept (`Reused`) and only its effect runs again. A redirect from a
protected page mounts the login page anew, also where it was shown before. `Refuse`, `ServeLogin`,
`RejectLogin`, `ServeRead`, `ServeChange`, `ServeAllow` and `Fail` put the answer
into the call; `TakeLoad`, `TakeChange`, `TakeSession`, `TakeAllow` and
`TakeLogin` are the code after the `await`, with what `request` does on a 401 (the
token in localStorage goes, whichever it is by then). After a change the handler
loads again in the same slot. `OtherWrite`, `Expire` and `OtherTab` are everybody
else.

Left out: names and addresses (a saved edit is a new version), the order of rows,
texts. A request is one step of the server, whose own interleavings are in
`DeviceAuth`. History for the properties, which no guard reads: `kept` (the
component shown was kept for another device), `astray` (a request other than its
effect's was under way when that happened), `crossed` (of a request: a change was
confirmed while it was under way; of the page: its data came by such a request, or
were loaded before a change that was confirmed to a page that is gone), and
`acked`, the version of the last confirmed change. Tokens nobody holds are used again; `FreeTokens`
bounds them.

## 3. The runs

Passing runs:

| Run | Question | Bounds |
|---|---|---|
| `pool` | do all the pool's safety properties hold, and does it implement `PoolRoles`? | 3 slots, `MaxTotal` 3 (the code's default pool), one sample per counter |
| `pool_live` | does a pool recover a primary, do retired connections and builders go? | 2 slots |
| `flow` | is a TCP flow kept on one lane, without duplicates, and does the client implement `Delivery`? | 3 connections, queue of 1, 3 packets with SYN and FIN |
| `flow_live` | is the reader ever stuck, also after an outage of all connections that a new one ends? | 2 connections, one TCP flow, UDP and ICMP, 1 packet each |
| `rotation` | is the limit learned, and what does rotation guarantee? | limit 12 units, 3 connections, 2 other faults |
| `relay` | is the registry exact, is a flow kept together, does the relay implement `Delivery`, does a closed connection leave? | one source, two destination connections, queue of 1, one TCP flow and one pair of hosts with 2 packets each, the latter UDP or ICMP |
| `auth` | do a client's keys agree with the table's, does an approved client come up? | 1 device, 2 slots, 3 keys, 1 fault |
| `vips` | keys only after approval; do addresses stay distinct while no two registrations or updates overlap (`OneWriter`)? | 2 devices, 2 addresses, 2 slots, one code, one key; approvals of devices and of sessions, overrides, revocations, deletions; clients are followed up to their keys (`UpToKeys`), nothing is lost |
| `console` | does a page show its device and the tab's own changes, is a good token kept, does the tab recover from a lost one, does loading end? | 2 devices, 2 requests under way, 4 tokens, six budgets of writes, faults, moves and ended sessions |

Runs that TLC must find violated, each a disagreement between code and
documents (`findings`):

| Run | What it shows |
|---|---|
| `flow_order` | a rotation alone reorders a bound TCP flow; the documents say a flow is not reordered across connections |
| `rotation_early` | a primary is cut although the limit is known: the interval is compared with the time since promotion, the limit applies to the connection's age |
| `auth_stale` | a client whose key expired while its pool is empty retries for ever with that key |

`CutOnlyOldStandby` is what does hold in place of `RotationIsEarly`: a primary
is cut only if it had used the margin up as a standby. `OneServingLane` is what
holds in place of `FlowInOrder`: the packets that wait on connections still in
service wait on one.

`ImplementsDelivery` is the step-by-step form of "at most once": it excludes what
`NeverTwice`, a count in each state, cannot see, such as a packet that vanishes
while its connection lives, or one that comes back after it was lost.

`ReaderProgress` holds of an ICMP packet because the pool builds connections again:
with no primary the packet waits in `primaryOrWait` without a limit, as a TCP packet
does, and holds up the only reader. `docs/ARCHITECTURE.md:165` and
`docs/HANDOFF.md:32` and `:167` speak of a short wait; the property says that the
next connection ends it, and no run has a clock to say how soon.

The properties of `console` in words, with what they leave out:

- `ShowsOwnWrites`: a page at rest shows every change the tab saw confirmed, with
  any number of loads and changes under way. Left out are data of a read that was
  sent before the confirmation and taken after it: nothing keeps answers in order,
  so such an answer, when it comes last, does hide the change
  (`Dashboard.tsx:96`). A page that was loaded before a change which is then
  confirmed to a page that is gone does not learn of it either.
- `ShowsItsDevice`: a page shows the device of its URL, and a success only of its
  own request, however late the answers to other pages come. A detail page the
  router has kept for a second device is included once it has loaded without an
  error, unless a change or the load after it was under way when the device
  changed; the answer to that one does show the first device
  (`DeviceDetail.tsx:102`). A kept approval page is left out.
- `TokenErasedForCause`: a token that is still good is not removed by a request that
  carried it. The late 401 of an older token does remove it, and the property says
  so.
- `SpinnerEnds`: no order of failures and cancellations leaves a page loading for
  ever. Only fetches are assumed to settle; nobody needs to reload.
- `SessionRecovers`: with a user who signs in or reloads again and again
  (`UserReturns`) a tab gets a good token again once nobody signs out and nothing
  expires.

`VipsDistinct` leaves out the devices in `returned`. `allocateVIP` gives the address
of a revoked device away, and the device can come back with the same address:
approved again, by a poll whose session is approved, or by a poll or refresh that
was past its check when the revocation came. In the run this happens, and two
approved devices have one address.

### Why the bounds are enough

- *Pool.* Three is the size the code uses. Every rotation involves two
  connections and the third can be dying, building or draining meanwhile; a
  second rotation in the same tick needs no fourth. `Samples` and `MinSample`
  of 1 let every threshold be passed in one tick, which contains the
  behaviours of larger values up to the number of ticks needed. The proofs
  remove the bounds for the invariants.
- *PoolFlow, Relay.* A queue of capacity 1 makes both "full" and "has room"
  happen with one packet; two packets are needed for an overtaking, three for
  one after a rebinding. A five-tuple is not reused after its FIN, and a
  binding does not idle out while one of its packets still waits: both are
  bounds stated in the guards.
- *Rotation.* With a limit of 12 the interval is 9.6 units, so that margin and
  tolerance differ by more than the unit; two faults are as many as there are
  standbys, and one fewer than the detector asks samples for.
- *DeviceAuth.* Three keys are what one device can have at once: in the table,
  in the client, in an answer under way. Two slots give every pair of
  overlapping requests. In `vips` a second device is there to take an address the
  first has lost, and a third address would only make that rarer. One code and one
  key mean that the two devices take turns in being approved by a session and in
  getting keys; an approval of the device itself, which the run has too, needs
  neither. Refreshes, restarts after the keys have come, and lost answers are not
  in this run; the theorems have them. A constraint cuts off the states where two
  registrations or updates overlap; in these the property is false
  (`docs/HANDOFF.md:196` names the case). Deadlock is not checked: a client whose
  pool only retries takes no step that changes a state.
- *Console.* Two requests under way are what it takes for one to overtake
  another, and for a change to meet the load of another page. `Budgets` bounds
  what may happen beyond loading and signing in, which are free: each of its six
  values lets another set of things happen together (two changes; a change and a
  failure; a change and two moves; a failure, a move and an ended session; a change
  and an ended session; two moves and an ended session). Four tokens are the stored
  one, one for each request, and a fresh one, so that a login is never held up.
- *Deadlock* is not checked where the system may stop: after shutdown, when the
  bounded supply of packets or connections is used up, or when nobody acts.

### Fairness

- `Pool`: goroutines that can run do run (weak fairness of ticks, builders,
  drainers, shutdown). `SF(JoinStandby)`: dials that are tried again and again
  succeed at some time. Nothing keeps a connection alive; `PrimaryRecovers`
  assumes explicitly that connections which serve or stand by stop breaking.
  Rotations may go on for ever, and retired connections be closed or break.
- `PoolFlow`: the reader and the writers run; a write that hangs ends with its
  time limit, so a packet taken is written or its connection dies; the monitor
  promotes and builds.
- `Rotation`: time passes.
- `Relay`: readers and unregistration run. Writers need not make progress, and
  the 30 s timer need not be the case that is taken: `ClosedLeaves` holds
  without either.
- `Console`: a fetch settles (`WF` of serving and of taking an answer), and nothing
  else is assumed. The person of `SessionRecovers`, who closes a dialog and, where
  this is possible again and again, signs in or reloads the dashboard, is a
  hypothesis of that property (`UserReturns`).
- `DeviceAuth`: the server finishes its requests; the client runs when a slot
  is free again and again; a day that goes by again and again has gone by.

### Mutants

For each property of a passing run the modules hold a mutated definition (named
`...Mutant`, next to the one it changes) that a plausible bug would produce and
that breaks the property; `PROJECT.json` pairs them.

## 4. The proofs

For every value of the constants that the modules' assumptions allow:

| Module | Theorem | States |
|---|---|---|
| `PoolProofs` | `TypeCorrect` | `TypeOK` |
| `PoolProofs` | `OnePrimary` | `SinglePrimary` |
| `PoolProofs` | `WithinCapacity` | `CapacityRespected` |
| `PoolProofs` | `BuildersAccounted` | `PendingAccounting` |
| `PoolProofs` | `PlannedAreDraining` | `PlannedIffDraining` (in no run) |
| `PoolRefinement` | `RetiredForGood` | `RetiredStaysRetired` |
| `PoolRefinement` | `NoGap` | `HandoverMakesBeforeBreaks` |
| `PoolRefinement` | `OnlyDeathsTeach` | `PlannedClosesTeachNothing` |
| `PoolRefinement` | `NoneServesAgain` | `NeverServesAgain` (in no run) |
| `PoolRefinement` | `PoolImplementsRoles` | `ImplementsRoles` |
| `PoolFlowProofs` | `TypeCorrect` | `TypeOK` |
| `PoolFlowProofs` | `Pinned` | `FlowPinned` |
| `PoolFlowProofs` | `OneLane` | `OneServingLane` |
| `PoolFlowProofs` | `NoDuplicate` | `NeverTwice` |
| `PoolFlowProofs` | `NeverDropped` | `TcpNeverDropped` (in no run: `ImplementsDelivery` says more) |
| `PoolFlowProofs` | `ClientImplementsDelivery` | `ImplementsDelivery` |
| `PoolFlowProofs` | `AnyPolicy` | `FlowPinned`, `OneServingLane`, `NeverTwice`, `ImplementsDelivery` for `AnySpec`, in which roles move as they like |
| `RelayProofs` | `TypeCorrect` | `TypeOK` |
| `RelayProofs` | `RegistryIsExact` | `RegistryExact` |
| `RelayProofs` | `MovesOnlyFromClosed` | `FlowMovesFromClosed`, under `SoleCarrier` |
| `RelayProofs` | `OneLane` | `OneServingLane`, under `SoleCarrier` |
| `RelayProofs` | `NoDuplicate` | `NeverTwice` |
| `RelayProofs` | `RelayImplementsDelivery` | `ImplementsDelivery` |
| `DeviceAuthProofs` | `TypeCorrect` | `TypeOK` |
| `DeviceAuthProofs` | `ApprovalNeeded` | `NoKeysWithoutApproval` |
| `DeviceAuthProofs` | `KeysAgree` | `KeysAgreeUnlessUnheard` |
| `DeviceAuthProofs` | `AddressesDistinct` | `VipsDistinct`, under `NeverClears` and `[]OneWriter` |
| `RotationProofs` | `TypeCorrect` | `TypeOK` |
| `RotationProofs` | `NoPhantom` | `NoPhantomLimit` |
| `RotationProofs` | `OnlyOldStandby` | `CutOnlyOldStandby` |
| `ConsoleProofs` | `TypeCorrect` | `TypeOK` |
| `ConsoleProofs` | `ItsDevice` | `ShowsItsDevice` |
| `ConsoleProofs` | `ErasedForCause` | `TokenErasedForCause` |
| `ConsoleProofs` | `OwnWrites` | `ShowsOwnWrites` |

The assumptions are the named ones of each module (`PoolAssumption`,
`PoolFlowAssumption`, `RotationAssumption`, `RelayAssumption`, `AuthAssumption`,
`ConsoleAssumption`): positive bounds, finite sets, flows and devices that are told
apart. Three more are hypotheses of theorems, because the property is false without them:

- `SoleCarrier`: each TCP flow reaches the relay on one connection. A client that
  moves a flow gives it two readers for a while (hazard at `server.go:537`).
- `OneWriter`, always: no two registrations or updates overlap between their query
  and their write. All other requests overlap freely. Two overlapping registrations
  can give two devices one address.
- `NeverClears`: no administrator clears an override. A cleared override hides the
  device's own address from the allocator, which gives it to another device.

Approvals, revocations and deletions are not restricted: the devices that come back
from a revocation are left out by `VipsDistinct` itself.

None of the invariants is inductive alone.

**Pool.** Capacity after a join needs that a
builder being counted is still dialing, which is `PendingAccounting`; the count
after a decrement needs to be positive, again `PendingAccounting` with the
types; a joining slot must not carry an old role, so `UnlistedIdle` (a slot
outside the list has role "none"); `Connect` needs `NewIsEmpty` (nothing exists
before it). `IInv` is the conjunction. Its preservation has one lemma per
group of actions; the lemma for `MonitorTick` rests on `NormalizedFacts` and
`RotatedFacts`, which say of the two role functions that at most one live
primary results whatever the list, that exactly the retired connections become
draining, and that nobody outside the list is touched, and on `FirstIsUnique`
for "the first match in list order".

`PoolRefinement` uses the same invariant. `NormalizedMoves` and `RotatedMoves`
say that promotion and rotation move each connection forward only and leave a
live primary where there was one; that a rotation which found a standby does
promote it needs `FirstExists`, the least index at which a list has a member of
a set (from the well-founded order of the naturals). `TickMoves` composes the up
to three decisions of a tick, `DecisionMoves` joins the tick with
`primaryOrWait`, and the theorems are case distinctions over `Next` from there.
In the refinement a dead connection is no connection: `Connect` maps to `Open`,
`JoinStandby` to `Join`, `Die`, `DrainClose` and `CloseAll` to `Lose`, the two
deciding actions to `Reassign`, every other action to a stutter.

**Data path.** `Reads` says what the reader holds at each of its places, `Aimed`
what the table can contain while it is between the look-up and the binding: that
nothing in it contradicts the reader's choice, which gives `Pinned`. `Served` ties
the queues to the table: a connection in service that holds packets of an
unfinished flow is the one the flow is bound to, or the one the reader has just
put a packet on; two such connections would be two values of one table entry.
`Single` and `Kept` are about places. A packet is at one of five kinds of place
(`At`: queue, writer's hand, wire, arrived, reader's hand); each action moves at
most one packet from one place to another (`Hop`), and `CopiesOfPlaces` counts the
places, so that uniqueness is `NeverTwice` and existence `TcpNeverDropped`.

For `Delivery` the two sets it sees are described by places as well (`Views`): a
packet is held when it is at the reader's place, carried by a connection when it is
at one of that connection's three. A hop within one connection (`Take`, `Write`) is
therefore a stutter, an enqueue is `Accept`, a delivery `Arrive`, the end of a
wire `Lose`; what waits on a closed connection stays with it. `Single` is what
makes this exact: a packet that leaves the reader's place or a wire has no second
copy there that would keep it in the set.

None of these proofs looks at how roles are decided. They are about `AnySpec`, the
client with, besides its own steps, every step `LanesMove` allows: any change of
roles and lives, of many connections at once, as long as who has joined stays
joined and who is closed or draining serves no more. `AnyPolicy` states the result, and
`NoneServesAgain` that the pool's decisions are of this kind: `Serves(c)' =>
Serves(c)` for every listed connection, whichever of the monitor and the reader
decides. A slot that `Pool` uses again is another connection of the data path,
which has as many as it likes. This is an argument about two modules, not a
theorem: no module composes them.

**Rotation.** `Orderly` describes the list: ages never grow along it, since
connections are appended, age alike and are removed without reordering, and only
its first can be the primary, since the first that lives is promoted and a primary
that is rotated out leaves. `Counted` is an account of the faults: each dead
connection and each sample kept that is not the limit was one of them, so that with
fewer faults than a cluster has samples every cluster contains the limit itself
(`NearTheLimit`), which is `NoPhantomLimit`; `OtherAgesOfPart` and
`OtherAgesOfBoth` count in the two lists that `RecordDisconnect` cuts and
joins. `InTime` says that with a standby left the primary is not past the
interval: what the tick finds past it, it rotates. A primary cut by the middlebox
has thus been one for less than the interval, and the rest of its age it was a
standby. The sorted copy of the samples in `tryDetect` occurs only through what it
is used for, the smallest of some samples.

**Relay.** `Works` says what each reader holds, `Listed` that the list of an address
has every registered connection once; removing the first occurrence then removes
all. `Bindings` and `Serving` are the relay's forms of `Aimed` and `Served`: since
closed connections keep their queues, both are about open ones; `OneReader` is
where `SoleCarrier` comes in. `Single` is the same argument about places as above,
and so is `Views`; `SoleCarrier` is not needed for `Delivery`, as a packet has one
reader even if its flow has two.

**Registry.** `AllApproved` says that a row with the status approved, a session
approved, and a request past its check all belong to devices once approved;
deletion and renewal only take from that. `KeysInv` says where the value of the
table's key can be: in the client, or in the one answer it waits for
(`OneIsHeard`). `VipsInv` adds to distinct addresses what a request that has
validated or allocated one still relies on when it writes (`WritesFit`): no device
that is live and not in `returned` (`Sure`) has it. A device on its way back is not
`Sure`, so the step that brings it back changes nothing here (`AddressesKept`). The step
that could take it away is another request's write, and that request would then be
a second one that is `Writing`, which `OneWriter` excludes; polls and refreshes
write keys and status only.

**Console.** `Proper` says which page and device a request belongs to. `StepIs`
lists what a step can be, with the facts each kind leaves behind, and the four
arguments are case distinctions over it. `Attached`: a request that may still
change the page belongs to the component shown; one sent by the page's effect, which
is cancelled when the device changes, belongs to its device too, and so does any
other as long as nothing went `astray`. With `Honest` (an answer is about the device
asked for, and an approval stays) this gives `Shown`, which is `ShowsItsDevice` with
the device of a success added. `Refused`: a 401 was given to a token that is no good
and remains so while the answer is under way, because a token in use is not issued
again. `Recent`: what a load has fetched is at least as recent as the last confirmed
change, unless one was confirmed meanwhile, which marks every request under way;
with it, and `Attached` for whom a load's answer belongs to, `ShowsOwnWrites` is
inductive.

Model-checked only: liveness and everything that needs fairness or ENABLED, which
is outside the proof system's reach (`PrimaryRecovers`, `RetiredLeaves`,
`BuildersEnd`, `ReaderProgress`, `UdpNeverWaits`, `LimitLearned`, `ClosedLeaves`,
`ApprovedComesUp`, `SpinnerEnds`, `SessionRecovers`). Every safety property of a
passing run is stated by a theorem. No module uses RECURSIVE.

## 5. Not modelled, and why

- Byte formats, TUN and routing set-up, logging, the built assets and the handler
  that serves them: no interleavings of their own.
- `connstate.go`: floating-point averages; their verdicts are free inputs.
- `ratelimit.go`, `relay/allocator.go`: on no path of the running system.
- The attempt window of the login handler and password hashing: in `Console` a
  login that is refused for too many attempts is one that fails.
- How many packets a drain loses: `PoolFlow` has the transitions (`Take`,
  `DrainClose`), and `ImplementsDelivery` says that they are packets of that
  connection, but no document promises that there are none.
- Real time in the relay (ping intervals, the 30 s and 10 s limits).
- Modelled, but in no passing run: the administrator's operations "clear" (an
  empty override), "pend" and "rename", and overlapping updates of one device (but for approvals).
  Addresses do not stay distinct under the first and the last; what should happen
  is written nowhere. The devices that come back from a revocation are in the `vips`
  run, but `VipsDistinct` says nothing of them, for the same reason.

## 6. Plan

What is left, in order of importance:

1. A composition of the pool with hello and the relay's registry: source
   addresses, the server's inferred primary against the client's, an address
   changed while a client is connected, a revoked device's open connections.
2. `RelayHeartbeat`: ping, write mutex, blocked reader, in discrete time.
3. Small modules checked against definitions: `ipv4Range` and `allocateVIP`,
   the login limiter's window, the traffic classes of `packet.go`.
4. A drain run that bounds the loss at a rotation; a relay run with two source
   connections that carry one flow; an administrator's overlapping updates.
   Runs are merged (`flow_live` into `flow`) where this needs room.
5. Proofs: a module that composes `Pool` and `PoolFlow`, with the renaming of
   slots that `AnyPolicy` leaves to the reader; `SoleCarrier` weakened to one
   carrier at a time.
