# A TLA+ model of dockd

dockd is a Flask process that pack stations (browsers) use to ship warehouse
orders. It buys a label from ShipRush, tells Sentry (the warehouse system) that
the order has shipped, keeps a durable record of every such write, and retries
the writes whose outcome it does not know. This directory models the parts of
dockd where orders of events matter, checks them with TLC on small instances
and proves the main properties with TLAPS for all instances.

## The system

One process serves all stations, with one thread per request
(`app.run(threaded=True)`) and, when `DOCKD_RETRY_POLL_INTERVAL` is positive, a
daemon thread that retries. Sentry and ShipRush are remote services. Durable
state is one SQLite database (`ship_attempts`, `ship_history`) and several JSON
files (label cache, settings, users). Each station runs a page in a browser and,
on the same workstation, an agent that reads the scale and prints.

| Component | State | Operations | Hard because |
|---|---|---|---|
| `ship_attempts` table (`services/ship_attempts.py`) | a row per idempotency key with its status | insert_pending, mark_success / unknown / rejected, find_recoverable, prune_terminal | marks overwrite any status; survives crashes; limit and order of the retry |
| Pipeline (`services/shipping.py`) | thread-local progress; `ship_history`; `ship_counts` | load_order, ship_order, void, manual_link, reprint, retry_recoverable_attempts | threads interleave at each call; lost answers; crashes between steps; retries of old writes |
| ShipRush client (`services/shiprush.py`) | none of its own | generate_label, void_label | label paid for although the answer is lost |
| Sentry client (`services/backend/`) | HTTP client | get_order, confirm_shipped, void_ship, health | timeouts, typed errors, late POSTs |
| Label cache (`services/label_cache.py`) | history JSON, ZPL files | save, lookup, get_zpl_b64, cleanup_expired | two files rewritten whole without a lock; deaths in between; one entry per order |
| App factory (`app/__init__.py`) | configuration | create_app (boot retry), periodic retry thread | boot retry runs before serving |
| Settings (`services/settings.py`) | settings.json, mtime-keyed cache | all, get, is_country_banned, replace, patch | cache read without the lock; patch reads before it locks |
| Users (`services/users_store.py`, `blueprints/auth.py`, `blueprints/settings.py`) | users.json; roles in cookies | login, logout, add, remove, reset, set_role, change_password | checks are made on a copy that may be stale when written back |
| Backend health (`services/backend_health.py`) | last probe, success, failure count | status | polls wait for the lock with a clock they read before |
| Carrier engine (`services/carrier.py`) | none (rules in settings) | determine_carrier, check_carrier_conflict, resolve_box_dims | rules that pull in opposite directions; each reads the settings anew |
| Station page (`templates/index.html`) | order on screen, scans, picks, dialogs | scan, ship, dialogs, void, softReset | answers in any order, read against a screen that has changed; a reset timer |
| Agent (`agent/agent.py`) | USB, a temporary print file | /scale, /print, /print-html | signed decoding; one file name shared by all prints |
| Server-side scale and printer (`services/scale.py`, `printer.py`), validation, logging, configuration | none that a route uses | | |

They interact so: the page loads an order, reads the scale through the agent and
calls the pipeline; the pipeline reads the settings and the carrier engine
(perhaps it answers with a suggestion, and the page asks again), calls ShipRush
(whose client saves to the label cache), inserts a row, calls Sentry, marks the
row, writes `ship_history`, replies; the page has the agent print. The retry
loop goes from the rows to Sentry and back, past the other steps.

What makes each component correct: rows precede writes, settle truthfully and
finally, and all settle in the end (table); what the operator is told and what
history records is true, a void follows a refund (pipeline); no order leads to
another's label, an undisturbed label stays and can be reprinted (label cache);
no stale read, no change lost to a stale cache (settings); always an admin, and
administration only after a rotation (users); probes spaced and states earned
(health); what is sold is what was chosen and what Sentry is told, and a
suggestion does not lead back (carrier); the request is for the order that was
verified and scanned, with its own picks (page); the label and the weight are
the right ones (agent).

## Modules

| Module | Models | Theorems |
|---|---|---|
| `Operations` | keys, orders and operations the modules share | |
| `ShipAttempts` | the table: one operator per method of the store | |
| `Upstream` | Sentry's order state and idempotency table, ShipRush's labels (external) | |
| `Shipping` | the pipeline, the retry loop, crashes, late POSTs; composes the two above | `ShippingProofs` |
| `WriteLedger` | abstract specification of what the table promises | `ShippingProofs` |
| `SettingsStore` | the settings file and its cache | `SettingsProofs` |
| `UsersStore` | users.json, the cookies, the rotation gate | `UsersProofs` |
| `BackendHealth` | the health monitor | `HealthProofs` |
| `LabelCache` | the label cache, file by file | `LabelProofs` |
| `CarrierRules`, `Carrier` | the carrier engine as operators; the ship request around it | `CarrierProofs` |
| `Station` | the station's page | `StationProofs` |
| `Agent` | the agent's /scale and /print | `AgentProofs` |
| `MC...` and `*.cfg` | instances for TLC | |

Definitions named `Bug_...` are mistakes that a run must detect when they
replace the definition they stand before; no specification uses them. Variables
marked as kept for the properties (visits, counts, `alone`, `calm`, ...) are
read by no guard of an action.

### Shipping and its parts

A request, its idempotency key and the label it buys are one element of `Keys`:
keys are fresh UUID4s, and no route passes one in, so none is shared. `pc[k]`
says where the thread of request `k` stands: `label` (ShipRush is asked),
`refund` (ShipRush is asked to void), `insert`, `send`, `wait` (Sentry is asked),
`mark`, `log`, `reply`, then `done`, or `dead` after a crash.

| Action | Code |
|---|---|
| `ShipRequest`, `GenerateLabel` | `ship_order` up to the label; the refusals that change nothing answer at once |
| `VoidRequest`, `RefundLabel` | `void` up to the refund |
| `LinkRequest` | `manual_link` |
| `InsertAttempt`, `SendCall`, `CallAnswered`, `CallTimesOut` | `insert_pending` and `confirm_shipped` / `void_ship` |
| `MarkAttempt`, `LogHistory`, `Reply` | the marks and error arms, `_log_to_db` / `_mark_history_voided`, the answer |
| `DrainStart` ... `DrainEnd` | `retry_recoverable_attempts`, at boot and periodically |
| `Crash`, `ServeWithoutRetry` | death and restart of the process; `create_app` |
| `LateCallArrives` | a POST whose caller has given up on it reaches Sentry |
| `Prune` | `prune_terminal`, which an operator runs |

`Execute` (Upstream) is Sentry's side of a POST as the client relies on it: a
committed key is replayed, a ship takes an order that is not shipped, a void
reverts one that is, everything else is refused with a typed error or a 5xx.
`Received` then loses or garbles the answer. Sentry's other users (somebody who
reverts a ship by hand) are left out.

`SaveLabel` stands for the label cache: the new label takes the order's entry,
while the entries of other orders may be kept, dropped (a concurrent rewrite,
expiry) or set back to an older label. This allows more than the files do:
`AnswersAreOwn` of `LabelCache`, which is proved, says that an order never leads
to another order's label, and that is what `SaveLabel` rests on. That a
request's own entry is lost shows as `VoidRequest` ending in an error, which it
always may.

Left out here: dockd without a configured backend, rows whose body does not parse or whose operation is unknown
(the loop skips them), failures of SQLite, labels without a ShipmentId, keys
supplied by the caller (no route does), POSTs that arrive late more than once
(Sentry replays them), pruning in the middle of a drain (it concerns rows days
old). Rows created within the same second keep their insertion order.

A retry is *quiet* (`Quiet`, `QuietSpec`) when it reads no row whose request is
still running. The retry at boot always is, as nothing is served before
`create_app` returns (`BootRetryIsQuiet`, proved). The periodic one is when no
request is under way at its tick, which the code does not see to:
`find_recoverable` takes a row whatever its age. `Spec` has both; the three
properties that fail when a retry races the request of a row it has read are
stated, checked and proved of `QuietSpec`.

`WriteLedger` says what the docstring of `ship_attempts.py` promises: a write
is recorded, takes effect at most once and only while its record is open, is
settled truthfully, is acknowledged only when settled, and is forgotten only
then. `Shipping` implements it when retries are quiet and no POST arrives late, through
`RecordState`: pending and unknown are
open; success is `done` when Sentry committed and `moot` when a void found
nothing to revert; rejected is `refused`.

### SettingsStore, UsersStore, BackendHealth

`SettingsStore` follows a thread through `_load`: `Stat` (getmtime),
`CheckCache`, `ReadFile`, `StoreCache`; and through a write: `WriteFile` (under
the lock), `ClearCache`; `patch` merges into what its own `_load` returned. The
cache test is one step because on the CPython the Dockerfile installs (3.11) no
thread switch falls between its bytecodes. Each write has an mtime of its own (it
ends in an fsync and a rename); equal mtimes of two writes are left out, and so
is the disappearance of the file.

`UsersStore` takes each request in two steps, the read with its checks
(`AdminRequest`; `ChangeRequest` and `LoadAgain` for the self-service change,
which reads twice) and the write of the edited copy (`Save`). A session's cookie
keeps the role and the must-change flag of its login. Requests that are refused
change nothing and are left out. A user has one browser, and the reply of a
request follows its write at once.

`BackendHealth` follows a poll: clock read (`Poll`), lock and decision
(`Acquire`), the probe, the snapshot. `outcomes` only records the probes'
answers for `DownIsEarned`.

### LabelCache

Labels are numbered in the order they are bought, so "older than
`max_age_hours`" is `l <= old`, and `Age` lets time pass. `pc[l]` says where the
thread that saves label `l` stands.

| Action | Code |
|---|---|
| `BeginSave`, `WriteZpl` | `save` up to the ZPL file, which is emptied, then written; either may fail |
| `ReadHistory`, `OpenHistory`, `WriteHistory` | the history as `save` reads it, the record and its links, `open(..., 'w')`, the dump |
| `Sweep`, `RemoveExpired`, `OpenHistory`, `RewriteHistory` | `cleanup_expired` at the end of every save |
| `BreakOff` | an `OSError` that leaves `save`, or the death of the process |
| `ReprintRequest`, `ReprintZpl`, `ReprintTracking` | `reprint`: `get_zpl_b64` and a second `lookup` |

Files are emptied and filled in two steps, and what one thread has written comes
to lie under what another writes (`Mixed`: a file that does not parse, which
`save` and `cleanup_expired` take for an empty one). Links of `SO` forms lead where `lookup`
goes without them and are left out; an order's name is the same with and without
`SO`. `alone`, `last` and `suspect` say which saves overlapped, for the
properties that only speak of undisturbed orders.

### CarrierRules, Carrier

`CarrierRules` holds the functions of `carrier.py` as operators: `DetermineCarrier`,
`CurrentCarrier`, `CheckConflict`, `ResolveBoxDims`, `BestFedexOneRateBox`,
`OneRateOverride`, and `_resolve_carrier`'s slots (`LabelCarrier`). A ship method
is the set of the words the code looks for in it; a ZIP or address that the
code classifies as rural or a PO box is an attribute of the order; a rule,
reason or box that the settings lack has the default the code gives it.
`Carrier` is the request: `Ship`, `Resolve`, `Check` (perhaps `Choose` and a
second request), `ApplyOverride`, `BuyLabel`. Each step reads the settings by
several calls, so each reads any of the settings in force since the request
began (`during`), part by part.

### Station

The page is single-threaded; what interleaves is the operator, the timers and
the callbacks. `screen`, `unverified`, `picks`, `dialogs`, `armed`, `pending`,
`lastShipped` are the page's variables of like names, `fetching`, `weighing`,
`sent`, `printing`, `timers` the calls on their way. One action is one handler:
`ScanOrder` / `OrderLoaded` (`fetchOrder`), `VerifyItem`, `ScanBox`, the OB
dialog, `ScaleAnswers` (`processBox`), the three answers of
`doShipRequest`, `LabelPrinted`, the dialogs' buttons, `softReset` by Esc,
pickup or the timer. The server, the scale and the printer are what the page
sees of them: any answer, at any time, or none.

`Dialog[o]` is the dialog that an order's method or total opens and
`FedExMethod` the orders whose method contains "fedex": two independent choices
of `fetchOrder`, so an Amazon or pickup order may be of FedEx too. `byHand` are
the links, reprints and voids on their way. Their own dialogs do not block, but
their success is shown in the dialog of a sale's success (`ByHandSucceeds`) and
takes it away after 2 s (`NoticeEnds`), whoever had opened it.

`visit` numbers the loads of an order; a request carries, for the properties,
the visit it was scanned in and the visit the screen showed when it was put
together. `asked` notes the visit each open dialog was opened about. A pick
(`MakePick`) carries the visit of the dialog, not of the screen, and a suggestion
that is followed (`shipWithCarrier`) leaves in the repeated request the visit it
was made about (`advised`), so that what goes astray shows. `under` are the visits
whose order was loaded beneath a dialog about an earlier one. `calm` is true of an operator who has let every call be
answered before he scans, ships, clears the screen or calls anything by hand.

### Agent

`/print` opens (and empties) the one temporary file, writes it, runs the copy
command and removes it; each step may fail, each may overlap another print's,
and the file may be left over from an agent that was stopped. `/scale` makes up
to three attempts; `Report` takes a reading apart into the bytes of the HID
report and `Weight16` puts it together as the code does. Weights are exact
(1/160000 pound); where `round(weight, 4)` meets the middle between two
neighbours, either is allowed.

## What the runs check

| Run | Instance | Shows |
|---|---|---|
| `quiet` | 3 requests, 1 order, both retries, the periodic one between requests, 2 rows a time, 1 crash | `VerdictsAreTrue`, `SettledIsFinal`, `ImplementsLedger` |
| `poll` | 2 requests, 2 orders, periodic retry of 1 row a time racing them, late POSTs, 1 crash, pruning | `TypeOK`, `WriteAhead`, `AcksAreTrue`, `HistoryIsTrue`, `RefundPrecedesRevert` |
| `live` | 2 requests, both retries, 1 row a time, 1 crash, fairness | `RecoverablesSettle`, `BootEnds` |
| `settings` | 2 threads, 2 fields, 3 writes | `ReadsAreFresh`, `CacheIsCurrent`, `LonePatchKeepsOthers` |
| `users` | 2 users, 2 overlapping requests, 4 writes | `AdminRemains`, `AdminsHaveRotated` |
| `health` | 3 polls, 9 ticks, TTL 2, threshold 2 | `OkIsRecent`, `DownIsEarned`, `ProbesAreSpaced` |
| `labels` | 3 labels, 2 orders, 2 saves at a time, deaths and expiry at any step, a reprint | `AnswersAreOwn`, `LatestIsKept`, `RecentIsReprintable`, `ReprintMatches` |
| `carrier` | 3 settings, 41 orders, 6 box codes, 3 weights, edits at any step | `ChoiceShips`, `CarrierToldIsLabels`, `PoBoxKeepsUsps`, `RuralStaysUsps`, `SuggestionStands`, `OneRateBoxHolds` |
| `station` | 5 orders: with each of the dialogs, without, and an Amazon order of FedEx; 2 loads, 2 box scans, toggles or calls by hand (1.9 million states) | `OnlyVerifiedShip`, `PicksAreOwn`, `DialogsAreAnswered`, `LabelsWithinScans`, `SoldOncePerLoad`, `ClearsTheSold`, `ReprintsLastSold`, `ModeIsFedEx`, `BackToWaiting` |
| `agent` | 2 prints, 1 weighing, readings at both ends of 16 bits | `PrintsAreOwn`, `WeightIsScales`, `RequestsAreAnswered` |
| `retry_safe`, `station_signature` | as small as shows it | a statement of the documents that the code does not keep |

One type invariant is a property of a run (`poll`); those of the other modules
are theorems (`...TypeCorrect`).

Bounds. `Keys` bounds the requests: two are a ship and its void, three are a
ship, its void and the next ship, or two ships and a void; each takes any of the
three operations. `RetryLimit` is 50 in the code and 1 or 2 here, so that the
limit is met. `quiet` is without pruning, `poll` with it (the proofs of
`SettledIsFinal` and of the ledger cover pruning). One crash (`MaxCrashes`) is enough for a boot drain to meet what a
crash left. `MaxWrites` and `MaxTime` are named in the configurations: enough
writes to overtake a reader twice, enough users' writes to change the bootstrap
password, add an admin and demote two at once, enough ticks for the health state
to go down and recover. Three labels are two overlapping saves and one more that
is swept by either, or that finds what they left; two orders are one that is
saved and one that is kept. Two loads of the page's five orders are an order and what
is scanned over it or lands beneath its dialog; two clicks are a second scan, a
toggle or a call by hand. A sale with a second scan and a call by hand beside it
takes three: the run does not reach it, the proofs cover it. Kilograms (unit 3)
are among the readings and no property speaks of them (see below). Deadlock is
not checked in the runs whose bound stops the system (each configuration says
so), and in `Station` nothing stops: the screen can always be cleared.

Fairness. `live` assumes (`FairSpec`) that the retry thread and `create_app` run
(weak fairness: a thread of a live process is scheduled, and every call it makes
has a timeout), and that Sentry, when asked about a row again and again, at last
gives an answer that decides it (strong fairness, an assumption on the
environment: without it a row is retried for ever). `Station` assumes that the
agent answers a print (which `RequestsAreAnswered` shows of the agent, and the
browser reports a lost connection) and that a timer fires. `Agent` assumes that a
request's thread runs, its copy being stopped after 10 s and the device being
polled without waiting. Nothing is assumed of operators, of the server's request
threads or of crashes.

### What the code does not keep

Shown by a run:

* `RetryIsSafe` (`retry_safe`): the retry of a ship is not safe after the label
  has been voided; the order ships under a refunded label.
* `SignatureStaysBehind` (`station_signature`): Esc or CLEAR leaves ADULT SIG
  armed, and the next order ships with it.

Met while modelling; the properties are worded around them:

* A void refunds the order's last label, which after two overlapping ships need
  not be the one the order stands shipped under.
* Between `generate_label` and `insert_pending` (`shipping.py:440`, `:483`) a
  crash forgets a label that is paid for; a late void may stamp the next ship's
  history row (`:719`).
* When the periodic retry reads the row of a request that is still running,
  `SettledIsFinal`, `VerdictsAreTrue` and the ledger fail: the row may be settled
  by its own request and unsettled by the loop. That is why these three are
  stated for quiet retries (and the last two without late POSTs, which can commit
  a write already found rejected). What is left then is `AcksAreTrue`: whoever
  marks last, a ship or link marked or shown as a success is committed.
* A settings patch that another write overtakes takes that write back
  (`settings.py:137`); users' edits likewise, which is why a removed user may
  come back. An admin's reset does not set the must-change flag
  (`blueprints/settings.py:198`).
* A `carrier_override` that is not in `carrier_methods` buys its label but is not
  told to Sentry (`shipping.py:417` against `:458`). "Priority Mail" and
  "Ground Advantage" are USPS to `current_carrier` and UPS to `_resolve_carrier`;
  "FedEx SmartPost" is bought as USPS. An order that is moved from FedEx to UPS
  or USPS keeps its One Rate box, and the choice of FedEx does not fit `OB` and
  `FXENV` into one.
* A rural order in a box that prefers USPS is sent to USPS though it is too big
  for it (the exception in `SuggestionStands`); without a text for
  `DIM_OVERRIDE`, or with one equal to another reason's, oversize is not told
  from the other reasons (the premise of `RuralStaysUsps`).
* A pick answered in a dialog beneath which another order was loaded goes to that
  order (`index.html:941-996`, `:1210-1216`, `:1225-1238`): A's lookup opens its
  dialog, B's late one puts B on the screen under it. `PicksAreOwn` says how far
  this goes, to the last order loaded beneath the dialog. `ModeIsFedEx` leaves such
  an order out.
* A suggestion that comes late is applied to whatever `pendingShipPayload` is by
  then (`index.html:1079`, `:1128-1130`, `:1190-1199`): B may ship with the carrier
  suggested for A. `PicksAreOwn` promises the contrary only to an operator who
  waits (`calm`).
* An Amazon order whose method contains "fedex" keeps the page in FedEx mode after
  UPS or USPS has been picked for it (`index.html:989-995`, `:1210-1216`), so its
  boxes are FedEx's (`KeepsMode`, the other exception of `ModeIsFedEx`).
* The success of a link, reprint or void by hand takes the success dialog of a sale
  off the screen (`index.html:1537-1538`, `:1566-1567`, `:1588-1589`,
  `:1612-1613`), and a box can be scanned again before the timer clears the order.
  `SoldOncePerLoad` is about an operator who waits.
* Rows that stay unknown are read in every pass, oldest first: as many of them as
  the limit and the rows behind them are never retried (`ship_attempts.py:208`).
  `RecoverablesSettle` assumes that Sentry at last decides each row.
* On the page, an answer that comes after the screen has changed acts on what it
  finds: it sets REPRINT LAST and disarms the signature for the wrong order, a
  scale answer names an order that was not scanned, the timer clears the next
  order. The premises of `OnlyVerifiedShip`, `ReprintsLastSold` and `calm` are
  exactly that this did not happen.
* The agent tells kilograms as pounds and a negative weight as one ounce; two
  prints at once at a station may come out as one, mixed, or not at all.

## What is proved

All theorems hold for any finite set of requests, any orders, labels, settings,
limits and bounds, from the assumptions named in the modules
(`...Assumption`). Every safety property and action property a passing run
checks has a theorem.

* `ShippingProofs`, of `Spec`, whatever races. `RowInv` ties `pc`, the retry loop
  and the late POSTs to the rows: a thread beyond `insert` has a row, the loop's
  batch and the late calls have one. `WriteAhead` is not inductive without it, nor
  without `ShippedInv` (what an order stands shipped under). `AnswerInv` says that
  a thread that has seen a 2xx is a committed write; with it follow `AcksAreTrue`
  and `HistoryIsTrue`. `LabelInv` carries the refund of a void from `refund` to
  every later step, the retries included, and `OwnLabelInv` keeps a label with the
  order it was bought for: `RefundPrecedesRevert`.
* `ShippingProofs`, of `QuietSpec`: the ledger. `OwnerInv`: a row that is not
  settled has one owner at a time, its request's thread or the retry that has
  read it. So no mark touches a settled row (`SettledIsFinal`). Without late POSTs
  (a hypothesis) the verdict a thread is about to write agrees with Sentry
  (`TrueInv`), which gives `VerdictsAreTrue` and, step by step, `ImplementsLedger`.
  What the ledger promises of itself, that an acknowledged write is settled for
  good (`LedgerAcksSettled`), then holds of the pipeline: `AcksStand`. For a server
  without the periodic retry the three follow of `Spec` itself (the corollaries).
* `ShippingProofs`, the retry queue. `QueueInv`: rows are numbered apart, in the
  order in which they are inserted. `find_recoverable` returns no more than its
  limit (`FewFound`, by well-founded descent to the youngest row it returns), so
  a batch never holds more (`BatchBounded`); `RetryWork` counts down with every
  step of a pass (`PassesEnd`); and a row that would be read now would be read
  until it is settled (`NoRowIsOvertaken`).
* `SettingsProofs`. `FreshInv`: the mtime a reader carries is never ahead of the
  file and the data never behind that mtime. It gives `ReadsAreFresh` and
  `CacheIsCurrent`; `PatchInv` follows what a patch has read to its write:
  `LonePatchKeepsOthers`. Two copies of one version never
  differ, and a reader's version lies between the file's at the beginning of the
  read and now: a read is atomic although it takes three steps (`AtomicReads`), and
  no thread sees settings go back (`ReadsOnlyAdvance`).
* `UsersProofs`. `AdminRemains` is not inductive, since a stale copy is written
  back; `CopiesInv` adds that each copy has an admin of its own and that its edit
  was allowed on that very copy. `GateInv` says that whoever the file, a
  copy or the cookie shows without the flag has once changed his password, and
  that a change is always of one's own account: `AdminsHaveRotated`.
* `HealthProofs`. Readings of the clock lie in the past, one thread is inside
  the lock, the count of failures is the length of the run of failures that the
  probes so far end in. As probes are spaced, `TTL * Len(outcomes) <= now + TTL`
  (`FewProbes`): what the backend is spared, over any time and number of stations.
* `LabelProofs`. `OwnInv`: every history, in the file or in a thread's hand, is
  sound (records are labels of their order, links lead to a record), so it does
  not matter who writes last: `AnswersAreOwn` and `LinksLead`, for any number of
  saves at a time. `CacheInv`: either a save is alone, and `SaveInv` follows the
  file, its copy and the ZPL from step to step, or every order is suspect; when
  none runs, record, path and ZPL of an undisturbed order agree. It gives
  `LatestIsKept`, `RecentIsReprintable` and `ReprintMatches`.
* `CarrierProofs`. `SortedSidesDecide`: to compare sorted sides decides whether a
  box fits in some position, for all sizes. `Asked`, `ReqInv` and `PackInv` say
  what each stage of a request rests on, settings that were current since it
  began; the six properties of `carrier` follow for all rules, boxes and weights.
* `StationProofs`. `ScanInv` and `RequestInv` tell what a reading and a request on
  its way owe to the visit they belong to; `CountInv` weighs scans against
  labels, the open dialog and the requests on their way; `ModeInv` and `DateInv`
  carry the FedEx mode and REPRINT LAST; `OneAtATime` says that for an operator
  who waits one call is on its way at a time, about the order on the screen.
  `PickInv` follows the picks: each belongs to the visit on the screen, or all orders
  loaded since the one it was asked about came beneath its dialog (`Beneath`), and
  so `RequestInv` has it of every request; the suggestion's part of `PicksAreOwn`
  rests on `OneAtATime`. `SuccessTimed`: the dialog of a success, which bars
  every scan, always has its timer or that of a call by hand; `SalesFollowedUp`: no
  callback takes back the print or the timer.
* `AgentProofs`. Taking a value of 16 bits and an exponent of 8 apart and putting
  them together again gives the value back; a print alone has the file to itself
  from the moment it has emptied it. `StepsRunOut`: every step that serves a
  request leaves fewer to go and no other's takes one back, and a request that
  has made them all has its answer (`NoSilence`).

Only model-checked: the liveness properties (`RecoverablesSettle`, `BootEnds`,
`BackToWaiting`, `RequestsAreAnswered`; fairness and ENABLED are outside the
proof system), and of course the refuted statements. Of each of these liveness
properties the part that is about steps and not about fairness is proved: what
counts down, and that nothing sets it back.

| Checked with fairness | Proved without |
|---|---|
| `BootEnds` | `BatchBounded`, `PassesEnd`: a pass makes at most `RetryLimit` calls |
| `RecoverablesSettle` | `NoRowIsOvertaken`, of quiet retries; `BatchBounded` |
| `BackToWaiting` | `SuccessTimed`, `SalesFollowedUp` |
| `RequestsAreAnswered` | `StepsRunOut`, `NoSilence` |

## Not modelled

* The steps within the page's own dialogs that link, reprint and void by hand (they
  block no scan; what their answers do to the success dialog is in `Station`), its
  error box, its login, and the box codes it accepts (`Carrier` has them). `/print-html`, `/whoami`
  and `/health` of the agent.
* The server-side scale and printer, which no route calls; their decoding is the
  agent's.
* `load_order` (reads only), `ship_counts` (a counter for the page's header),
  failures of SQLite, `write_secrets` (`.env`), the disappearance of a file.
* XML building, message wording, validation, logging and redaction,
  configuration, the CSRF filter and rate limits: no state, or none that an
  order of events could disturb.

What could be added next: `ship_history` and the marks under failing SQLite
writes; what of the ledger holds of a retry that is not quiet, beyond
`AcksAreTrue`; two stations of one agent; `Station`
composed with `Carrier`, so that the suggestion a page is shown is the one the
engine makes.
