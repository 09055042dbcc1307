# PassBudget in TLA+

SEMANTIX PassBudget answers one question: given the contacts of a satellite with its
ground stations in an analysis window, and a queue of payloads, which contact sessions
should the single transmitter serve, and which bytes reach the ground when? This directory
models the parts of the program that decide something over time, checks them with TLC on
small instances, and proves the central ones with TLAPS for every value of the constants.

Paths below leave out `src/src/semantix_passbudget/` (backend) and `src/frontend/src/`.

## 1. The system

### Components, their state and operations

| Component | Code | State | Operations | Correct when |
|---|---|---|---|---|
| Ledger reducer | `domain/ledger.py` | cursor of the session, remaining bytes per payload, recorder occupancy, pending generations and acknowledgements, event log | `run`, `_run_session`, `_advance_to` and its three stages, `_release`, `_open_allocation` | no byte, capacity or storage is counted twice; nothing is sent that may not be; the recorder keeps its limits; it returns |
| Rate timeline, capacity | `domain/queue.py`, `domain/capacity.py` | none (exact fractions) | capacity of a contact, bytes left from an instant, end of a grant | the three computations agree with each other to the tick they round to |
| Session scheduler | `domain/scheduler.py` | none | weighted interval dynamic program | most bytes without overlap, first by the tie-break profile |
| Horizon selection | `domain/horizon.py` | best candidate so far | components, maximal sets, budgets, policies, rollout, choice | EXACT means optimal; a refusal has its cause; the answer is what was scored |
| Analysis service | `application/service.py`, `application/results.py` | none between runs | contacts to candidates, selection by mode, ledger, result document | every document it makes satisfies the tables it is stored in; its sums agree; its gaps are the gaps |
| Catalog | `application/catalog.py`, `adapters/sqlite/catalog_repository.py`, `adapters/memory_catalog.py`, `application/composition.py` | profiles, scenarios, revisions, snapshots, links to runs | create, revise, publish, clone, promote, run, seed presets at start | published content is frozen, pointers refer to published rows, a restart serves again |
| Run store | `adapters/sqlite/repository.py`, `adapters/postgres/repository.py`, `adapters/memory_repository.py`, `application/decompose.py`, `ports/persisted_rows.py` | runs and the rows they are decomposed into; the open transaction of each process; SQLite's write lock | add, get | a run appears whole and at once, is read back as it was given and never changes; an add that fails leaves nothing |
| Schema migration | `adapters/sqlite/schema.py`, `migrations/` | schema version, tables of the file | migrate at every open | each script is applied once, with its record, whoever dies meanwhile |
| HTTP API, CLI | `interfaces/` | none but the services | one handler per operation, body limit | an error leaves nothing half done |
| Domain model, canonical form | `domain/models.py`, `domain/canonical.py` | none | validation, encoding, hash | only valid scenarios reach the engine |
| Contact providers | `adapters/synthetic_contact.py`, `adapters/orbit/` | none | list contacts | (numerical) |
| Comparison, daily budget | `application/comparison.py`, `application/daily_budget.py` | none | read stored results | sums are preserved |
| Browser workspace | `features/scenario/useRunScenario.ts`, `app/workspace/WorkspaceShell.tsx`, `features/library/` | draft, saved baseline, current run, history, calls in flight, bookmarks in localStorage | edit, run, switch, save, load, clone | a result stands beside its own input; "saved" is true |
| Browser views | the rest of `features/` | what they render | | |

### How they interact

The browser calls the API over `fetch`; answers come in any order and may be aborted or
fail. The API runs each synchronous handler on a thread of a pool; the handlers of the
catalog call the repositories several times, and **each repository call is a connection
and a transaction of its own**, so a use case is not atomic. A run reads a snapshot,
calls `RunScenarioService.run` (sequential and pure: contacts → candidates → selection →
ledger → result), stores it, and then links it to its scenario in another transaction.
In QUEUE_AWARE mode the selection calls the ledger as a subroutine, once per combination
of sessions it tries.

### What is hard

* Ledger: three kinds of events that fall due inside an allocation already committed;
  expiry, splitting and storage release that depend on each other; rounding to
  microseconds, down to allocations that take no time.
* Horizon: pruning to maximal sets, whose argument in the code's own docstring is informal.
* Catalog: check-then-act across transactions, calls that fail halfway, restarts that find
  what an interrupted start left behind.
* Run store: two processes that find or insert the same profiles, scenario, revision,
  snapshot and manifest, in a tier where one writer waits for the other (SQLite) and in one
  where only UNIQUE constraints order them (PostgreSQL); statements that fail, answers that
  are lost, processes that die between two statements or two scripts of a migration.
* Result document: keys, references and checks of a dozen tables that the service never sees.
* Workspace: closures that hold the draft of the render they were created in over awaits.

`PROJECT.json` lists these as hazards, each at its line.

## 2. Modules

```
SessionContract, Lexical ── Ledger ── LedgerSafety ── LedgerProperties ──┬── MCLedger ── (MCSessions)
                               │                                Sums ──┘ └── LedgerProofs ── SumTheorems  (TLAPS)
                               └── Horizon ── Analysis ──┬── AnalysisProperties ──┐
Lexical, Sums ── Selection ──────────┘                   └── ResultDocument ──────┴ DocumentProperties ──┬── MCAnalysis ── (MCSessions)
                                                RunRows, DailyBudget (INSTANCE) ──┘                      └── AnalysisProofs ── LedgerProofs  (TLAPS)
Sums ── RateTimeline ── RateLink ──┬── MCRateLink
             │                     └── RateLinkProofs ── SumTheorems, SessionContract (INSTANCE)  (TLAPS)
             └── MCSessions (INSTANCE, for MCLedger and MCAnalysis)
Catalog ── CatalogProperties ── MCCatalog
                   └── CatalogProofs  (TLAPS)
Decompose, RunRows ── RunTables ──┬── SqliteRuns ───┬── RunStore ── RunStoreProperties ── MCRunStore
                                  └── PostgresRuns ─┘       │              ├── RunStoreProofs ── RowsProofs  (TLAPS)
                                                            └ RunRegister (INSTANCE, refined)
Workspace ── WorkspaceProperties ── WorkspaceSafety ── MCWorkspace
                                          └── WorkspaceProofs  (TLAPS)
Optional: the elements of a list that may be missing; used by RunRows, DailyBudget, Decompose
```

* **Sums** – sums as recursive functions, which a proof can reason about where it cannot about
  the folds of the community modules. **SumTheorems** – what is proved of them.
* **Lexical** – the lexicographic order of tuples, which every tie-break of the program is.
* **Ledger** – `_Reducer`. The program is sequential: `pc` names the loop the code is in and
  an action is one pass of one loop. `StartSession`, `EndSession`, `JumpToReady`,
  `OpenAllocation` are the branches of `run`/`_run_session`; `BeginInstant`,
  `IngestDelivery`, `BeginRelease`, `Release`, `EndRelease`, `Generate`, `EndInstant` the
  stages of `_advance_to`; `Close` the final notes. The scenario `sc` is a variable chosen in
  `Init`, so one run covers a space of scenarios, and a proof covers all of them. The rate
  arithmetic is two constant operators, `BytesLeft` and `GrantEnd`, of which only bounds are
  assumed: those of **SessionContract** (`SessionOK`), which the rate arithmetic is proved to keep.
* **RateTimeline** – `round_half_even`, `unreserved_spans`, `allocation_end`,
  `rate_bytes_remaining`, `calculate_contact_capacity`, with fractions kept over a common
  denominator. Its loops over segments and reserves are recursive functions, and
  `allocation_end` is told by what it finds: the first piece by whose end the bytes are sent.
  **RateLink** is one session driven through them grant by grant; **MCSessions**
  gives the result of this arithmetic to Ledger as `BytesLeft` and `GrantEnd`.
* **Selection** – the pure algorithms on candidates: weighted intervals, conflict components,
  maximal sets and their count, the two greedy policies. The table of the dynamic program, the
  sweep and the descent of `recurse()` are recursive functions, and a sorted list gives each
  place the candidate with that many before it, which is what the proofs reason about.
* **Horizon** – both strategies. A rollout (`BeginRollout` … `Scored`) is a complete behaviour
  of Ledger on the session sequence in question, not a call of a summary.
* **Analysis** – `RunScenarioService.run`: candidates from contacts, blocked stations, network or
  queue-aware selection, and the reducer run that is reported. `AnalysisProperties` adds the
  step `Consult`, the reference: it rolls out every feasible selection the search skipped.
* **ResultDocument** – `_result_content` and `_stages`: the contact results with their evidence
  grades, sessions, allocations, the merged event log and its total order, metrics, warnings,
  gaps and stage counts of a finished analysis, in the shape RunRows takes. **DailyBudget** is
  `application/daily_budget.py` over that document.
* **Decompose**, **RunRows** – what the stores make of a run before they write it: profiles,
  stations and payloads of the input (`decompose_snapshot`) and the rows of the result
  (`result_rows`). One definition serves both uses: `store` writes such rows, `analysis` checks
  that the documents the service makes satisfy the constraints on them.
* **RunTables**, **SqliteRuns**, **PostgresRuns** – the committed rows `db`, the rows each open
  transaction has added `tx`, and `at`, the statement each process executes next. SQLite's
  `add` holds the write lock from BEGIN IMMEDIATE on, and so its find-or-inserts are one action
  each; in PostgreSQL every select and every insert is an action of its own, and an insert waits
  for an open transaction that has inserted the same key (`WaitsFor`) and fails if that one
  commits. `migrate` is `ReadVersion`, `RefuseNewer`, `Apply` (with its record) and `Opened`.
  `get` is four reads of READ COMMITTED tables, between which others commit.
* **RunStore** – both tiers under one specification, with `StatementFails`, `Busy`,
  `LostAnswer`, `Crash` and `Restart`. **RunRegister** is the abstract specification: a map from
  identifiers to runs, to which a run is added in one step, and a reply for each client.
* **Catalog** – an action is one repository call with the code around it; `job` holds what a
  thread has read and where it will go on. `CallFails`, `Crash`, `Restart` come between any
  two. `durable` distinguishes the SQLite tier (with its UNIQUE numbers) from the one in
  memory. Profiles and scenarios share one set of actions, as they share one lifecycle.
* **Workspace** – the functions of the run hook and of the library, cut at their `await`s.
  `calls` and `tasks` are the continuations, with the values their closures captured; `mount`
  separates instances of the library panel. The server is reduced to the rows the browser
  refers to.

## 3. Runs

| Run | Space | What it shows |
|---|---|---|
| `ledger` | 10 ticks, 2 sessions of 4 pairs of rate plans, 3 payloads, 3 recorder regimes | 13 properties: books of bytes, capacity and storage; permission to send; order of each payload's record; nothing that could be sent is left; termination |
| `ledger_anticipated` | the same | *violation*: storage is freed before it is free (finding 1) |
| `rate_link` | 9 contacts × 38 plans around a window | the three rate computations against a tick-by-tick reference; half a tick of drift per grant at most; what is credited on whole plans is deliverable |
| `rate_usable` | the same | *violation*: capacity credited that the session cannot carry (finding 2) |
| `catalog` | 2 threads, 1 head, 2 revisions, 1 snapshot, 1 run, a content that validates and one that does not | lifecycle rules in every interleaving of repository calls |
| `catalog_restart` | both tiers, 2 presets sharing a profile, 1 client, 2 faults | seeding never makes a later start fail |
| `catalog_presets` | as `catalog_restart`, SQLite | *violation*: a preset stays incomplete for ever (finding 3) |
| `analysis` | QUEUE_AWARE: 8 offerings of one to six out of 14 contacts (known, unknown and unproven rates, outside and across the window, two of one key), 3 payloads, both strategies, with and without a recorder; NETWORK_ONLY: every set of at most 4 candidates on 3 ticks | the selection is optimal (no deadlines, no storage that fills) and maximal; each interval algorithm equals its definition by brute force; the document can be stored exactly when none of three named causes forbids it; its sums and its gaps are right |
| `analysis_deadlines` | 2 candidates, payloads with deadlines | *violation*: EXACT is not optimal (finding 4) |
| `workspace` | 2 contents, 1 edit, 3 submissions or switches, 2 library operations, 2 openings of the panel | results beside their input, superseded answers dropped, progress and saved marks true, a run settles |
| `workspace_scenario` | the same | *violation*: a draft put back beside another scenario's result (finding 5) |
| `store` | both tiers, 2 processes, files of schema versions 0–3, 6 runs, 2 adds, 1 get, 1 fault | the store implements the register; its tables are consistent at rest; adds fail only for a cause; no two adds wait for each other; a file holds the scripts it says it holds; every call ends |

Deadlock is checked only in the two Ledger runs, where `Finished` is the one state that may
stay. The other systems really stop: a session or an analysis ends, clients have asked for
all the bounds allow, a file of a newer build is never opened.

### Why the bounds are enough

* *ledger*: three payloads are what a wait (`after`), a competitor for the recorder and a
  split need at once; two sessions, touching or apart, are what "split over sessions",
  "expired in between" and "idle between" need. The plan `instant` carries four bytes in a
  tick, so that allocations round to no time; `uneven` has a reserved tick and a change of
  rate; acknowledgements arrive before, during and after the transfers.
* *rate_link*: contacts start before, at and after the window and end inside and after it;
  plans have one, several or a silent segment, reserves in any order of time, guards and
  a byte reserve. Two units make a byte, so fractions of a byte and of a tick occur.
* *analysis*: the budgets are constants of the model (5 sets, 4 combinations, work 20) so
  that offers exist that meet and exceed each of them. The NETWORK_ONLY candidates have equal
  intervals, equal weights, nested, chained and touching intervals. The search space, not the
  scenario, is what the reference enumerates: with six candidates there are 2^6 selections.
  The days of the budget are half the window (`DayLength` 5), so that sessions start on both
  days and cross midnight. The offerings with a recorder have one that is never full: events of
  the storage and the queue then fall on one instant, while optimality still holds.
* *store*: two inputs of one shape (which share revision and profiles and differ in their
  snapshot), one of another revision under the same engine key, one that breaks a constraint of
  its input and one that breaks a constraint of its result; the same identifier is offered to
  both processes. Two adds are a race, a get beside one add is a torn read if there is one,
  and every statement can be the one that fails. Two processes and one fault are what a
  migration needs to be overtaken, or to be left half done and resumed. Version 3 is a newer
  build's.
* *catalog*: every race of the lifecycle is between two requests for the same head; a third
  thread adds nothing a fault or the other order does not. Stable keys collide since there is
  one. Two presets that share a profile make the second seeding find the first one's rows.
  Faults are bounded by two: one leaves a remainder, the second interrupts its repair.
* *workspace*: a third submission separates "superseded" from "newest but one"; two library
  operations overlap once the panel is closed and opened again; a history of two fills.

### Fairness, and why the code justifies it

* `Ledger!FairSpec`: weak fairness of the step: a sequential program runs on until it returns.
* `Catalog!FairSpec`: a thread in the middle of a request goes on (SQLite's `busy_timeout`
  turns a lock into a wait or an error, and an error is `CallFails`); seeding goes on; a
  process that is down is started again by whoever runs it, without which nothing could be
  promised. Clients owe no request.
* `RunStore!Spec`: some process takes its next statement while one can. Nothing stronger is
  needed, since calls are bounded; nothing weaker would say that `add` is a loop-free program.
  That SQLite is busy beyond `busy_timeout` is a fault, bounded like the others.
* `Workspace!FairSpec`: only that a `fetch` of a run is answered, fails or is aborted.
  Library calls may hang for ever, the user need not do anything.

## 4. Findings

1. **Releases are anticipated** (`domain/ledger.py:544`). `_run_session` releases at the end of
   an allocation before the events pending *inside* it are applied, so an object generated
   meanwhile is admitted against storage that is not free yet.
2. **Credited capacity** (`domain/capacity.py:79`). Segment offsets are counted from the guarded
   contact in one file and from the clipped session in the other.
3. **Incomplete presets** (`application/catalog.py:401`). The head is taken for the preset.
4. **EXACT is not optimal** (`domain/horizon.py:530`). With deadlines, leaving a session out can
   be better than every maximal selection: a payload that is late in any case, sent early,
   changes which atomic payload starts next. A recorder that fills up has the same effect. The
   docstring's argument holds where the run `analysis` is restricted to: no deadlines, and
   storage that never refuses.
5. **A save brings back a scenario left** (`features/library/ScenarioLibrary.tsx:73`).

Seen while modelling and not made runs of:

* *Catalog*: two requests that publish one draft both succeed, and the second changes
  `published_at` (`application/catalog.py:173`, against line 6 of its docstring); a snapshot is
  stored as VALID before its content is validated (`interfaces/api/app.py:365`); the in-memory
  tier has no constraint on revision numbers.
* *Results that cannot be stored* (the right-hand side of `ResultStorable` names them): a
  known rate on evidence UNKNOWN, or a contact of unknown rate outside the window, gives a row
  whose grade and status the tables refuse together (`domain/capacity.py:20-27`,
  `db/sqlite/schema_v1.sql:326-331`); two contacts of one key, which `validate()` lets in
  (`domain/models.py:874-884`), give two rows of one stable key; an allocation that rounds to no
  time has equal start and end (`schema_v1.sql:411`). An input with two payloads of
  equal `queue_sequence` cannot be stored either (`schema_v1.sql:207`).
* *Service*: a blocked run selects sessions over the other stations and lists them, under a
  comment that says it "selected nothing at all" (`application/service.py:520`); its sums are
  null, and so `daily_budget`'s "always sum back" does not hold for it.
* *Run store*: rows of a revision are shared by inputs of one shape, so that the stations and
  profiles a second run is filed under describe the first run's input
  (`adapters/postgres/repository.py:3-6` says they are the run's); an engine manifest is found
  again by a key that does not name the provider (`adapters/sqlite/repository.py:456`); in
  PostgreSQL two first adds of one fixture end in a conflict where SQLite waits, and two
  transactions may file two revisions of one hash; `get` there returns no result document and no
  raw input; `migrate` of two processes on a new file can fail in one of them with "table
  exists", against "Safe to call on every open" (`adapters/sqlite/schema.py:96`), and succeeds
  when tried again (`SchemaWhole`); a run is stored and linked to its scenario in two calls.
* *Ledger*: an acknowledgement inside an allocation gives an object back before the modelled
  end of its transmission.
* *Workspace*: a load replaces edits made while it was in flight (`ScenarioLibrary.tsx:126`).

## 5. Proofs

`LedgerProofs` proves, for every set of payloads, every set of scenarios that validation lets
through, and every rate arithmetic that stays within a session:

| Theorem | Property |
|---|---|
| `TypeCorrect` | `TypeOK` |
| `Transmitter` | `OneTransmitter` |
| `Atomicity` | `AtomicNotTorn` |
| `Permission` | `SentOnlyWhenAllowed` |
| `StorageLimits` | `OccupancyWithinLimits` |
| `Reclamation` | `CompleteObjectsLeave` |
| `Conservation` | `BytesConserved` |
| `Capacity` | `CapacityNotExceeded` |
| `Occupancy` | `OccupancyAccounted` |
| `Settlement` | `AcknowledgedSettled` |
| `LifeTold` | `LifeInOrder` |
| `Exhaustion` | `NothingLeftUnsent`, an action property |

*Assumptions*: payload keys are positive numbers (their places in the order of the keys) and
finitely many; `None` is no integer; scenarios satisfy what `Payload.validate`,
`StorageConfig.validate` and the scheduler guarantee (`ScenarioOK`, `SessionsOK`). The latter
says of the rate arithmetic that a grant ends in its session and that the bytes a rate-driven
session has left do not grow as time passes. TLC evaluates all of them for the scenarios and the
timelines of the runs.

*Argument*: none of the properties is inductive alone. For the first six, `Inductive`
(LedgerSafety) adds that the input is valid (`InputOK`), where the reducer is (`Position`: inside
the session it runs), how far each payload is (`Progress`: a
completion instant is set with the last byte; what is not admitted is untouched; an atomic
object is whole or gone), that allocations lie behind the cursor (`Behind`, from which the
order of the transmitter follows when one is appended) and, for TX_END, that a complete object
is released or about to be visited (`LeavingUnderTxEnd`). One lemma per action states its
effect; one step per action and conjunct shows that it is kept. `InputOK /\ Fresh => Inductive`,
`Inductive /\ [Next]_vars => Inductive'` and `Inductive => P` then give each theorem.

The other six follow in the same way from `Books` (LedgerProperties), which is inductive given
`Inductive`. `Course` says what the code takes for granted between its loops: sessions are taken
one by one, everything pending up to the cursor has been applied, no completion lies ahead.
`WholeChunks` is why an offset is a chunk's: while bytes of a payload are left, only whole chunks
have gone. `CapacityBooks` counts what the open session may still grant (`StillOpen`) with what
all granted, since a bound on what was granted alone says nothing about the next grant.
`RecorderBooks` adds to the sums that the occupancy is the last of the levels in the event log,
which is how peak and breach stay its greatest. `AcknowledgementsHeeded` says where an
acknowledgement is between its arrival and its effect: due, about to be collected, or dated
before its object. `LifeSoFar` ties the record of a payload to the sets it is in, so that a
second admission or an allocation after a release would contradict it. Sums over sequences are
proved by induction in set form: the set of lengths for which a fact holds contains 0 and the
successor of each of its members (`NaturalsBySteps`, from the least element of a set of
naturals), which needs no operator for a parameter.

`RateLinkProofs` proves, for every set of contacts and of profiles, every window and every common
denominator:

| Theorem | Property |
|---|---|
| `RemainingIsTicks` | `RemainingCountsTicks` |
| `DriftStaysBounded` | `DriftBounded` |
| `CreditIsDeliverable` | `CapacityDeliverable` |
| `SessionsMeetContract` | no property of a run: `SessionOK`, the assumption of LedgerProofs |

*Assumptions*: a byte is a positive number of units; contacts and window are instants; segments
and reserves are spans, and segments follow each other (`PlanOK`, weaker than
`CapacityProfile.validate`: segments may leave gaps, reserves may overlap).

*Argument*: the code cuts a segment by one reserve after another and adds up what the pieces
carry; the properties walk the session tick by tick. The bridge is a sum over ticks of the rates
of the pieces that hold the tick: a cut changes it exactly on the ticks of the reserve
(`CutSpansOf`, `CutsSum`), and the pieces of all segments together hold a tick once, at the rate
of its segment, if it is unreserved, and not otherwise (`ActiveOf`, `SharesSum`), because segments
follow each other. So `UnitsAreTicks`, and the first theorem. For the drift, a grant ends in
the first piece by whose end its bytes are out; up to there the link carries what the pieces
before carry and a part of this one, and rounding to the nearest tick moves the end by half a
tick at most (`RoundsToNearest`, `CarriedBy`). The invariant is `Inductive`: the session is where
its contact put it, the cursor inside it (`Reached`), and the drift is bounded by the grants made
so far; idle time only adds to what the link could carry. `SessionsMeetContract` is where two
components meet: `GrantEnds` and the monotony of the sum over ticks give what Ledger assumes of
`BytesLeft` and `GrantEnd`, so that, with `SegmentCarried` for the capacity, nothing about
rates is left to assume. The theorems about the reducer hold of it as it is wired in the program.

`AnalysisProofs` proves, for every set of candidates an analysis can offer, however many:

| Theorem | Property |
|---|---|
| `NetworkSelectionExact` | `MaximumExact` |
| `SearchIsComplete` | `SearchComplete` |
| `AnswerLeavesNoRoom` | `AnswerMaximal` |
| `GapsAreExact` | `GapsExact` |
| `EveryRunIsSound` | the ten invariants of the reducer that LedgerProofs proves, wherever an analysis runs it |
| `EveryRunLeavesNothing` | `SessionExhausted`, the step of `NothingLeftUnsent`, likewise |

*Assumptions*: those of LedgerProofs, and that a contact that becomes a candidate is an interval
that is not empty, with capacity (`ContactsAssumption`: `TimeInterval` refuses an interval that
does not start before it ends, the rest is what `calculate_contact_capacity` and
`candidates_from_contacts` leave). The first theorem has the hypothesis that keys tell
the offered candidates apart (`KeysApart`), the others that start, end and key together do
(`StartsApart`). Nothing in `validate()` rejects two contacts of one key, so this stays a
hypothesis and is not an assumption; the runs offer contacts that satisfy it. The reference
step `Consult` writes only what the properties compare with; `AnswerMaximal` needs no
reference, and is a theorem of `ASpec`.

*Argument*: the sort keys are strict orders (`TieOrders`, `EndOrders`, `DensityOrders`,
`StartOrders`), and in a strict order of a finite set every place is taken (`EveryPlaceTaken`), so
a sorted list is what it should be (`Items`). For the dynamic program, `BestNext`: if the table
holds the best selection of each beginning of the list, in weight and then in tie-break, it does so
one candidate on, since what can stand beside a candidate is what ends by its start, a
beginning of the list (`InTime`). Both halves of "best" have to pass through adding a candidate:
the weight adds up (`WeightGrows`), and of two selections the one whose keys come first still
does (`FirstPassesOn`, `WinsWithOneMore`), which is where it counts that the candidate added is
later than all others.

For the search, `Packs` says that a selection is feasible and leaves no room. A selection
packs the candidates after an instant exactly if its first session is one of `Viable` and the rest
packs what is after that session's end (`PackStep`); a descent over instants (`DescentDefined`,
`ByDescent`) carries this to all of `MaximalSets` (`MaximalSetsPack`), and to the number of sets
(`AppendedCounts`, where distinct first sessions give distinct sets, `DisjointUnion`). The sweep
keeps that closed components end before whatever is still to come (`SweepNext`), so components do
not overlap (`ComponentsSplit`) and one packing for each joins to a packing of the whole, and
conversely (`JoinedPack`, `LeftSplits`). The greedy schedules pack because what they pass over
overlaps something they kept (`GreedyPacks`), the maximum because a candidate that fits would add
bytes (`PackedIsMaximal`). The invariants of the analysis are `OffersMade` (what the search
works on is what the contacts gave) and `SearchPacks` (what it has tried, holds as incumbent, or
answers, packs the offer).

For the gaps, a sort of positions gives each position of a list once (`PlacesInOrder`, which is
also why intervals may be equal), so the sorted list is the intervals themselves. The invariant of
the loop (`SeenTo`) is that of the intervals seen so far `end` is the latest end and `gap` the
length of the longest bare run before it. When the next interval starts later, the run between is
bare and bounded on both sides by covered ticks, so no longer run contains it (`GapOpens`); when it
does not, it covers nothing before `end` that was bare (`GapStays`), although it may nest
or be equal. That a finite set of numbers has a least and a greatest
member (`LeastAndGreatest`) turns the reference's `Min` and `Max` into the loop's values.

The last two compose the components. LedgerProofs speaks of a reducer that starts on a scenario
of its constants; an analysis starts it again and again on sessions it has computed. So the
invariants of the reducer hold from any fresh reducer (`Fresh`, `_Reducer.__init__`) on valid
input (`InputOK`), and are kept by every step from there (`InductiveStep`, `BooksStep`). What is
left is that the search hands over valid input: a selection that packs the offer, in the order of
starts, is a list of sessions each of which ends before the next starts (`SelectionServable`),
`FreshReducer` is `Fresh` on it (`ReducerIsFresh`), and nothing else of an analysis touches a run
in progress (`RunsKept`). Here `ContactsAssumption` has it that a contact credited in a
QUEUE_AWARE analysis keeps the contract of a session, which is `SessionsMeetContract`.

`WorkspaceProofs` proves, for every set of contents, every length of the history, and any number
of edits, submissions, switches, library operations and openings of the panel:

| Theorem | Property |
|---|---|
| `ResultsBesideTheirInput` | `ResultOfItsInput` |
| `SupersededDropped` | `LateAnswersDropped` |
| `PhaseOfTheNewest` | `ProgressReal` |
| `SavedMeansStored` | `SavedIsStored` |

*Assumption*: a blank draft and a preset are contents, and the history holds at least one entry
(`WorkspaceAssumption`). The bounds of the model are unconstrained.

*Argument*: the invariant (WorkspaceSafety) has two parts. `Runner`: of the calls in flight at
most one is current, that one is not aborted and was submitted after the last switch
(`CallsApart`); a call that has its run, and everything shown, has that run on the server with
its content (`RunsComputed`); what is in the history was submitted earlier than, and is not,
whatever still awaits an answer (`HistoryBehind`). Without the first, an aborted call could end
with the phase left "submitting"; without the last, a result could enter the history behind a
newer one. `Library`: a task that goes on with a revision goes on with one that exists and that
holds the draft the task began with (`TaskSound`), and what counts as saved is a revision of the
scenario the draft is saved as (`BaselineStored`). The steps of the server share one lemma each
way: scenarios only grow (`GrowsTo`), and what is stored stays stored (`StaysStored`).
`getScenario` answers with a revision because a bounded set of numbers has a greatest element,
which is proved from the well-foundedness of the naturals.

`RunStoreProofs` proves, for every set of processes, of runs and of file versions, and without
the bounds on calls and faults:

| Theorem | Property |
|---|---|
| `SchemaStaysWhole` | `SchemaWhole` |

*Assumptions*: `None` is no process; the version of a file is a natural number.

*Argument*: `migrate` reads the version on a connection that holds nothing, so what it goes on
from may be stale. The invariant (`Migration`) says that what was read is never newer than the
file (`ReadBefore`), and that it is exactly the file's version once the script's first CREATE
TABLE has succeeded under the write lock: a file that had moved on would hold that script
(`ApplyKeeps`, with `NextScript`). From there the lock keeps it so until the record is
committed (`RecordKeeps`). Conversely whoever finds its table made knows less than the file
(`Overtaken`), and goes on knowing less, as versions only grow. Every statement of `add` and
`get`, on both tiers, is `Quiet`: it touches neither the schema, nor a lock of another process.

The same module proves, for every set of processes and of runs, and without the bounds:

| Theorem | Property |
|---|---|
| `AddsNeverCross` | `NoWaitCycle` |

*Assumptions*: those above; stations and payloads of an input are finitely many, keys
are their places in the order of texts, and a chunk size is positive (`RunsAssumption`, from
`Payload.validate`); a client offers runs of `Runs`.

*Argument*: a transaction has rows only in the tables its statements have come past (`Taken`), so
two that wait for each other are both at their profiles. There the invariant (`Turns`) says that
what was inserted is a beginning of the input's list of profiles and what is still to do the rest
of it (`DoneInOrder`). The list ascends strictly by kind and key for any input (`ProfilesAscend`:
the k-th element of a finite ordered set exists because the numbers of elements before each are
distinct, `EveryPlaceTaken`), and a key tells its kind whatever the input (`KindOfKey`); so each
transaction's next profile would come both before and after the other's (`NeverCrossed`).

`RowsProofs` proves, for every set of processes and of runs, on both tiers, and without the
bounds:

| Theorem | Property |
|---|---|
| `TablesAtRest` | `RowsAtRest` |
| `FailuresHaveCause` | `FailsForCause` |
| `StoreIsRegister` | `RegisterImplemented` |

*Assumptions*: those of RunStoreProofs, and that the result of a run names only stations and
payloads of the input it was computed from (`RunsAssumption`, `Resolvable`). What is proved is
that sharing a revision with the runs of other inputs does not lose them. The register also
needs that an annotation, an event and a metric name what is there, for the code stores NULL
where one does not (`.get`), and that two runs do not share an identifier, a uuid4
(`ResultsAssumption`); run `analysis` checks the former of computed results
(`ResultStorable`, `ReferencesResolve`). Identifiers and replies are not `None`
(`IdsAssumption`, `RepliesAssumption`).

*Argument*: the property speaks of committed rows, which are only ever what a transaction held
at its COMMIT, so the invariant (`RowsHold`) speaks of both. `Stored` is `RowsAtRest` with what
its proof needs besides: rows come with the row they belong to (`Whole`), a revision has exactly
the stations and payloads that its hash counts (`Named`), numbers have no gap (`Gapless`), an
identifier is of one row (`IdsUnique`). `KeysUnique` says that no UNIQUE column holds a value
twice in all that is committed or written by any open transaction: the lock keeps it on SQLite
(`Locked`, so no second transaction holds rows, `LockExcludes`), and the wait for uncommitted
rows on PostgreSQL (`InsertFree`). `Writer` follows one transaction through its statements: what
it has inserted is its own and of one call (`Own`, `Fresh`), and what it remembers of earlier
statements still holds of what it sees (`Knows`): nothing is ever deleted, so what was found
stays found; what was *not* found may be there by now, which is why nothing remembers that.
The revision number is the one exception: it was counted, and other transactions may have
committed since. Then its number is taken, and the insert refused; a number that is at most the
next one and is not taken is the next one (`NumberNext`, `InNumber`), and no other open
transaction has it (`NumberKept`). Every step either gives a transaction up, makes it
visible, is outside of transactions, or adds rows to one (`StepKinds`); each kind is a lemma, and
each statement of each tier one more (`SqliteKeeps`, `PostgresKeeps`). On PostgreSQL the
clauses under `OneWriter` are not claimed, as in the property.

For the causes, `KnowsRevision` says that the stations and payloads a transaction has
identifiers for are those of its input: it read them from a revision of the same hash, whose rows
are `Named`, or made them. So the lookups of `_write_results` find what the result names
(`RefusalsBlamed`). A conflict needs a committed row that the call did not write, so two calls
(`Counted`); the rest of a cause is a condition on the call itself or on rows, which stay
(`BlameStays`).

For the register, `Kept` says of a set of tables that a run is there with its stages, document
and rows, and that reading them back gives what was stored. It holds when the rows of a
transaction that has written its run join the committed ones (`LaidKept`: an identifier that
`_write_results` put for a key is turned back into that key, `KeyRead`, `NameFound`), and it
goes on holding when rows of other runs join (`KeptGrows`): the reads select by run, and names
of stations and payloads, which are read over every revision, are found by identifiers that
only one row has. The invariant (`RunsHold`) says that every committed run is kept, that a
transaction at COMMIT has laid out all of its run (`Laid`) under an identifier that nobody
has committed and no other open transaction has inserted (`Sole`), and that a `get` between two
statements holds parts of a run that is still there unchanged (`ReadSoFar`). Then every step
either leaves the committed rows and answers, or commits the one run of its process
(`StepEffect`), which is a stutter, `Call`, `Refuse`, `Get` or `Add` of RunRegister
(`KeepsRegister`, `StoresRegister`).

`CatalogProofs` proves, for every set of threads, keys, contents and presets, and without the
bounds on rows and faults:

| Theorem | Property |
|---|---|
| `HeadsPointAtPublished` | `CurrentIsPublished` |
| `SnapshotsStayTrue` | `SnapshotsFrozen` |
| `PublishedForGood` | `PublishedStays` |
| `RestIsSettled` | `SettledAtRest` |
| `NumbersStayGapless` | `NumbersGapless`, on the SQLite tier |

*Assumptions*: `None` is no number, so a pointer to a row is a pointer. The rest of Catalog's
assumptions on its constants are not used.

*Argument*: a use case holds no transaction from its read to its write, so what a thread has read
may be stale. The invariant (`Inductive`) says how stale: head, number and content of a revision
a thread has read are still those of the row, and only its status may have changed, to published
(`JobSound`, `Reads`). So the thread that writes a revision back changes nothing else, and the
one that points a head at it, or copies it into a snapshot, refers to a published one. For rest,
`Settling` says that a scenario without a revision, and a head that should point and does not,
have a thread about to do the other half, as long as no call has failed: only the thread itself
ends its job (`ThreadsMove`). For the numbers, `Counted` says that what a thread has counted is
at most the next number, since no revision is taken away (`CountGrows`); UNIQUE refuses a taken
number, and a number that is at most the next and not taken is the next. The in-memory tier has
no such constraint and the theorem does not hold of it.

*Model-checked only*: `Terminates`, `ServesAgain`, `CallsEnd` and `RunSettles` are
liveness under fairness, out of the prover's reach as is ENABLED. `GloballyOptimal`
compares complete reducer runs of different selections with each other; the proofs follow one
run. `ResultStorable` and `TotalsAgree` speak of rows and sums made with operators that take
operators (`SelectSeq`, `SortSeq`, `MapThenSumSet`), which no installed prover can expand.

## 6. Not modelled, and why

Orbit propagation (floating-point numerics), canonical encoding and hashes, DTOs, the
command line, comparison of two stored documents (pure functions), rendering, scripts: nothing
there happens over time, or nothing a state explorer can add to a unit test. The body limit of
the API (`interfaces/api/body_limit.py`) is a matter of ASGI streaming.

In the modelled parts:

* reason codes are kept where a row or a property needs them, wording is not; durations,
  bundles and the storage timeline of the document are left out, as no row and no sum is made
  of them;
* labels and the archived flag of the catalog (no code sets it); several browser tabs on one
  localStorage; which parts of a draft are editable;
* of the run store: the in-memory tier (a dictionary), the guard triggers of PostgreSQL, the
  pointer `scenario.current_revision_id` (the store never reads it), and columns that no
  reference or constraint reads. PostgreSQL's `add` begins with a whole `get` to see whether the
  run exists, modelled as the one read its answer depends on. The PostgreSQL schema is applied
  by Alembic before the program starts;
* the grade and status columns appear where `run_result_status_grade_ck` can refuse a row.

## 7. Plan

Done: Ledger, RateTimeline/RateLink, Selection/Horizon/Analysis, ResultDocument/DailyBudget,
Catalog, RunStore with the migration and the register it implements, Workspace; every safety
property of the ledger, the rate arithmetic, the workspace, the catalog and the run store
proved, the refinement of the register among them; the maximum, the search, the maximality of
its answers and the gaps proved.

1. Abstract specifications: a ledger that sends bytes under permission (implemented by
   Ledger), and a register of published revisions (implemented by Catalog).
2. The rows and sums of the document restated with recursive functions over positions, as its
   gaps are, and `TotalsAgree` proved of it.
