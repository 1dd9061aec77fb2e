# Alexandria: TLA+ models, TLC runs and TLAPS proofs

Alexandria is a collection of Go modules (`go/`), API contracts, templates and
documents. This directory models the Go modules, from the file lock and the
retry loops to the Google clients, the Pulumi blueprints and the generated
contracts, checks them with TLC on small instances, and proves with TLAPS, for
every instance, the safety of those that keep state (section 4 says what is
left). `PROJECT.json` lists the components, the runs, the mutants,
the hazards, the theorems, and for every definition the source lines it stands
for.

## 1. Inventory

The libraries share no global state and rarely call each other; what they share
is a file system, a clock, a context and the Google APIs.

| Component | State it keeps | Operations | What is hard | What makes it correct |
|---|---|---|---|---|
| `platform/coordination` | none (contract) | `Acquire`, release | - | one occupant, rising fences |
| `platform/coordination/filelock` | `<subject>.lock`, `.fence`, `.lock.reclaimed.*` in one directory, shared by processes | `Acquire` (stage, link, fsync, fence), release, reclaim of a stale record | every pair of system calls interleaves; process and host crash; a call fails half way | mutual exclusion, durable and rising fences, no live record lost, waiters progress |
| `platform/async` Runner | task table, semaphore channel, base context | `Submit`, `execute`, `Prune`, janitor, `Close` | sleeping submitters, panics and `Goexit`, closing in between | slots balance, no lost wake-up, nothing runs when closed, everything ends |
| `platform/async` BatchBuffer | a slice under a mutex | `Add`, `Flush` | the callback runs outside the lock and may fail | no item lost, repeated or reordered in its batch |
| `platform/cache` | a map with expirations | `Set`, `Get`, `Delete`, `Clear`, sweep, `Close` | `Get` changes from the read to the write lock | live entries stay, expired ones go |
| `platform/runstate` Locker | one file per subject, one goroutine per run | `Acquire`, signal goroutine, release | a signal at any point, several locks per process | nobody else's file is removed, the signal is not swallowed |
| `platform/runstate` LeaseStore | one JSON file per subject | `Save`, `Load`, `Valid`, `Consume` | the wall clock is set; no fsync | only a fresh check carries an action |
| `platform/workflow` | the result under construction | `RunWithResult`, `DryRun` | failing, panicking, skipped steps, cancellation | the result is whole and agrees with the hooks |
| `platform/retry`, `retry`, `retry/gcp` | attempt counter, one timer | `Do`, `DoVal`, `RoundTrip`, `WithRetryVal`, backoff, `Classify` | timer reuse, response bodies, overflow, errors with several causes | delays kept and bounded, bodies closed, no retry without a reason |
| `platform/apierr` | none | tables of codes | tables that drift apart | they agree |
| `governance/gate`, `invariant` | rules, builders, a report | `AddRule`, `Evaluate`, `Enforce`, `Verdict` | cancellation, undefined statuses and policies | fails closed |
| `observability/audit/file` | log, one backup, a handle, a counter | `Log`, rotation, `Close`, reading | any step of a rotation fails; crashes; torn lines | the newest entries are kept, in order |
| `google/auth`, `client` | token file, two channels of one slot | consent flow, `ResolveClient`, validators | callbacks in any order, programs that share the file and die | only the own code is exchanged, delegation is never lost |
| `google/workspace/sheets` | remote tabs | `SyncDocument`, `ReplaceTab`, tables, batches, formats | failure between two API calls, two syncs at once; raw and formula cells, ragged rows | a rerun repairs, each cell is written once and where it belongs |
| `google/workspace/drive` | remote permissions, folders, files | `EnsureDriveMembership`, listings, `MoveFile`, `CreateSharedDrive` | list-then-update by several callers; paging over what changes; lost replies | nobody ends below what was ensured, listings are complete, moves exact |
| `google/resourcemanager`, `serviceusage` | remote project, billing, APIs | `CreateProject`, `LinkBilling`, `BatchEnableAPIs` | poll loops against a service that goes on by itself | nil only for what is there; every wait ends |
| `governance/plan`, `hierarchy`, `classification`, `scope`, `exports` | none | validation, constructors | tiers against scopes; blocks with checks of their own | what is accepted has what its tier and scope allow, and what the blocks refuse of it is known |
| `dataquality/datadiff` | none | layered comparison | duplicates, order, values that are not finite | a verdict is that of the mathematics |
| `platform/procrun`, `iac/pulumi/runner` | output files, the selected stack | `Run`, `Environ`, `SelectStack`, `SetConfigs`, `Up`, `GetOutputs` | concurrent calls share files and the selection; values in command lines | a call reads its own output, values stay private |
| `iac/*` blueprints, `gcpinfra` blocks | none; the engine keeps the stacks | `Apply` of six blueprints and twenty blocks | stacks that read each other's outputs, configuration that changes or does not parse | data is kept, projects are placed as documented, names do not repeat |
| `contracts` | none | messages, enums, descriptors, connect stubs | peers of different versions | a call arrives whole where it is meant to |
| `platform/buildstamp`, `web`, `gcpenv`, `passstore`, `slog-gcp`, `discovery` | little or none | parsing, wrapping, layout | - | - |
| `blueprints`, `skills`, `docs` | - | templates, text | - | - |

## 2. Modules

| Module | Models | State and actions |
|---|---|---|
| `Window` | the `Waiter` contract of `coordination` | who is inside, the last fence; `Enter`, `Leave` |
| `FileLock` | `filelock.Store.Acquire`, release, reclaim | the three kinds of files with what a host crash may leave of each, and every caller's program counter; one action per system call on a shared name |
| `FileLockProofs` | - | the proofs; the properties and the inductive invariant are at the end of `FileLock` |
| `AsyncRunner` | `async.Runner` | tasks, submitters, workers, the channel with its queue of sleepers; one action per critical section or channel operation |
| `BatchBuffer` | `async.BatchBuffer` | the slice and the batches in flight |
| `TTLCache` | `cache.Cache` | the entries' expirations, a clock, `Get` between its two locks |
| `RunLock` | `runstate.Locker` | lock files, signal channels and goroutines, several runs per process |
| `Lease` | `runstate.LeaseStore` | real time and the wall clock kept apart, the file and what was consumed |
| `Workflow` | `workflow.Workflow` | a list of steps of every kind, the result and the hooks called |
| `Gate` | `gate.Gate`, `invariant` | rules, a builder that may still change, results, counters, verdict |
| `AuditLog` | `audit/file.FileWriter` and the reader's treatment of lines | log and backup as sequences of entries, whole or torn; one action per system call of a rotation |
| `RetryLoop` | `retry.DoVal` (both versions), `gcp.WithRetryVal` | attempt, timer with its channel, context |
| `RetryTransport` | `retryTransport.RoundTrip` and its caller | request body, response bodies, answer; the base may itself be a retrying transport |
| `BackoffOps`, `Backoff` | the three backoff schedules, `retryDelay`, `calculateDelay` | wrapping arithmetic of a parameterised width |
| `Classify` | `apierr`, `gcp.Classify` | the tables; an error as the set of causes found in its chain |
| `Provision` | `resourcemanager`, `serviceusage` | the project, its billing and APIs on the service, the call in its poll loop; requests whose reply is lost |
| `GoogleAuth` | `google/auth`, `google/client` | the token file, each program's flow with its server and channels; options and `ResolveClient` as operators |
| `DriveMembers` | `EnsureDriveMembership`, `ListDriveMembers`, `DeleteDriveMember` | a drive's permissions as a set of records that the service lists by their numbers, each caller between its API calls with what it saw, what it reports and whether it changed anything |
| `Paging` | `Scanner.Scan` and the listings that collect | what is listed and changes meanwhile, the token, the pages delivered, each a set |
| `DriveFiles` | folders, `MoveFile`, `CreateSharedDrive` | folders, drives with the request each was made for, the answers given, the parents of a file; every call is carried out, refused, or carried out with its reply lost |
| `SheetSync` | `SyncDocument`, `CreateSpreadsheet`, `ReplaceTab` and what they call | spreadsheets as functions from identifiers to tabs (numbered in their order), each sync between two API calls |
| `SheetCells`, `SheetTable` | `table.go`, `batch_writer.go`, `formatter.go`, `theme.go` | operators; a table under construction with rows and widths |
| `Datadiff` | `datadiff` | operators and their reference definitions |
| `GovernancePlan` | `governance/plan` and the value objects it uses | operators; `PlanIsCoherent`, which also asks the blocks, is at the end of `IacBlocks` |
| `IacBlocks` | `gcpinfra/*` | what an `Apply` registers, exports or refuses |
| `IacStack` | the six blueprints, and their stacks under `pulumi up` (external) | what a blueprint's `Apply` registers, exports or refuses; resources and outputs of each stack; `Up` with any of a set of configurations |
| `Procrun` | `procrun`, the command lines of `runner` | operators |
| `PulumiRunner` | `runner.Runner` | selected stack of each project directory, output file of each log directory (by default one for all Runners), each caller's command |
| `ContractCollaboration`, `ContractTypes`, `ContractServices` | the `.pb.go` and `.connect.go` files | what all generated code has in common (messages, getters, the wire, enums, stubs) at the start of `ContractCollaboration`; tables, one definition per message, enum, file and stub; at the end of `ContractServices` a call between a client and a server of any service, with an older peer or a server without the method; with the binary codec, which keeps unknown fields |
| `RuntimeProofs`, `AdmissionProofs`, `RetryProofs`, `WorkspaceProofs`, `SheetProofs`, `DeclaredProofs` | - | the proofs about the compositions of the same names, `SheetProofs` about the syncs of `MCWorkspace` |
| `StackProofs` | - | the lemmas about `IacStack`, its blocks and blueprints and the plan, for `DeclaredProofs` |

`FileLock` is checked as it stands; the `MC*` modules instantiate the others. `MCRuntime`, `MCAdmission`,
`MCRetry`, `MCWorkspace` and `MCDeclared` each put several components side by
side: the components share nothing, so the initial state picks one, the others
stay as they are, and the run explores the state spaces next to each other
under each component's own fairness. Pure functions are checked by letting the
initial state pick an input.

`ContractCollaboration`, `ContractTypes` and `ContractServices` are long because the
code is: they follow the generated files message by message, in a tenth of their lines, so
that what generated code says in three places (struct tags, descriptor tables,
stubs) can be compared.

Definitions whose comment starts with "Mutation of" are plausible bugs; each is
named in `PROJECT.json` with the property that catches it.

## 3. Runs

| Run | Instance | Shows |
|---|---|---|
| `FileLockExclusive` | 3 callers, 5 records, reclaim off, failing calls, one process and one host crash, fences up to 2 | `MutualExclusion`, `FenceDurable`, `FenceRises`, and `Refines`: the store implements `Window` |
| `FileLockReclaim` | 2 callers, 4 records, reclaim on, failing calls, one crash | `IInv` (the invariant the proofs use) and `NoSilentLoss`: the record of a live holder is never lost without a trace |
| `FileLockLiveness` | reclaim on, crash | `WaitersProgress`: a dead holder does not block the waiters for good |
| `FileLockFenceRepeat` (violation) | reclaim on | two overlapping occupants get the same fence |
| `Runtime` | 3 tasks on 1 slot; 4 items, batches of 2, 2 flushers; 1 key, 2 getters, time up to 4; 2 processes, 2 subjects, up to 3 runs, one signal, one kill; up to 3 steps of every kind | Runner: `RunnerSound` (slots balance, a sleeper only when full, what was refused never runs), `RunnerEnds`; BatchBuffer: `BufferSound`; Cache: `CacheSound` (a live entry goes only by the known race), `ExpiredIsRemoved`; Locker: `LockSound`, `SignalEndsProcess`; Workflow: `FlowSound` (the result is whole; plan and run agree) |
| `Admission` | 2 processes, 2 fingerprints, window 1, the clock set once, 2 saves, host crash; up to 3 rules under every policy; a limit of 2 entries, 7 entries, 4 faults, 2 crashes | `LeaseSound`, `GrantsAreFresh`; `GateSound` (fails closed, every rule accounted for), `VerdictsAgree`; `LogSound` (newest entries kept, in order, no duplicates, the writer heals) |
| `AuditLogCreate` (violation) | one failing create | the fallback to the backup costs every entry |
| `AuditLogTorn` (violation) | one crash | an acknowledged entry behind a torn one is unreadable |
| `Retry` | 3 attempts; a 7-bit duration with bases and caps around its edge, 6 delays; errors with every combination of causes; 2 polls, 4 calls, 2 APIs; 2 programs, 2 callbacks each | `LoopSound`, `CallsReturn`; `TripSound` (bodies closed, last answer readable, a fresh request body each time); `DelaySound`; `ErrorSound` (classification and tables); `PollsSound`; `AuthSound`; `WaitsEnd`: polls and consent flows end |
| `Workspace` | 2 callers, pages of 1, 4 permissions; 4 things, pages of 1, 3 and the default, 2 changes; 2 workers, 2 moves; 2 syncs with one lost call; 3 operators, 2 of them in one project directory, with log directories shared or apart | `MembersSound`, `FallsOnlyByRace`, `ListingSound`, `FilesSound`, `SheetsSound`, `StacksSound` (of `PulumiRunner`) |
| `Declared` | 3 updates in any order from a set of configurations of six blueprints and a table block; every procedure of every service; tables of 3 rows; all small inputs of the functions | `StacksSound` (of `IacStack`), `DataIsKept`, `CallsSound`, `TableSound`, `DiffSound`, `ProcSound` |
| `IacDuplicate` (violation) | the same stacks | a service account named twice ends in a duplicate URN |

Why the bounds are enough. The file lock needs three parties for its worst
interleaving (a holder that releases, a newcomer, a reclaimer or second
newcomer), and one more record than that so that identities can be reused; with
reclaim on two callers suffice because a caller that finished starts over.
Fence 2 is the second occupancy, the first that could repeat a fence. One slot
with three tasks has one running, one asleep and one arriving. Seven entries
at a limit of two rotate three times, so that a backup is replaced while a
replaced one existed. The delays are checked at a width where every product
near the edge is enumerated; the theorems of `RetryProofs` lift the schedules
to every width. Pages of one make every listing one of several pages;
two callers suffice where one overtakes the other between its listing and its
update; two syncs with one lost call contain the repair of a half-done sync and
every overlap of two. Three updates are the governance stack, one that reads
it, and a change of either. Two polls have one that comes too early and one that
is the last. Symmetry is used where callers
(or records, workers, processes) are interchangeable and no liveness is checked. `CHECK_DEADLOCK FALSE` is set where the modelled calls
come to an end (all submitted, all returned, bounds used up).

Fairness. Goroutines are scheduled and system calls return (weak fairness on
the steps of a call that has begun); nobody is forced to call anything, to
release or to crash. The janitor's `select` between its ticker and a cancelled
context gets strong fairness, because Go picks among ready cases at random; the
cache worker gets ticks. Task functions, callbacks and HTTP transports are
assumed to return. A poll loop and a goroutine that waits on a channel take
their next step (`time.After` fires, a posted message is received); nothing is
assumed of the services, of the user who is asked for consent, or of the
context. The `MC` modules repeat each component's fairness for the behaviours
that are about it.

## 4. Proofs

The constants are arbitrary: any number of callers, records, tasks, items, keys,
rules, entries, attempts, crashes and so on. The named assumptions
(`FileLockAssumption`, `RuntimeAssumption`, `AdmissionAssumption`,
`BackoffAssumption`, `RetryAssumption`, `WorkspaceAssumption`,
`SheetsAssumption`, `UpsAssumption`, `CasesAssumption`, `DeclaredAssumption`) give the constants their types, keep the "no value" constants apart from values, ask for positive
limits where the code has them, and let a drive have room for its two first
members. `SheetsAssumption` also says that the document at first has sheets of
different titles, as the service demands, and that two literals are strings, which
the provers do not know. `CasesAssumption` says that a configuration is a tree of
the kinds that `DecodeInput` meets, that the context of a program has texts, and
that no stack has the empty name. `PowerAssumption` states of the powers of two up to `MaxShift` that they
are positive and not above the last one, because the provers take `^` as opaque;
TLC evaluates it for the widths it runs with.

Every proof has one shape. The property is not inductive, so a named invariant
is given that is; three lemmas show that it holds initially (`...Init`), is kept
by every action of its component (`...Next`, one step per action) and by the
steps of the components beside it (`...Stays`); and the theorem combines them.
The eight modules have about 430 lemmas and theorems and 15000 obligations.

`FileLockProofs`, of `FileLock`:

- `Invariance`: `Spec => []IInv`. As long as no record has been judged abandoned
  (`Sound`): between the link and the end of its release the record at the name
  is the caller's own (`Held`), staged records are unpublished (`Staged`), nobody
  is taking anything aside (`NoReclaimer`), every state in which the counter file
  may come back covers all the fences handed out (`Counter`), and `advanceFence`
  works on the counter as it is (`Advancing`). With reclaim as well (`Kept`): no
  two callers have one record (`Distinct`), a set-aside name is in use exactly
  during a reclaim (`TombFull`, `TombEmpty`), a reclaim pursues a record that was
  overdue (`Pursued`), and the record of everybody from its link to the end of its
  release is accounted for.
- `TypeCorrect`, `Exclusion`, `Durability` and `NothingIsLost` follow, the last one
  also after records were judged abandoned; `FenceMonotone` is the action property
  from the same invariant.
- `Refinement`: with reclaim off every step of the file lock is an `Enter`, a
  `Leave` or a stuttering step of `Window`.

`RuntimeProofs`, of `MCRuntime`:

- `RunnerIsSound` from `RunnerInv`: the semaphore is the number of tasks that hold
  a slot; a sleeper is in the channel's queue once, so that the release that wakes
  it hands its slot to somebody who had none; what was refused has no goroutine.
- `BufferIsSound` from `BufferInv`: an item that was added is in exactly one place
  (buffer, a batch in flight, delivered, handed back), and every batch is a piece
  of what was added. The count of places becomes a statement about their existence
  and uniqueness, which the provers can follow through a flush.
- `CacheIsSound` from `CacheInv`: a `Get` that is about to evict has read an entry
  that had expired, and the clock does not go back.
- `LockIsSound` from `LockInv`: a run removes its file once, by its release or by its
  signal goroutine; until then the file is its own, and never again after that.
- `FlowIsSound` from `FlowInv`: the steps behind the loop are settled and reported,
  those ahead unheard of.

`AdmissionProofs`, of `MCAdmission`:

- `LeaseIsSound` and `GrantsAreAlwaysFresh` from `LeaseInv` and `SpentInv`. That one
  lease lasts at most a window for each time the clock is set is a counting
  argument: each grant is assigned the setting of the clock it fell into and the
  wall time it was made at, two grants of a lease never get the same pair, and
  there are `Window * (sets + 1)` pairs. `SpentInv` says that such an assignment
  exists.
- `GateIsSound` from `GateInv`: each wrapped check says what its builder had
  recorded, counters are cardinalities of the report, and the report has one line
  for each rule that ran.
- `VerdictsAlwaysAgree`: the worst status of a list, taken as the code takes it, is
  above all the statuses in it and one of them; and the gate's counters, by the same
  invariant, say which of them are there. Nothing is computed along the list, so
  that no induction is needed.
- `LogIsSound` from `LogInv`: backup and log, one behind the other, are the end of
  what was written, at least as long as a file may be or all that was not given up;
  where a rotation stands says which file may be missing.

`RetryProofs`, of `MCRetry`:

- `LoopIsSound` (a tick in the reused timer's channel is of the delay that is on),
  `TripIsSound` (before an attempt no body is open, and the request's body is
  rewound), `ErrorIsSound`, `PollsIsSound` (an operation that is done has its APIs
  enabled, and the loop polls the operation that it started), `AuthIsSound` (a
  token in the file, in hand or to be saved goes back to a consent).
- `CappedIsExact`, `CappedGrows`, `DelayIsBounded`: for every width, base, cap and
  multiplier the guard of `platform/retry.BackoffWithConfig` makes its product
  exact, so that the schedule is monotone, and with jitter the delay stays positive
  and at most the cap and a fifth. The one exception is stated in the theorem: with
  a base of one nanosecond and the largest duration as cap the guard's own sum wraps,
  and every delay is the cap. `DelayIsSound` is the invariant of all three
  schedules.
- `TablesAlwaysAgree`: the tables of `apierr`, for every integer code.

`WorkspaceProofs`, of `MCWorkspace`:

- `MembersAreSound` and the action property `RolesFallOnlyByRace` from `MembersInv`:
  while nobody overtakes a call, what it has listed is the beginning of the drive's
  permissions, and what it is about to update is there and lower than what it asks
  for. What a call reports is the action that follows from what it saw; a dry run
  takes no step that changes the drive, and what a real call changed is that action
  and nothing else.
- `ListingIsSound` from `ListingInv`: the pages of a running listing are full, lie
  one behind the other up to the token, and have everything up to there that was
  there all the time.
- `FilesAreSound` from `FilesInv`: the parents that a move is going to remove are the
  file's, unless another move came in between; every drive was made for a request of
  its own, and a request that is sent again is answered with the drive it has.
- `StacksAreSound` from `StacksInv`: what a caller whose call is not overlapped has
  written so far is exactly the beginning of its own stack's output.

`SheetProofs`, of the syncs of `MCWorkspace`:

- `SheetsAreSound` from `SheetsInv`, for every document at first, every set of
  specifications and any number of processes, failed and lost calls. Of a call it
  says what its fields are (`Shape`), where it is (`Place`), and, as long as nobody
  overtook it, what it owes to the document (`Own`): the tabs that are done have
  exactly their data (`Worked`), the one in hand has the batches that were written
  and nothing else (`Working`: a batch that is repeated after a lost reply writes
  the same cells), every tab that is new is one of the sync's (`Accounted`, which is
  why a prune deletes no more and no less than it should), and a document that
  the sync made has its tabs in order (`Made`). `Pinned` and `Rooted` hold whatever
  the others do: a tab that is named by its identifier, and that no specification
  prunes, is found again. While every call was answered, `Quiet` says that what was
  read is still so, and therefore no call is refused.
- The property's premise `Sensible` came out of the proof. A tab without a title whose
  identifier is gone is made as `Sheet1`; the second sync of it does not find it and
  is refused. Hence such a tab counts as sensible only if it is there for good
  (`Kept`).

`StackProofs` and `DeclaredProofs`, of the stacks of `MCDeclared`, for every set
of configurations of the six blueprints, any number of stacks and updates:

- `StacksAreSound` and the action property `DataStays` from `StackInv`: besides the
  property itself, every resource in a stack's state that holds data is protected
  or was registered by a disposable stack, and every project is in a folder and
  paid for (`Safe`). The second half is what makes `DataIsKept` inductive: an update
  may remove what an earlier one registered, so that what is in the state has to be
  safe whichever program put it there.
- An update runs a program, and a program is a list of statements of blocks, cut off
  at the first that fails. `Run`, which does that, is a recursive function, and
  what it registers is shown by induction on the length of the list. The induction
  is stated of a set of numbers (`Induction`, from the least element of a set,
  `Least`), not of a predicate, since a predicate as a parameter is what the
  provers cannot instantiate. Each block then has three lemmas: what it registers is
  fine (`Fine`), of the block's own types (`Within`), and, where the block checks its
  names, registered once (`Once`); each blueprint puts its blocks together (`ProgramFacts`).
- `OutcomeFacts` and `UpFacts` are about the engine. An update removes something only
  if the whole program ran, registered nothing twice and no protected resource is
  among what it leaves out; then no block that it reads was malformed, and by
  `StackInv` what is gone has no data or was disposable.
- `PlansAreCoherent`: a plan that validates has classification and the billing export
  only where tier and scope have them, its children are distinct and so are its tag
  keys, the tag key block accepts it, and the folder block accepts it exactly if no
  child has the root's name and the parent is an organisation or a folder; for every
  plan and not only for those of the run.

- `ProcIsSound` has the inputs of the run from theorems for all inputs.
  `EnvironIsControlled` is about every runner, call and parent environment;
  `ValuesStayPrivate` and `CommandsAreAlwaysNamed` are about every key, value and stack
  that are not themselves words or flags of the command (a value `set` is in the name of
  the file because the command is); `ResolvesAlwaysSafely` is about every list of
  options, with an induction over the options (`Follows`: what the configuration
  owes to the options so far), and exact about scopes: those asked for or the defaults,
  and none for an injected client and for application defaults without retry.

Only model-checked:

- all liveness (`WaitersProgress`, `RunnerEnds`, `ExpiredIsRemoved`,
  `SignalEndsProcess`, `CallsReturn`, `WaitsEnd`): reasoning under fairness is out
  of the prover's reach. Theorems about `MCRuntime` and `MCRetry` are about their
  fair specifications, but use the safety part only;
- `CallsSound`: the tables of the generated code are given, not parameters. That
  every pair of peers understands each other is a question about these tables, and
  TLC asks it of all of them;
- `TableSound` and `DiffSound`: functions over sequences of rows, fields
  and items, made of filters and folds that take an operator as a parameter. What
  these compute can be shown only by induction over the operator, so TLC
  compares them with their reference definitions on all small inputs.

## 5. What the checks found

Recorded as violation runs:

- the fence repeats after a reclaim (`FileLockFenceRepeat`);
- a failed create during rotation makes the next `Log` delete every entry
  (`AuditLogCreate`);
- an entry appended behind a torn one is lost to readers (`AuditLogTorn`);
- `serviceaccounts` and `iambindings` do not look for repeated names, although
  `internal/names` says that each block does (`IacDuplicate`).

Seen while modelling, and built into the models as they are. The first two contradict
what the code says of itself; the properties of the runs state what it does:

- `sheets/types.go:92` says of a column's `Width` that it "is an exact fixed pixel width.
  If > 0, it takes precedence over MinWidth/MaxWidth and AutoFit". `computeColumnWidth`
  (`formatter.go:284-286`) clamps it between the two: 40 with a `MaxWidth` of 30 gives
  30. `WidthsHold` (of `TableSound`) says that a width is exact as far as the bounds allow.
- `auth.go:128` says "WithScopes sets the requested Google API scopes". With `WithoutRetry`
  and no other source of credentials than the application defaults, `auth.go:286-289`
  returns no options at all, and the scopes are dropped; the API constructor's defaults
  apply. `ResolvesSafely` (of `ProcSound`) is exact about which clients get which scopes.
- `releaseOwn` compares and removes in two steps. After a reclaim the release
  of the old holder can remove its successor's record. `NoSilentLoss` exempts
  exactly this (`foreign`).
- A reclaimer that took the wrong record aside links it back; for that moment,
  or if its holder released meanwhile, the lock file names nobody who is inside.
- A task that calls `runtime.Goexit` gives its slot back and stays "running".
- `Cache.Get` deletes by key under a second lock and can drop an entry that was
  set in between; `CacheSound` shows it is the only way to lose one.
- An interrupt leaves a run lock behind between the create and
  `signal.Notify`, and between `signal.Stop` and the remove of a release. With
  an `OnSignal` hook a process goes on after its lock is gone, so that a second
  run may overlap with it.
- `DoVal` says it "returns immediately if ctx is canceled" but asks the context
  only while it waits; `WithRetryVal` asks before every call.
- The schedules of `retry` and `retry/gcp` multiply before they cap; for large
  bases the product wraps, although the shift is capped "to prevent integer
  overflow". `DelaySound` is stated for configurations that fit; the guarded
  version in `platform/retry` needs no such premise for its product, though its guard
  `int64(maxCap/base)+1` wraps itself for a base of 1 and the largest cap, where the
  delay is then the cap at once. Seconds of a huge `Retry-After` wrap as well.
- `RoundTrip` drops a response that a base returns together with an error, as
  a nested retrying transport does; `http.Client` drops the response that
  comes with `ErrRetriesExceeded`. `TripSound` exempts these two.
- `Classify` unwraps to the innermost API or gRPC error and so loses a
  `retry.Permanent` mark around it.
- `invariant.Verdict` ranks an undefined status as Pass; the gate counts one as
  failed. `FromBuilder` takes a snapshot: what is added to a builder later is not seen.
- A panicking skip predicate is not recovered, unlike a panicking step.
- `LeaseStore` syncs nothing: after a host crash a consumed lease may be back,
  which `LeaseSound` exempts. `fsyncDir` does nothing on Windows.
- Two concurrent `EnsureDriveMembership` calls for one member may leave the lower
  of two roles, or two permissions; `FallsOnlyByRace` shows there is no other way.
- A `CreateFolder` or `CreateSpreadsheet` whose reply is lost leaves a folder or a
  document that nobody knows; `CreateSharedDrive` is safe by its request identifier.
- `plan.Validate` accepts a child that is named like the root, and a parent of any form;
  `folders.Apply` refuses both. `PlanIsCoherent` says exactly this.
- `withinTolerance` says that a value that is not finite "is never noise", Inf against
  Inf included, and keeps its word; but `diffFloat` has compared the two with `==`
  before, so that equal infinities make no difference that it could be asked about.
  Two sums that are both +Inf compare as equal. NaN against NaN is reported.
- A path that no handler serves and a method that the server does not implement look
  alike to a connect client (`CodeUnimplemented`).
- The name of a budget has its amount and currency in it, so that a change of either
  replaces the budget.
- `MoveFile` into a folder the file is in already adds and removes the same parent.
- A stray callback can end a consent flow with an error, but never gives it a code.
- `SelectStack` selects for the directory, so that `Up` without a named stack, and
  `Destroy`, may hit the stack another caller selected; `GetRawOutputs` may
  read the output of a concurrent call. `StacksSound` limits the first to callers of
  one project directory and the second to calls that overlap in one log directory;
  by default all Runners of a machine have the same log directory, whatever their
  projects.
- A configuration value that begins with a hyphen is taken for a flag, by the
  command as well as by `redactArgs`, which then does not hide it; the model has
  no such value.
- The protection of a resource is that of the last update that registered it, so
  that declaring a stack ephemeral once is enough to make its data removable.

## 6. Not modelled

Time is a small counter or, in the file lock, the single question whether a
record is older than `StaleAfter`. Contents of entries, messages, log output
and errors' wording are left out, as are permissions, path sanitising, the
Windows variants, the HTTP-date form of `Retry-After` and statistics. Map
iteration order does not matter to any modelled result.

Of modelled components: `audit` entry validation, querying and scorecard
arithmetic; `drive` `Upload`, `FetchFile` and `DeleteFilePermission` (one API
call each); colours and number formats of `sheets`; printing in `datadiff`; the
raw descriptors of `contracts` (bytes that only the protobuf runtime reads) and
the runtimes of protobuf, connect and Pulumi, which are external and reduced to
what the code relies on.

Not at all: `slog-gcp` (layout of records), `buildstamp` and `runstate` keys
(parsing and spelling of text), `web`, `gcpenv`, `passstore` (I/O wrappers
without state), `discovery` (a text filter and interfaces), templates, skills
and documents. Their correctness is about characters, not about states, and
unit tests reach it.

## 7. Plan

What is left:

1. `Datadiff` and `SheetTable` with recursive functions in place of filters and
   folds, so that their reference definitions can be proved for every input, as
   `StackProofs` does for programs.
2. `audit` queries and the remaining single calls of `drive`, should they get state
   of their own.
