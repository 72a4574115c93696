# TLA+ models of Chat2DB-Rust

Chat2DB-Rust is a local database client. A Rust core serves an HTTP API, a
desktop shell, a CLI and an MCP server. JDBC work runs in a private Java process
that the core starts, supervises, parks and stops. Two TypeScript clients, the
frontend and the Community client, talk to the core. This directory holds TLA+
modules of the parts where several tasks, threads, processes or messages meet.
TLC checks them on small instances. TLAPS proves the safety properties of most of
them for every value of the constants.

## How to run

    tlc -workers 2 -config MCEngineManager.cfg MCEngineManager
    tlapm OperationHubProofs.tla

`PROJECT.json` lists the runs, the properties, the source lines behind every
definition, the hazards, the findings and the theorems.

## Inventory of the system

| Part | State | Operations | What makes it hard |
|---|---|---|---|
| Engine lifecycle manager (`chat2db-core/src/engine_manager.rs`) | `ManagerState`, leases, idle, park and drain epochs, waiters | 12 commands of one actor | timers and completions arrive late; callers leave; the engine crashes at any point; shutdown |
| Bridge supervisor (`chat2db-java-bridge/src/supervisor`) | pending requests and streams, lanes, retired ids, bounded event channels | register, route, expire, abandon, finish | credits in flight both ways, slow consumers, late answers, process death |
| Java runtime (`java/compat-runtime`) | operation and session registries, credits, cancellation, writer queue, park epoch | handlers, worker, watchdog and cancellation threads | who closes a statement that is being cancelled; when a session is free again |
| Operation hub (`operation.rs`) | table of operations, journals, broadcast channels | create, emit, cancel, subscribe, next_event | replay and live delivery must join; slow observers; eviction |
| Query task (`query.rs`, `lib.rs`) | task table, watch, stream, session, writer | start, consume, cancel, settle, publish, join, abort | cancellation and shutdown meet the task at any await; any call may fail |
| Result store (`result_store.rs`) | SQLite index, files, leases, quota | begin, append, finish, abort, drop, purge, read, recover | crash between file and index; commit with unknown outcome |
| Agent runs (`storage/agent.rs`, `core/agent/*`, `chat2db-agent`) | runs, leases, permissions, write fence, journals | claim, append, permit, dispatch, settle, cancel, recover | a database write must not be repeated after a crash |
| Datasources and vault (`datasource.rs`, `vault.rs`) | rows with revisions, secrets | create, update, delete, reveal | two stores, one commit each |
| Transfers (`transfer/*`, `storage/transfer.rs`) | durable tasks, files | start, progress, stop, recover | stop against completion, restart |
| Local endpoint and hosts (`chat2db-local`, `chat2db-runtime`, `apps/*`) | host lock, requests in flight | serve, idle exit, shutdown | two hosts, a client that goes away |
| Operation observer of the frontend (`frontend/src/backend`) | cursor, subscription, reconnects | observe, accept, deliver, snapshot, close | late acceptance, lost streams, stale snapshots |
| SQL console of the Community client (`useSqlExecutor.ts`, `SQLExecute`, `SearchResult`) | request tracker, result tabs, row buffer, execution log | execute, stop, events, tabs | the answer and the events travel apart; the user acts in between |
| Editor tabs of the Community client (`SQLEditor`, `WorkspaceTabs`, `editorCloseGuard.ts`) | text, baseline, save queues, leave dialogs | type, save, remove, close, exit | saves under way or failing while the tab leaves |
| Rest of the Community client | component state | pages, forms, trees, dashboards | rendering, single requests |
| Drivers, SQL builders, codecs | little of their own | conversions and I/O | data, not interleaving |

What is modelled, partly modelled or left out, and why, is in the `components`
of `PROJECT.json`.

## The modules

    EngineManager          EngineManagerTypes, EngineManagerProofs
    QueryWire <- HostStream, EngineOperation <- QueryStream
    OperationHub           OperationHubProofs
    OperationHub <- OperationObserver -> OperationView
                           OperationObserverProofs
    ResultStore            ResultStoreProofs <- ResultQuotaProofs
    QueryTask              QueryTaskProofs
    SqlResults, SqlExecutionLog <- SqlConsole
    LocalFileSaves, SavedConsole <- EditorTab
                           EditorTabProofs

`A <- B` says that B extends A, `A -> B` that A implements B.

A module `MC...` instantiates a specification for TLC; a file `MC....cfg` gives
the constants and names the properties. In every module a definition `X_Fault`
(or `X_` and another word) is a faulty variant of the definition `X` that
follows it. The specifications never use it. It documents which mistake the
properties exclude: with `X` replaced by it, TLC finds the property violated.

### EngineManager: one Java process, leases and idle deadlines

`mode` is the variant of `ManagerState`, `gen` the generation (attempt and
generation numbers coincide), `tasks` everything spawned whose command is still
to come: starts, stops, quiesces, resumes, timers and the watcher of the
process. Every command of `run_manager` is an action; callers (`Acquire`,
`Abandon`, `DropLease`), the host (`CallShutdown`, `DropOwner`) and the
process (`Crash`, `StartReady`, `StartFails`) are the environment.

- Commands are a set, not a queue. Each comes from a task of its own, so any
  order can reach the channel.
- A start takes two steps, because a shutdown may cancel it in between. The
  completion of a stop, quiesce or resume is one step with its reception.
- `EngineSupervisor::shutdown` joins its actor, so the process is reaped before
  `StopFinished` is sent.
- The loop ends only by its `break`, so the code after it for a closed channel
  is not modelled. The branches of `StartFinished` and `StopFinished` for a
  foreign attempt are dead: that is `CompletionsOwned`.
- Timers have no durations. A timer that is armed may fire at any time, which
  covers every choice of the delays.

Runs: `engine` (two callers, two acquires, a shutdown call, dropped owner,
crashes), `engine_idle_policy`. Two acquires let a lease of one generation be
released while a later one is starting, running or parked, and let a caller
come while the engine parks. With three acquires the safety properties hold in
1,439,532 states.

### QueryStream: one credit-controlled query from end to end

`QueryWire` is the pair of pipes and the deadline. `HostStream` is the
consumer's `QueryStream` with the stream table of the supervisor actor: the
event channel, the outstanding credits, the control lane, cancel, drop, expiry
and the end of the generation. `EngineOperation` is the operation in Java: the
reader thread's registration, grant and cancel, the worker up to its release,
the watchdog, the thread that runs `Statement.cancel`, and the writer with its
actions before and after a frame. `QueryStream` composes them. A query that
the host admits is registered and sent in one step. The protocol loop decides a
response in one step and queues it in another, so the worker's terminal frame
may come between; a refusal carries the session state of the moment it was
decided, and the host writes that state into its cell whenever it arrives.

- A failing pipe, or a killed process, is `Crash`.
- Query and controls share `request_timeout`, so a control expires only after
  the query's deadline.
- The query runs outside a transaction. A settle timeout may pass at any
  moment, also at once.
- A cancellation sent on drop is best effort: the control lane may be full or
  hold a cancel already. `DropSettles` is checked with a free slot.
- A batch has a number of rows and no values.

`TerminalFrees` is what `docs/protocol.md` promises of a request sent after the
terminal frame was seen. It speaks of the step that routes that frame. A
refused grant that is routed later may put an older READY over the BROKEN of
the terminal frame; Java then refuses the next request itself.

Runs: `stream_safety` (grants of 1, a window of 1, a channel of 3, two
controls, two batches: the window and the channel both fill up, and a grant, a
cancel and a terminal frame can cross), `stream_liveness`. Larger instances, a
window of 2, and grants of 2 with batches of 1 or 2 rows, satisfied the same
invariants while the loop's response was still queued in the step that decides
it (2.6 and 18.6 million states).

On a full window Java may refuse a grant that the host admits:
`OperationRegistry.java:427` counts the reservation of a batch that has been
written already. The host takes the refused credits back, which
`CreditConservation` covers, and the query task never fills the window.

### OperationHub: journals and observers

An event is its sequence number; the journal of an operation is the interval
`front..sequence`. A subscription is a cursor, the rest of its replay and its
place in the broadcast channel. `next_event` is split where the code awaits:
the replay, the look at the state, `recv`, and the recovery after a lag.

The broadcast channel is created with the capacity of the journal (rounded up
to a power of two by the library, modelled by the equal capacity). An observer
that lagged has then always lost the journal's events too, so the branch of
the recovery that succeeds is not reached; it is modelled all the same.

The hub is checked as the server of OperationObserver (run `observer`, property
`GapFree`), and its invariants are proved.

### OperationObserver: the client's end of an operation

`observeOperation` is a loop with two awaits: the end of a stream, and a
snapshot after a stream that ended early. `tauri.ts` is the transport: the
promise of `subscribe_operation`, the channel of messages, the flag that a
closed handle leaves behind for an answer that is still to come. The server is
OperationHub with one task per subscription. One step is one callback of the
JavaScript thread with the continuation it resolves.

`OperationView` says what the caller is promised: what it is shown moves
forward, is never ahead of the operation, is terminal exactly when the
operation has ended, and an observation that is neither stopped nor failed ends
with the end of the operation. `ViewRefined` is that specification under the
mapping of the loop's cursor and callbacks.

Run: `observer` (two operations in a table of one, a journal of one event,
three events, one reconnect: an operation is evicted under its observer, the
observer lags, and a stream is accepted after the loop went on).

### ResultStore: files beside an index, with crashes

A frame is the unit of length and the number of the append that wrote it, or
`Torn`. `durable` is the synced prefix. A crash keeps the synced prefix and any
part of the rest. All operations hold the result lock, so they are split into
steps for the sake of failures and crashes only. An SQLite commit is durable,
may fail, and may fail after being applied. Expiry is a set of results. No
caller at run time purges other than the quota check. An empty file is no file.

Run: `results` (two interchangeable results, four frames of quota, two
batches each: one full result and one begun, so that quota, purge of an expired
result and a stale orphan all happen). Deadlock is checked.

### QueryTask: the operation's task, cancellation and shutdown

The task is a program counter that names its await; a step is the code between
two awaits. Hub, store and bridge are reduced to what the task sees of them:
status and progress, the writer, a queue of events and the moment the terminal
frame is routed.

- An abort is cooperative: it takes effect at an await. `finish` runs in a
  blocking thread, so an aborted task may leave a complete result behind that
  no operation refers to.
- A session that fails to close spoils a success, although the result is kept.
  The engine refuses the close while the query runs. Nobody asks again, and the
  handle has no `Drop`: such a session (`left`), and that of an aborted task,
  stays in the engine until its process ends. So `NothingLeftBehind` promises no
  session in the engine only where no call failed and the task was not aborted.
  The process ends with the shutdown (`ShutdownMeansReaped` of EngineManager).
- A panic of the task, and the task of the native drivers, are not modelled.
- The hub ignores progress of an operation that has ended, so `Report` then
  changes nothing.

Runs: `task` (three batches, two failing calls: a failure while cleaning up
after a failure), `task_cancel_race`, `task_exit`.

### SqlConsole: one console, its requests, results and log

`SqlResults` and `SqlExecutionLog` are operators on two values: the view (the
list of results, the tabs, the buffer of rows with its timer, the closed and
pinned keys, the large values handed back) and the log of executions.
`SqlConsole` has the request tracker, the control of the desktop execution, the
refs of `SQLExecute`, the availability of the data source, and the host as its
environment. An action is one task of the event loop. A handler updates
tracker, view, log and refs in one step, as the code does.

- The n-th request has request sequence n, execution sequence n and one
  execution id: `handleExecuteSQL` takes the three together.
- A result is a key (request, statement) and a count of rows, or `NotTabular`.
- React renders a new list, and the effect of `SearchResult` takes it over, in a
  step of its own (`Render`), with messages and clicks before it. A tab that is
  closed before that writes the older list of the tabs over the newer one
  (`SearchResult/index.tsx:560`, `SQLExecute/index.tsx:818`): rows that were
  flushed and not rendered are lost, and `RowsAccounted` does not count them.
  What a click sets is rendered at once.
- `SQLExecute` gives `SearchResult` no history list.
- Unmounting the console is not modelled. The branch of `SearchResult` for a
  changed version releases nothing that the other does not.
- The host decides at the end of an execution which events follow. The bus
  drops the events of a request without a listener.

Runs: `sql_console` (two requests of one or two statements, one cancellation,
one other click, a history of one batch and one record: the second request
meets what the first leaves behind), `sql_cancel_twice` (two cancellations).
Larger instances with more clicks or a longer history satisfied the same
invariants when every list was rendered at once (2.8 and 4.9 million states).

### EditorTab: saving a text and leaving it

`LocalFileSaves` is the queue of writes of one file: a write under way, one
batch that waits, and the callers of each. `SavedConsole` is the coordinator of
the mutations of one console with the record in the host. `EditorTab` composes
them with the editor: what it shows, its baseline, the draft in the browser's
store, automatic saves, the dialogs, and the guard that a closing tab and an
exiting application pass.

- A tab is a console or a local file; the other component stays idle. A file tab
  is modelled from after its file was read.
- A console opens with the text of the stored tab list, which is also its
  baseline (`lastSyncConsole`). `Load` then shows the record of a saved console,
  or the draft in the IndexedDB where the text is blank. Neither moves the
  baseline.
- A mutation that fails may have been executed by the host: its answer was lost
  or came after the client's timeout.
- One leave at a time. A dialog covers the editor. A write to the IndexedDB,
  and its deletion by `closeWindowTab`, happen in the step that asks for them.
- An exit that meets active tasks asks the user (`confirming`), who may cancel
  also while it finishes.
- The status of the editor stays `RELEASE` when its console is removed from the
  saved ones, because `SQLExecute` merges only fields of the data source.
- `fate`, `stale` and `budget` record what happened, for the properties and the
  bounds.

`LeaveKeepsText` has premises, and each is a case that the code does not cover.
Saves that fail, once or often, are no such case.

- `confirmBeforeClose` is off, or the user discards the text.
- The guard waits for file saves only, so a console whose text was changed back
  while an automatic save was under way may close with the other text stored
  (`"saving"`).
- A console that was removed while open, or a draft that was opened with a
  text, is restored from the stored tab list and not from its newer draft.
- Text typed, or loaded, while the tab saves before it closes (`"typed"`) is kept
  only in the snapshot of recently closed tabs.
- The baseline is not what is stored (`stale`), and the text was put back to it,
  so that nothing looks unsaved. That happens when the record or the draft that
  was restored differs from the stored tab list and nothing was saved since;
  when the text went to the IndexedDB because a removal is pending; and when a
  write took effect without moving the baseline, because its answer was lost, a
  later command overtook it, or the file's batch was handed on and then failed.

`OnlyManualPublishes` and `BlockFollowsRecord` hold with commands that fail,
also with others pending: a command that is still the last one is undone, and
another is left to the commands behind it. They leave out three failures that
the coordinator cannot undo (`tangled`): a command whose answer was lost; a
command right before an automatic save that was chained on the strength of it;
and a second command that fails before the queue was empty again, because it
goes back to a state that the first one never reached.

Run: `editor` (two texts, two edits, three file saves, a mutation queue of
two, two commands, two failures). Two texts are enough to differ from the
stored one and to come back to it. The inductive invariant of the proof holds
with a queue and a number of commands of three in 6,325,117 states, and with
three texts the properties hold in 3,284,156.

## What the runs show

| Run | Distinct states | Properties |
|---|---|---|
| engine | 47,386 | LeaseAccounting, LeaseKeepsGeneration, SingleProcess, ArmedTimersAreIdle, ShutdownMeansReaped, NoLeaseAfterShutdown, AcquireAnswered, ShutdownAnswered |
| engine_idle_policy | violated | IdleEngineReaped |
| stream_safety | 2,698,564 | NoProtocolError, CreditConservation, EndReported, CancelHonoured, ReleasedIsOver, TerminalFrees |
| stream_liveness | 172,867 | DropSettles, CleanupHappens |
| observer | 109,570 | GapFree, ViewRefined, NothingStaysSubscribed, ObservationEnds |
| results | 212,517 | QuotaHeld, CompleteIsWhole, LeaseHolds, AnswerTruthful, StartupClean |
| task | 57,872 | PersistedFirst, CompletedIsWhole, NothingLeftBehind, CancelEnds |
| task_cancel_race | violated | CompletionKept |
| task_exit | violated | ShutdownEndsOperations |
| sql_console | 2,178,457 | RowsAccounted, ClosedStaysClosed, ShownNotReleased, RequestLeavesNothing, StopNotLost |
| sql_cancel_twice | violated | MissingMeansOver |
| editor | 989,916 | NoWaiterLost, SavedIsNewest, LeaveKeepsText, BlockFollowsRecord, OnlyManualPublishes, LeaveEnds |

Types are not checked by the runs; those of the manager and of the hub are
proved. Deadlock is not checked where the system may rest: a closed manager, a query
that is over, an observation that returned, an ended task, an idle console, a
closed tab.

### Disagreements with the documentation and the comments

1. *A parked engine may never be reaped* (`engine_idle_policy`). An acquire
   during quiescing starts a new idle period (`engine_manager.rs:478`). When its
   caller leaves before the quiesce ends, the engine is parked and the only
   timers left are stale. `docs/architecture.md:26` promises that the idle
   deadline reaps Java after the last release.
2. *A cancellation may spoil a completed query* (`task_cancel_race`).
   `consume_stream` (`query.rs:576`) takes the refusal to cancel a stream that
   has just ended as a failure of the query. `grant_next_credit` and
   `settle_query_stream` tolerate the same refusal.
3. *An operation may be left running by a vanished caller* (`task_exit`). A
   caller of `start_prepared_query` that is dropped while it waits for the task
   table leaves an operation that no task owns (`query.rs:390`).
4. *A second Stop ends a running request in the console* (`sql_cancel_twice`).
   The host answers false to a cancellation that is not the first
   (`query.rs:148`). `useSqlExecutor.ts:73` takes false for an execution that is
   gone, as its test says (`sqlExecutionStream.test.ts:140`), ends the request
   and ignores the events that follow.

## Fairness

- EngineManager: the manager keeps receiving, armed timers fire, and every
  start, stop, quiesce and resume ends, because each has a deadline in the
  code. Callers, the host and crashes promise nothing: a lease may be held for
  ever, and `ShutdownAnswered` holds because of the drain deadline.
- QueryStream: actor, Java threads and the driver's ordinary calls make
  progress. `Statement.cancel` returns only in `CancelFairSpec`, which
  `CleanupHappens` needs. The consumer and the clock promise nothing, so
  `DropSettles` does not rest on the deadline.
- OperationObserver: the JavaScript thread runs its callbacks, and the server
  handles requests and sends what `next_event` returns. The operation, the
  connection and the caller promise nothing.
- QueryTask: the runtime schedules the task; the engine ends a query that it
  was asked to cancel, and the bridge routes its end; a shutdown that aborted
  the task goes on.
- EditorTab: a write of a file and a mutation of a console end, with success or
  failure, because the host answers or the client's timeout does; and an exit
  goes on, is called off or asks the user (`ExitOn`, `FinishExit`). The user
  promises nothing: the dialogs that ask about unsaved text, about a name and
  about active tasks may stay open for ever, and `LeaveEnds` ends there.
- SqlConsole and ResultStore are checked for safety only.

## What is proved

All proofs are for arbitrary constants, under the named assumptions of the
modules: finitely many callers and results, natural bounds, capacities of at
least one, and in EditorTab that the absent text is no content of a tab. The
bounds `MaxAcquires`, `MaxEvents`, `MaxBatches`, `MaxFaults` and those of the
editor are arbitrary numbers, so they limit nothing in the proofs.

**EngineManager.** `EngineManagerTypes!TypeCorrect` proves the type invariant.
`EngineManagerProofs!Invariant` proves the inductive invariant `IInv`: `TypeOK`,
`LeaseKeepsGeneration`, `SingleProcess`, `CompletionsOwned`, `WaitersOwned`, and
two strengthenings. `Fresh` says that no lease or process refers to a
generation that was not started; without it a start could meet a lease of its
own number. `Counted` is the lease accounting with what it needs to survive a
start: a generation that does not run yet has no claims. The lease count is a
cardinality, so the lemmas `IssueCounts` and `ReleaseCounted` relate it to the
sets of callers once, and the actions cite them. From `IInv` follow
`LeasesCounted`, `LeasesRespected`, `OneProcess`, `CompletionsMatch`,
`WaitersKept` and the action property `ShutdownIssuesNoLease`. `ShutdownReaps`
(a shutdown is answered only after the process is reaped) uses `SingleProcess`.
`TimersOfIdlePeriods` adds `TimersKept` on top of `IInv`: a generation that
starts has no timer of its own number yet, and one resumes only for a waiter,
so that another acquire then does not need to advance the epoch again.

**OperationHub.** `OperationHubProofs!Invariant` proves its `IInv`: `TypeOK`;
`OrderedIsTerminal` and `RunningListed`, which tie the eviction order to the
status; `SubscriptionsJoin`, which says for every observer that the cursor, the
rest of the replay and the place in the broadcast fit together (a replay ends
where the broadcast begins, and nothing between the cursor and the broadcast is
missing); and `EndMeansDelivered`. From it follow `EndsDelivered`, `NoGap` and
`NeverEvicted`; the bound of the table is an invariant of its own,
`WithinCapacity`.

**OperationObserver.** `ObserverRefinesView` proves that the loop implements
`OperationView`. Its invariant `OInv` joins the hub's `IInv` to what is under
way: no message on a stream and no snapshot is ahead of the operation
(`PipesBehind`, `AnswerBehind`), the cursor is not ahead either
(`CursorBehind`), and a loop that has not returned has not failed or been
stopped (`LoopOpen`). Every step of the observer is also a step of the hub or
leaves it alone, so the hub's theorems carry over. Each action maps to one step
of the view or to none; `DeliverEvent` and `SnapshotArrives` need that a
terminal status is shown exactly with the last event.

**ResultStore.** `ResultStoreProofs!Invariant` proves an `IInv` of three parts:
`TypeOK`; `LockForm`, which says where the operation that holds the lock may be,
and that what it is about to unlink has no row; and `ResultForm(r)` for every
result. For the result the lock is held for, `ResultForm` follows a frame from
the file over the sync to the index (`Grows`); for all others it says what a
writer left (`Rests`). `Stored(r, n)`, index and synced file hold the first `n`
frames, is what survives a crash. One lemma per operation shows the form of its
own result, and `Untouched` that of the others. `CompletionIsWhole`,
`LeasesHold`, `AnswersTruthful` and `StartsClean` follow.
`ResultQuotaProofs!QuotaIsHeld` counts: the bytes retained are the cardinality
of a set of frames, a frame is written only after the check found room for it,
and every other step, a crash included, only shortens files.

**QueryTask.** `QueryTaskProofs!Invariant` proves `TypeOK`; `StreamForm` (at most
one event and the terminal one are queued, because the engine has at most one
credit); `Counted`, which ties batches produced, queued, in hand, stored,
reported and credits together at each place of the task; `Progress` (what the
task has opened and closed when it is where it is); and `Success` (a successful
outcome stands for a complete writer of a completed query). The theorems
`BatchesPersistedFirst`, `CompletionIsWhole` and `TaskLeavesNothing` are
consequences. The last one needs that a close meets a running query only after
a call has failed.

**LocalFileSaves and EditorTab.** `CallersKept` and `ResolvedIsNewest` rest on
`FileInv`: types, `NoWaiterLost`, and `NewestIsLast`, which says that the batch
that waits, or else the one under way, has the newest text that was asked for.
Without it a write that succeeds could resolve its callers with an older text
in the file. `TabUsesQueue` proves that the tab implements the queue: every
action of the tab is a step of the queue or leaves its variables alone. So
`TabKeepsCallers` and `TabSavedIsNewest` follow for the tab.

`TabInvariant` proves the invariant of the whole tab. `Ordered` has two parts.
`QueueForm` numbers the commands in the order they were chained. `OrderForm`
holds while every command that failed could be undone: the state of the
coordinator follows the last mutation of its chain, or the record when the
chain is empty; an automatic save never directly follows a removal; and the
state a command goes back to follows the mutation before it, unless a command
failed there (`failing`). `BlockFollows` and `ManualPublishes` rest on it.
`PlaceForm` says which dialogs, names and kinds go together. `FileKeeps` and
`ConsoleKeeps` say where the text is: a baseline that is not stale is on disk or
in the record, the newest request and the last mutation carry the text that a
closing tab shows, and a draft is stored. They give `LeavingKeepsText`. TLC
checked this invariant, with a mutation queue of three, before it was proved.

Only model-checked: QueryStream and SqlConsole, whose invariants join several
queues in flight; every liveness property, which is out of the prover's reach
together with `ENABLED`; and everything that needs induction over data.

## Not modelled

The map of `PROJECT.json` covers the lines these modules translate: about 8,000,
of which about 2,500 are TypeScript. That is under 2% of the repository's
TypeScript. Most of the rest is user interface (pages, forms, trees, charts,
editor integration, translations, themes) that renders the last answer of a
request. A model of it would say nothing that could fail.

Left out although it has state worth a model:

- the unary requests of the supervisor: lanes, deadlines, the retired ids and
  late answers (`pending.rs:333`);
- quiesce and resume in `ProtocolLoop.java`, with epochs and nonces; the manager
  has the Rust side of them;
- JDBC sessions, transactions and update operations in Java;
- Agent runs: run leases, permissions, and the durable fence that keeps a write
  from being repeated after a crash (`storage/agent.rs`);
- datasource rows and the vault, transfer tasks, the election of the local host;
- in the Community client: the list of tabs (`createConsole` reads it before an
  await and writes it after), the markdown preview (a save overwrites what was
  typed meanwhile), several tabs that leave together, unmounting a console;
- the order of a false cancel answer and the result events of an execution that
  has just completed, where the log may say cancelled of a success.

Left out because a state model adds nothing: SQL builders, dialects and
metadata, wire codecs and generated code, file staging of driver packs, adapters
that forward one call.

## Plan

Model next, in this order:

1. `JdbcSession`: sessions, transactions and update operations in Java (claim,
   broken, close retried, commit outcome), composed with `EngineOperation`.
2. `PendingRequests`: the unary lane of the supervisor, as the environment of
   `HostStream`.
3. `ParkProtocol`: quiesce and resume in `ProtocolLoop.java`, against the
   manager's `Quiescing`, `Parked` and `Resuming`.
4. `AgentRuns`: leases, permissions, write fence and recovery; then the Agent
   observer as a second implementation of `OperationView`.
5. `WorkspaceTabs`: the list of tabs and several tabs that leave together.
6. `SecretStore`, `TransferTasks`, `LocalHost`.
7. An abstract specification of a query (`Started`, batches in order, one end)
   that `QueryStream` and `QueryTask` implement.

Prove next: `ReleasedIsOver` and `CreditConservation` of QueryStream;
`ClosedStaysClosed` and `RequestLeavesNothing` of SqlConsole.
