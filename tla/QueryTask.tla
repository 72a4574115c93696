----------------------------- MODULE QueryTask -----------------------------
(***************************************************************************)
(* A query operation of the application core (chat2db-core/src/query.rs and *)
(* the shutdown in lib.rs): the call that starts it, the task that drives   *)
(* the Java stream into a retained result, the user who cancels, and the    *)
(* shutdown that cancels, joins and finally aborts the task.                *)
(*                                                                          *)
(* The parts around it are reduced to what the task sees of them: the hub   *)
(* (OperationHub) to the status and the progress of the operation, the      *)
(* store (ResultStore) to its writer, the bridge and the engine (QueryStream)*)
(* to a queue of events and to the moment the terminal frame is routed,     *)
(* after which the stream takes no more control requests.                   *)
(*                                                                          *)
(* A step of the task is the code between two awaits; pc names the await.   *)
(* Every call of the store, the session or the bridge may fail; the         *)
(* failures are counted by faults.                                          *)
(*                                                                          *)
(* A definition X_Fault is a faulty variant of the X that follows it.       *)
(***************************************************************************)
EXTENDS Integers, Sequences

CONSTANTS
  MaxBatches,   \* bound: batches of the query
  MaxFaults     \* bound: failing calls

ASSUME TaskAssumption == MaxBatches \in Nat /\ MaxFaults \in Nat

VARIABLES
  accepting,    \* Inner.accepting_work: open or closed
  tasks,        \* the entry of the operation in Inner.tasks: in or out
  join,         \* join_query_tasks: idle, waiting, aborting, done
  status, reported,      \* the operation in the hub, batches of its progress
  cancel,       \* the cancellation watch: Waiting, changed, seen
  pc, outcome,  \* the task
  accepted,     \* cancellation_accepted: no or yes
  event,        \* the stream event in hand
  session,      \* the JDBC session in the engine: none, open, closed, or left
                \* (its close failed and nobody asks again)
  writer, appended,      \* the RetainedWriter and the batches it persisted
  engine,       \* the query in the engine: none, executing, started, its end
  asked,        \* whether the engine was asked to cancel: no or yes
  produced, credits,
  queue, routed,         \* the stream's events; whether the terminal frame
                         \* was routed: no or yes
  terminal,     \* QueryStream.terminal: no or yes
  faults

coreVars == <<accepting, tasks, join>>
hubVars == <<status, reported, cancel>>
taskVars == <<pc, outcome, accepted, event>>
ownVars == <<session, writer, appended>>
streamVars == <<engine, asked, produced, credits, queue, routed, terminal>>
vars == <<coreVars, hubVars, taskVars, ownVars, streamVars, faults>>

Ends == {"Completed", "Failed", "Cancelled"}
Live == {"executing", "started"}

Init ==
  /\ accepting = "open" /\ tasks = "out" /\ join = "idle"
  /\ status = "unborn" /\ reported = 0 /\ cancel = "Waiting"
  /\ pc = "absent" /\ outcome = "none" /\ accepted = "no" /\ event = "none"
  /\ session = "none" /\ writer = "none" /\ appended = 0
  /\ engine = "none" /\ asked = "no" /\ produced = 0 /\ credits = 0
  /\ queue = <<>> /\ routed = "no" /\ terminal = "no"
  /\ faults = 0

-----------------------------------------------------------------------------
(* Starting, cancelling, shutting down. *)

\* start_prepared_query, under the accepting_work lock: the operation is
\* created and its task spawned, which waits for its registration.
StartPreparedQuery ==
  /\ pc = "absent" /\ accepting = "open"
  /\ status' = "Running" /\ pc' = "spawned"
  /\ UNCHANGED <<coreVars, reported, cancel, outcome, accepted, event, ownVars,
                 streamVars, faults>>

Register ==
  /\ pc = "spawned"
  /\ tasks' = "in" /\ pc' = "registered"
  /\ UNCHANGED <<accepting, join, hubVars, outcome, accepted, event, ownVars,
                 streamVars, faults>>

\* The caller's future is dropped while it waits for the task table: the
\* registration never comes and the task returns.
CallerGone ==
  /\ pc = "spawned"
  /\ pc' = "abandoned"
  /\ UNCHANGED <<coreVars, hubVars, outcome, accepted, event, ownVars,
                 streamVars, faults>>

\* OperationHub.cancel, and cancel_all for the one operation there is.
RequestCancel == cancel' = IF status = "Running" THEN "changed" ELSE cancel

\* The id reaches the user only with the registration; a user may cancel again.
UserCancel ==
  /\ pc \notin {"absent", "spawned", "abandoned"}
  /\ RequestCancel
  /\ UNCHANGED <<coreVars, status, reported, taskVars, ownVars, streamVars, faults>>

\* begin_shutdown takes the lock that start_prepared_query holds.
BeginShutdown ==
  /\ accepting = "open" /\ pc # "spawned"
  /\ accepting' = "closed"
  /\ RequestCancel
  /\ UNCHANGED <<tasks, join, status, reported, taskVars, ownVars, streamVars,
                 faults>>

\* join_query_tasks takes the tasks and waits for them.
JoinQueryTasks ==
  /\ accepting = "closed" /\ join = "idle"
  /\ join' = IF tasks = "in" THEN "waiting" ELSE "done"
  /\ tasks' = "out"
  /\ UNCHANGED <<accepting, hubVars, taskVars, ownVars, streamVars, faults>>

TaskJoined ==
  /\ join = "waiting" /\ pc = "ended"
  /\ join' = "done"
  /\ UNCHANGED <<accepting, tasks, hubVars, taskVars, ownVars, streamVars, faults>>

\* TASK_SHUTDOWN_TIMEOUT: the task is aborted ...
JoinTimeout ==
  /\ join = "waiting" /\ pc # "ended"
  /\ join' = "aborting"
  /\ UNCHANGED <<accepting, tasks, hubVars, taskVars, ownVars, streamVars, faults>>

\* ... and, without waiting for it, the operation ends.
JoinCancels ==
  /\ join = "aborting"
  /\ join' = "done"
  /\ status' = IF status = "Running" THEN "Cancelled" ELSE status
  /\ UNCHANGED <<accepting, tasks, reported, cancel, taskVars, ownVars,
                 streamVars, faults>>

Running == pc \notin {"absent", "spawned", "abandoned", "ended", "aborted"}

\* An aborted task stops at an await: stream and writer are dropped.  A store
\* call runs on in its own thread, so finish may still complete.  The session is
\* a plain handle, whose drop closes nothing; only a close that is already
\* under way may still happen.
TaskAborted ==
  /\ join \in {"aborting", "done"} /\ Running
  /\ pc' = "aborted"
  /\ \/ writer' = (IF writer = "open" THEN "aborted" ELSE writer)
     \/ pc = "finish" /\ writer' = "complete"
  /\ \/ UNCHANGED session
     \/ pc = "close" /\ engine \notin Live /\ session' = "closed"
  /\ UNCHANGED <<coreVars, hubVars, outcome, accepted, event, appended,
                 streamVars, faults>>

-----------------------------------------------------------------------------
(* The task. *)

Goto(at) == pc' = at /\ UNCHANGED <<outcome, accepted, event>>
EndWith(o, at) == pc' = at /\ outcome' = o /\ UNCHANGED <<accepted, event>>

Fault == faults < MaxFaults /\ faults' = faults + 1

\* execute_query_task looks at the watch without marking it seen.
BeginTask ==
  /\ pc = "registered"
  /\ IF cancel = "Waiting" THEN Goto("opening") ELSE EndWith("Cancelled", "publish")
  /\ UNCHANGED <<coreVars, hubVars, ownVars, streamVars, faults>>

OpenSession ==
  /\ pc = "opening"
  /\ \/ /\ session' = "open"
        /\ IF cancel = "Waiting" THEN Goto("execute") ELSE EndWith("Cancelled", "close")
        /\ UNCHANGED faults
     \/ Fault /\ EndWith("Failed", "publish") /\ UNCHANGED session
  /\ UNCHANGED <<coreVars, hubVars, writer, appended, streamVars>>

ExecuteQuery ==
  /\ pc = "execute"
  /\ \/ engine' = "executing" /\ Goto("select") /\ UNCHANGED faults
     \/ Fault /\ EndWith("Failed", "close") /\ UNCHANGED engine
  /\ UNCHANGED <<coreVars, hubVars, ownVars, asked, produced, credits, queue,
                 routed, terminal>>

CancelPending == cancel = "changed" /\ accepted = "no"

\* consume_stream, the biased branch: a change of the watch.
SelectCancel_Fault ==
  /\ pc = "select" /\ CancelPending
  /\ cancel' = "seen"
  /\ Goto("select")
  /\ UNCHANGED <<coreVars, status, reported, ownVars, streamVars, faults>>

SelectCancel ==
  /\ pc = "select" /\ CancelPending
  /\ cancel' = "seen"
  /\ Goto("cancel")
  /\ UNCHANGED <<coreVars, status, reported, ownVars, streamVars, faults>>

\* QueryStream.cancel for the user.  A stream whose terminal frame was routed
\* takes no control requests, which is an error here; a query that is over
\* but not yet routed is answered AlreadyTerminal or UnknownRequest.
CancelStream ==
  /\ pc = "cancel"
  /\ \/ /\ routed = "no"
        /\ IF engine \in Live
           THEN /\ asked' = "yes" /\ accepted' = "yes"
                /\ pc' = "select" /\ UNCHANGED <<outcome, event>>
           ELSE Goto("select") /\ UNCHANGED asked
        /\ UNCHANGED faults
     \/ /\ routed = "yes"
        /\ EndWith("Failed", "settle")
        /\ UNCHANGED <<asked, faults>>
     \/ Fault /\ EndWith("Failed", "settle") /\ UNCHANGED asked
  /\ UNCHANGED <<coreVars, hubVars, ownVars, engine, produced, credits, queue,
                 routed, terminal>>

Handler(e) ==
  CASE e = "Started" -> "begin"
    [] e = "Batch" -> "append"
    [] e = "Completed" -> "finish"
    [] OTHER -> "settle"

\* The other branch: the next event of the stream.  An error ends the task:
\* as a cancellation if one was accepted and the error says so.
NextEvent ==
  /\ pc = "select" /\ ~CancelPending /\ queue # <<>>
  /\ event' = Head(queue) /\ queue' = Tail(queue)
  /\ terminal' = IF Head(queue) \in Ends THEN "yes" ELSE "no"
  /\ pc' = Handler(Head(queue))
  /\ outcome' = CASE Head(queue) = "Cancelled" /\ accepted = "yes" -> "Cancelled"
                  [] Head(queue) \in {"Failed", "Cancelled"} -> "Failed"
                  [] OTHER -> outcome
  /\ UNCHANGED <<coreVars, hubVars, accepted, ownVars, engine, asked, produced,
                 credits, routed, faults>>

\* RetainedWriter::begin.
BeginWriter ==
  /\ pc = "begin"
  /\ \/ writer' = "open" /\ Goto("report") /\ UNCHANGED faults
     \/ Fault /\ EndWith("Failed", "settle") /\ UNCHANGED writer
  /\ UNCHANGED <<coreVars, hubVars, session, appended, streamVars>>

\* RetainedWriter::append: the batch is persisted before anything else.
AppendBatch_Fault ==
  /\ pc = "append"
  /\ \/ appended' = appended + 1 /\ Goto("report") /\ UNCHANGED faults
     \/ Fault /\ Goto("report") /\ UNCHANGED appended
  /\ UNCHANGED <<coreVars, hubVars, session, writer, streamVars>>

AppendBatch ==
  /\ pc = "append"
  /\ \/ appended' = appended + 1 /\ Goto("report") /\ UNCHANGED faults
     \/ Fault /\ EndWith("Failed", "settle") /\ UNCHANGED appended
  /\ UNCHANGED <<coreVars, hubVars, session, writer, streamVars>>

\* OperationHub.started and progress; the hub ignores events of an operation
\* that is over.
Report ==
  /\ pc = "report"
  /\ reported' = IF status = "Running" THEN appended ELSE reported
  /\ Goto("grant")
  /\ UNCHANGED <<coreVars, status, cancel, ownVars, streamVars, faults>>

\* grant_next_credit: an inactive stream is no error.
GrantNextCredit ==
  /\ pc = "grant"
  /\ \/ /\ credits' = IF engine \in Live THEN credits + 1 ELSE credits
        /\ Goto("select") /\ UNCHANGED faults
     \/ Fault /\ EndWith("Failed", "settle") /\ UNCHANGED credits
  /\ UNCHANGED <<coreVars, hubVars, ownVars, engine, asked, produced, queue,
                 routed, terminal>>

\* The writer is taken and finished; one that fails removes its result, unless
\* the store cannot tell whether its commit was applied.
FinishWriter_Fault ==
  /\ pc = "finish"
  /\ \/ writer' = "complete" /\ UNCHANGED faults
     \/ Fault /\ writer' = "aborted"
  /\ EndWith("Completed", "close")
  /\ UNCHANGED <<coreVars, hubVars, session, appended, streamVars>>

FinishWriter ==
  /\ pc = "finish"
  /\ \/ writer' = "complete" /\ EndWith("Completed", "close") /\ UNCHANGED faults
     \/ /\ Fault /\ writer' \in {"aborted", "complete"}
        /\ EndWith("Failed", "settle")
  /\ UNCHANGED <<coreVars, hubVars, session, appended, streamVars>>

\* settle_query_stream cancels; an inactive stream is no error here.
SettleQueryStream_Fault ==
  /\ pc = "settle"
  /\ Goto("close")
  /\ UNCHANGED <<coreVars, hubVars, ownVars, streamVars, faults>>

SettleQueryStream ==
  /\ pc = "settle"
  /\ \/ /\ asked' = IF engine \in Live THEN "yes" ELSE asked
        /\ Goto("drain") /\ UNCHANGED faults
     \/ Fault /\ Goto("abort") /\ UNCHANGED asked
  /\ UNCHANGED <<coreVars, hubVars, ownVars, engine, produced, credits, queue,
                 routed, terminal>>

\* Then it discards events up to the terminal one.
Drain ==
  /\ pc = "drain"
  /\ IF terminal = "yes"
     THEN Goto("abort") /\ UNCHANGED <<queue, terminal>>
     ELSE /\ queue # <<>>
          /\ queue' = Tail(queue)
          /\ terminal' = IF Head(queue) \in Ends THEN "yes" ELSE "no"
          /\ Goto("drain")
  /\ UNCHANGED <<coreVars, hubVars, ownVars, engine, asked, produced, credits,
                 routed, faults>>

\* finish_stream_consumption aborts the writer that is left, and drops the
\* stream.
AbortWriter ==
  /\ pc = "abort"
  /\ writer' = IF writer = "open" THEN "aborted" ELSE writer
  /\ Goto("close")
  /\ UNCHANGED <<coreVars, hubVars, session, appended, streamVars, faults>>

\* Session::close.  The engine refuses it while the query still runs; a close
\* that fails may have closed the connection or not.  It spoils a success, not
\* an error.
CloseSession ==
  /\ pc = "close"
  /\ \/ /\ engine \notin Live
        /\ session' = "closed" /\ Goto("publish") /\ UNCHANGED faults
     \/ /\ \/ engine \in Live /\ session' = "left" /\ UNCHANGED faults
           \/ Fault /\ session' \in {"closed", "left"}
        /\ EndWith(IF outcome = "Completed" THEN "Failed" ELSE outcome, "publish")
  /\ UNCHANGED <<coreVars, hubVars, writer, appended, streamVars>>

\* run_query_task ends the operation, unless the shutdown did.
Publish ==
  /\ pc = "publish"
  /\ status' = IF status = "Running" THEN outcome ELSE status
  /\ Goto("remove")
  /\ UNCHANGED <<coreVars, reported, cancel, ownVars, streamVars, faults>>

RemoveTask ==
  /\ pc = "remove"
  /\ tasks' = "out" /\ Goto("ended")
  /\ UNCHANGED <<accepting, join, hubVars, ownVars, streamVars, faults>>

TaskStep ==
  \/ BeginTask \/ OpenSession \/ ExecuteQuery \/ SelectCancel \/ CancelStream
  \/ NextEvent \/ BeginWriter \/ AppendBatch \/ Report \/ GrantNextCredit
  \/ FinishWriter \/ SettleQueryStream \/ Drain \/ AbortWriter \/ CloseSession
  \/ Publish \/ RemoveTask

-----------------------------------------------------------------------------
(* The engine and the bridge, as QueryStream shows them. *)

EngineStarts ==
  /\ engine = "executing"
  /\ engine' = "started" /\ queue' = Append(queue, "Started")
  /\ UNCHANGED <<coreVars, hubVars, taskVars, ownVars, asked, produced, credits,
                 routed, terminal, faults>>

EngineSendsBatch ==
  /\ engine = "started" /\ credits > 0 /\ produced < MaxBatches
  /\ credits' = credits - 1 /\ produced' = produced + 1
  /\ queue' = Append(queue, "Batch")
  /\ UNCHANGED <<coreVars, hubVars, taskVars, ownVars, engine, asked, routed,
                 terminal, faults>>

\* A completion follows the start; a database error or the deadline may end
\* the query at any time, a cancellation once it was asked for.
EngineEnds ==
  /\ \/ engine = "started" /\ engine' = "Completed" /\ UNCHANGED faults
     \/ engine \in Live /\ asked = "yes" /\ engine' = "Cancelled" /\ UNCHANGED faults
     \/ engine \in Live /\ Fault /\ engine' = "Failed"
  /\ UNCHANGED <<coreVars, hubVars, taskVars, ownVars, asked, produced, credits,
                 queue, routed, terminal>>

\* The bridge routes the terminal frame: the request is no longer active, its
\* event is queued.
RouteTerminal ==
  /\ engine \in Ends /\ routed = "no"
  /\ routed' = "yes" /\ queue' = Append(queue, engine)
  /\ UNCHANGED <<coreVars, hubVars, taskVars, ownVars, engine, asked, produced,
                 credits, terminal, faults>>

BridgeStep == EngineStarts \/ EngineSendsBatch \/ EngineEnds \/ RouteTerminal

-----------------------------------------------------------------------------
Next ==
  \/ StartPreparedQuery \/ Register \/ CallerGone \/ UserCancel
  \/ BeginShutdown \/ JoinQueryTasks \/ TaskJoined \/ JoinTimeout
  \/ JoinCancels \/ TaskAborted
  \/ TaskStep \/ BridgeStep

Spec == Init /\ [][Next]_vars

\* The runtime schedules tasks that can go on; the engine ends a query it was
\* asked to cancel (or whose deadline passed), and the bridge routes its end.
\* The shutdown that aborts a task goes on to end its operation.
\* Nothing makes users or the shutdown act.
FairSpec ==
  /\ Spec
  /\ WF_vars(TaskStep) /\ WF_vars(JoinCancels)
  /\ WF_vars(asked = "yes" /\ EngineEnds) /\ WF_vars(RouteTerminal)

-----------------------------------------------------------------------------
(* Properties. *)

\* Batches are persisted before their progress is emitted, and before the
\* engine gets the credit for the next one: it is never ahead by more than a
\* batch.
PersistedFirst ==
  /\ reported <= appended
  /\ produced + credits <= appended + 1

\* An operation is completed only with a complete result that holds every
\* batch of a query the engine completed.
CompletedIsWhole ==
  status = "Completed" =>
    /\ engine = "Completed" /\ writer = "complete"
    /\ appended = produced

\* Whichever way the task ended, or was aborted, it left no writer unfinished;
\* a task that was not aborted has tried to close its session; and where no
\* call failed it left neither a session in the engine nor a running query.
\* (A task the shutdown aborts leaves its session to the end of the process.)
NothingLeftBehind ==
  /\ pc \in {"ended", "aborted"} => writer # "open"
  /\ pc = "ended" => session # "open"
  /\ pc = "ended" /\ faults = 0 => session # "left" /\ engine \notin Live

\* A cancellation ends the operation of a registered task, wherever it meets
\* the task.
CancelEnds ==
  (cancel # "Waiting" /\ pc \notin {"spawned", "abandoned"}) ~> status # "Running"

\* The comment of grant_next_credit: the terminal event that is already queued
\* remains mandatory.  So a query that the engine completed is not reported as
\* failed when nothing failed.
CompletionKept == faults = 0 /\ engine = "Completed" => status # "Failed"

\* The delivery hosts shut down active operations on exit.
ShutdownEndsOperations == join = "done" => status # "Running"
=============================================================================
