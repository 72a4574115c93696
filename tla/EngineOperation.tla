--------------------------- MODULE EngineOperation ---------------------------
(***************************************************************************)
(* The Java end of a query: OperationRegistry with its QueryOperation, the  *)
(* query worker (JdbcRuntime.runQuery and streamRows), the cancellation     *)
(* worker, the deadline watchdog, the protocol loop's control requests and  *)
(* the single ProtocolWriter thread.                                        *)
(*                                                                          *)
(* Each `synchronized' method of QueryOperation is one step.  The driver is *)
(* external: a JDBC call succeeds or throws, whatever was cancelled, and    *)
(* Statement.cancel may take arbitrarily long.  A cancellation worker queue *)
(* that refuses the task records the same failure as a Statement.cancel     *)
(* that throws, so CancelReturns stands for both.  The query runs outside a *)
(* transaction, so markQueryFailure changes nothing.  A write that fails    *)
(* ends the process, as Crash does.                                         *)
(*                                                                          *)
(* A definition X_Fault is a faulty variant of the X that follows it.       *)
(***************************************************************************)
EXTENDS QueryWire

CONSTANTS
  BatchRows,   \* row counts a batch may have (target_batch_rows, bytes)
  MaxBatches   \* bound: row batches the result set fills

ASSUME BatchAssumption ==
  /\ BatchRows \subseteq Nat \ {0} /\ BatchRows # {}
  /\ MaxBatches \in Nat

VARIABLES
  entry,       \* OperationRegistry: none, active, leaving (removed from
               \* active, not yet in retired) or retired
  credits, reserved,   \* QueryOperation.credits and reservedCredits
  flags,       \* the QueryOperation's booleans that are true
  cause,       \* cancellationReason
  worker,      \* where the query worker is
  verdict,     \* completion or terminalFailure of runQuery, none before
  batch,       \* the batch being filled or written: rows and exhausted
  sequence,    \* QueryProgress
  rowCount,    \* rows read so far
  batches,     \* batches filled so far
  resources,   \* statement and result set: none, open or closed
  canceller,   \* the cancellation worker: idle, or inside Statement.cancel
  watchdog,    \* deadlineWatchdog: armed or fired
  session,     \* JdbcSession.state: ready or broken
  dispatched,  \* the protocol loop's response, decided but not yet queued
  writer       \* ProtocolWriter's queue

creditVars == <<credits, reserved>>
opVars == <<entry, creditVars, flags, cause>>
dataVars == <<batch, sequence, rowCount, batches>>
runVars == <<worker, verdict, dataVars>>
jdbcVars == <<resources, canceller, watchdog, session>>
outVars == <<dispatched, writer>>
engineVars == <<opVars, runVars, jdbcVars, outVars>>

NoBatch == [rows |-> 0, exhausted |-> "no"]

EngineInit ==
  /\ entry = "none" /\ credits = 0 /\ reserved = 0 /\ flags = {}
  /\ cause = "NONE" /\ worker = "idle" /\ verdict = "none"
  /\ batch = NoBatch /\ sequence = 0 /\ rowCount = 0 /\ batches = 0
  /\ resources = "none" /\ canceller = "idle" /\ watchdog = "armed"
  /\ session = "ready"
  /\ dispatched = <<>> /\ writer = <<>>

-----------------------------------------------------------------------------
(* The protocol writer.  ProtocolWriter.write queues the envelope and waits *)
(* until it is flushed, so each thread has at most one envelope queued.     *)

Enqueue(f, thread) ==
  writer' = Append(writer, [frame |-> f, thread |-> thread, before |-> "todo"])

LoopIsWriting == \E i \in DOMAIN writer : writer[i].thread = "loop"

IsTerminal(f) == f.id = Query /\ f.kind \in {"completed", "error"}

\* OperationRegistry.completeNow up to the release of the session.
CompleteNow(fl) ==
  /\ flags' = (fl \cup {"terminal", "sealed"}) \ {"statement"}
  /\ entry' = IF entry = "active" THEN "leaving" ELSE entry

\* OperationRegistry.complete: nothing while the release is deferred.
Complete ==
  IF "deferred" \in flags /\ "cleaned" \notin flags
  THEN UNCHANGED <<flags, entry>>
  ELSE CompleteNow(flags)

\* beforeWrite of the terminal envelope: operations.finish.
BeforeWrite_Fault ==
  /\ Up /\ writer # <<>>
  /\ Head(writer).before = "todo" /\ IsTerminal(Head(writer).frame)
  /\ Head(writer).thread = "worker"
  /\ writer' = [writer EXCEPT ![1].before = "done"]
  /\ UNCHANGED <<dispatched, opVars, runVars, jdbcVars, wireVars>>

BeforeWrite ==
  /\ Up /\ writer # <<>>
  /\ Head(writer).before = "todo" /\ IsTerminal(Head(writer).frame)
  /\ Head(writer).thread = "worker"
  /\ writer' = [writer EXCEPT ![1].before = "done"]
  /\ Complete
  /\ UNCHANGED <<cause, dispatched, runVars, jdbcVars, creditVars, wireVars>>

\* The last statements of completeNow: the id joins the retired requests.
JoinRetired ==
  /\ Up /\ entry = "leaving"
  /\ entry' = "retired"
  /\ UNCHANGED <<flags, cause, outVars, runVars, jdbcVars, creditVars,
                 wireVars>>

AfterFlush == [start |-> "await", send |-> "sent", respond |-> "responded"]

\* runWriter: the envelope is on the pipe and its thread goes on.  The step
\* of beforeWrite comes first, to its end.
FlushFrame ==
  LET w == Head(writer) IN
  /\ Up /\ writer # <<>>
  /\ w.thread = "worker" /\ IsTerminal(w.frame) =>
       w.before = "done" /\ entry # "leaving"
  /\ writer' = Tail(writer)
  /\ SendToHost(w.frame)
  /\ worker' = IF w.thread = "worker" THEN AfterFlush[worker] ELSE worker
  /\ sequence' = IF w.thread = "worker" /\ worker = "start"
                 THEN sequence + 1 ELSE sequence
  /\ UNCHANGED <<verdict, batch, rowCount, batches, dispatched, toEngine,
                 generation, deadline, opVars, jdbcVars>>

-----------------------------------------------------------------------------
(* The protocol loop: one request at a time.  It decides the response, then *)
(* queues it, and reads on when it is flushed; what the other threads do    *)
(* between the two is not in the response.                                  *)

Received(kind) ==
  /\ Up /\ toEngine # <<>> /\ Head(toEngine).kind = kind
  /\ dispatched = <<>> /\ ~ LoopIsWriting
  /\ toEngine' = Tail(toEngine)

Dispatch(f) == dispatched' = <<f>>

\* serve: writer.write(dispatch.response()).
QueueResponse ==
  /\ Up /\ dispatched # <<>>
  /\ Enqueue(Head(dispatched), "loop")
  /\ dispatched' = <<>>
  /\ UNCHANGED <<opVars, runVars, jdbcVars, wireVars>>

Answer(m, kind) == [kind |-> kind, id |-> m.id]

\* A failure carries the session state of the moment it is decided
\* (attachSessionState), the refusal of a grant too.
Refusal(m, code) ==
  [kind |-> "refused", id |-> m.id, code |-> code, session |-> session]
Failure(seq, code) ==
  [kind |-> "error", id |-> Query, seq |-> seq, code |-> code,
   session |-> session]

\* executeQuery: register claims the session, submit hands over to a worker.
RegisterQuery ==
  /\ Received("query")
  /\ deadline = "ahead"
  /\ entry' = "active"
  /\ credits' = Head(toEngine).credits
  /\ worker' = "prepare"
  /\ UNCHANGED <<reserved, flags, cause, verdict, outVars, toHost, generation,
                 deadline, jdbcVars, dataVars>>

\* executeQuery throws: the request is invalid or late, the session is not
\* usable or no worker is free (then submit completed the operation).
RefuseQuery ==
  /\ Received("query")
  /\ entry' \in {"none", "retired"}
  /\ Dispatch(Failure(0, "refused"))
  /\ UNCHANGED <<flags, cause, writer, toHost, generation, deadline, runVars,
                 jdbcVars, creditVars>>

\* grantCredits and QueryOperation.addCredits.
GrantError(n) ==
  IF entry # "active" \/ flags \cap {"terminal", "sealed"} # {}
  THEN "not_active"
  ELSE IF credits + reserved > MaxOutstandingCredits - n
       THEN "credit_overflow" ELSE "none"

GrantCredits_Fault ==
  LET m == Head(toEngine) IN
  /\ Received("grant")
  /\ credits' = credits + m.credits
  /\ Dispatch(IF GrantError(m.credits) = "none" THEN Answer(m, "granted")
              ELSE Refusal(m, GrantError(m.credits)))
  /\ UNCHANGED <<entry, reserved, flags, cause, writer, toHost, generation,
                 deadline, runVars, jdbcVars>>

GrantCredits ==
  LET m == Head(toEngine)
      error == GrantError(m.credits)
  IN
  /\ Received("grant")
  /\ credits' = IF error = "none" THEN credits + m.credits ELSE credits
  /\ Dispatch(IF error = "none" THEN Answer(m, "granted")
                               ELSE Refusal(m, error))
  /\ UNCHANGED <<entry, reserved, flags, cause, writer, toHost, generation,
                 deadline, runVars, jdbcVars>>

\* QueryOperation.requestCancellation and the hand-over of the statement to a
\* cancellation worker.
RequestCancellation(why) ==
  IF flags \cap {"terminal", "sealed"} # {}
  THEN UNCHANGED <<flags, cause, canceller>>
  ELSE /\ cause' = IF "cancelled" \in flags THEN cause ELSE why
       /\ IF "statement" \in flags /\ "pending" \notin flags
          THEN /\ flags' = flags \cup {"cancelled", "pending"}
               /\ canceller' = "cancelling"
          ELSE flags' = flags \cup {"cancelled"} /\ UNCHANGED canceller

\* OperationRegistry.cancel.
Disposition ==
  CASE entry = "active" /\ flags \cap {"terminal", "sealed"} = {} -> "accepted"
    [] entry = "active" \/ entry = "retired" -> "already_terminal"
    [] OTHER -> "unknown_request"

CancelOperation ==
  /\ Received("cancel")
  /\ IF entry = "active" THEN RequestCancellation("USER")
                         ELSE UNCHANGED <<flags, cause, canceller>>
  /\ Dispatch(Answer(Head(toEngine), Disposition))
  /\ UNCHANGED <<entry, resources, session, writer, toHost, generation,
                 deadline, watchdog, runVars, creditVars>>

\* The deadline watchdog fires once, unless the operation is sealed first.
Watchdog ==
  /\ Up /\ deadline = "passed" /\ entry = "active"
  /\ watchdog = "armed" /\ "sealed" \notin flags
  /\ watchdog' = "fired"
  /\ RequestCancellation("DEADLINE")
  /\ UNCHANGED <<entry, resources, session, outVars, runVars, creditVars,
                 wireVars>>

-----------------------------------------------------------------------------
(* The cancellation worker. *)

\* takeDeferredCleanupIfReady: whoever completes the conditions cleans up.
TakeCleanup(fl) ==
  IF /\ {"deferred", "responded"} \subseteq fl
     /\ fl \cap {"pending", "cleaning"} = {}
  THEN fl \cup {"cleaning"} ELSE fl

\* cancelInstalledStatement: Statement.cancel returned or threw.
CancelReturns ==
  /\ Up /\ canceller = "cancelling"
  /\ canceller' = "idle"
  /\ \E failed \in {{}, {"failure"}} :
       flags' = TakeCleanup((flags \ {"pending"}) \cup failed)
  /\ UNCHANGED <<entry, cause, resources, session, outVars, watchdog, runVars,
                 creditVars, wireVars>>

\* The deferred cleanup: close the JDBC resources, then release the session.
RunCleanup ==
  /\ Up /\ "cleaning" \in flags /\ "cleaned" \notin flags
  /\ resources' = IF resources = "open" THEN "closed" ELSE resources
  /\ session' \in {session, "broken"}
  /\ CompleteNow(flags \cup {"cleaned"})
  /\ UNCHANGED <<cause, canceller, watchdog, outVars, runVars, creditVars,
                 wireVars>>

-----------------------------------------------------------------------------
(* The query worker. *)

\* checkDeadlineAndCancellation: what it sets, then what it throws.
NoteDeadline(fl) ==
  IF "cancelled" \notin fl /\ deadline = "passed"
  THEN fl \cup {"cancelled"} ELSE fl
CauseNoted ==
  IF "cancelled" \notin flags /\ deadline = "passed" THEN "DEADLINE" ELSE cause
Thrown(fl, why) ==
  CASE "failure" \in fl -> "cancel_failed"
    [] "failure" \notin fl /\ "cancelled" \in fl ->
         (IF why = "DEADLINE" THEN "deadline" ELSE "cancelled")
    [] OTHER -> "none"
CheckNow == Thrown(NoteDeadline(flags), CauseNoted)

NoteCancellation ==
  /\ flags' = NoteDeadline(flags)
  /\ cause' = CauseNoted
  /\ session' = IF CheckNow = "cancel_failed" THEN "broken" ELSE session

\* runQuery catches a failure and goes to its finally block.
Throw(failure) == worker' = "seal" /\ verdict' = failure

\* A check before a JDBC call; the call itself may block.
CheckedCall == [prepare |-> "preparing", execute |-> "executing",
                fill |-> "filling"]

ReturnCredit == credits' = credits + 1 /\ reserved' = reserved - 1

\* checkDeadlineAndCancellation before prepareStatement, executeQuery and the
\* reads of the result set; the last one holds a reserved credit.
Check ==
  /\ Up /\ worker \in DOMAIN CheckedCall
  /\ NoteCancellation
  /\ IF CheckNow = "none"
     THEN /\ worker' = CheckedCall[worker]
          /\ UNCHANGED <<verdict, creditVars>>
     ELSE /\ Throw(CheckNow)
          /\ IF worker = "fill" THEN ReturnCredit ELSE UNCHANGED creditVars
  /\ UNCHANGED <<entry, resources, canceller, watchdog, outVars, dataVars,
                 wireVars>>

\* The call throws.  After an SQLException the cancellation that may have
\* caused it wins; a limit or an unchecked exception is reported as it is,
\* and the latter breaks the session.
CallThrows ==
  /\ Up /\ worker \in {CheckedCall[c] : c \in DOMAIN CheckedCall}
  /\ \/ /\ NoteCancellation
        /\ Throw(IF CheckNow = "none" THEN "database" ELSE CheckNow)
     \/ /\ session' \in {session, "broken"}
        /\ Throw("internal")
        /\ UNCHANGED <<flags, cause>>
  /\ IF worker = "filling" THEN ReturnCredit ELSE UNCHANGED creditVars
  /\ UNCHANGED <<entry, resources, canceller, watchdog, outVars, dataVars,
                 wireVars>>

\* prepareStatement returns and installStatement publishes the statement:
\* from here a cancellation reaches it, and an earlier one is noticed.
InstallStatement ==
  /\ Up /\ worker = "preparing"
  /\ resources' = "open"
  /\ flags' = flags \cup {"statement"}
  /\ IF Thrown(flags, cause) # "none"
     THEN Throw(Thrown(flags, cause))
     ELSE worker' = "execute" /\ UNCHANGED verdict
  /\ UNCHANGED <<entry, cause, canceller, watchdog, session, outVars,
                 creditVars, dataVars, wireVars>>

\* executeQuery returns; the QueryStarted envelope is written.
WriteStarted ==
  /\ Up /\ worker = "executing"
  /\ worker' = "start"
  /\ Enqueue([kind |-> "started", id |-> Query, seq |-> sequence], "worker")
  /\ UNCHANGED <<verdict, dispatched, opVars, jdbcVars, dataVars, wireVars>>

\* awaitCredit: a credit is reserved before the result set is read.
AwaitCredit ==
  /\ Up /\ worker = "await"
  /\ \/ /\ credits > 0 /\ Thrown(flags, cause) = "none"
        /\ credits' = credits - 1 /\ reserved' = reserved + 1
        /\ worker' = "fill"
        /\ UNCHANGED <<flags, cause, verdict, session>>
     \/ /\ Thrown(flags, cause) # "none"
        /\ Throw(Thrown(flags, cause))
        /\ session' = IF "failure" \in flags THEN "broken" ELSE session
        /\ UNCHANGED <<credits, reserved, flags, cause>>
     \/ /\ credits = 0 /\ Thrown(flags, cause) = "none" /\ deadline = "passed"
        /\ NoteCancellation /\ Throw("deadline")
        /\ UNCHANGED <<credits, reserved>>
  /\ UNCHANGED <<entry, resources, canceller, watchdog, outVars, dataVars,
                 wireVars>>

\* The inner loop of streamRows ends: the batch is full, or the result set is
\* exhausted; an empty batch gives its credit back.
FillBatch ==
  /\ Up /\ worker = "filling"
  /\ \/ \E rows \in BatchRows, exhausted \in {"no", "yes"} :
          /\ batches < MaxBatches
          /\ batches' = batches + 1
          /\ rowCount' = rowCount + rows
          /\ batch' = [rows |-> rows, exhausted |-> exhausted]
          /\ worker' = "write"
          /\ UNCHANGED <<verdict, creditVars>>
     \/ /\ worker' = "seal" /\ verdict' = "completed" /\ ReturnCredit
        /\ UNCHANGED <<batch, rowCount, batches>>
  /\ UNCHANGED <<entry, flags, cause, sequence, outVars, jdbcVars, wireVars>>

\* writeBatch up to the blocking write.
WriteBatch ==
  /\ Up /\ worker = "write"
  /\ NoteCancellation
  /\ IF CheckNow # "none"
     THEN Throw(CheckNow) /\ ReturnCredit /\ UNCHANGED writer
     ELSE /\ Enqueue([kind |-> "batch", id |-> Query, seq |-> sequence,
                      offset |-> rowCount - batch.rows, rows |-> batch.rows],
                     "worker")
          /\ worker' = "send"
          /\ UNCHANGED <<verdict, creditVars>>
  /\ UNCHANGED <<entry, resources, canceller, watchdog, dispatched, dataVars,
                 wireVars>>

\* writeBatch after the write: consumeReservedCredit and progress.advance.
BatchWritten_Fault ==
  /\ Up /\ worker = "sent"
  /\ reserved' = reserved - 1
  /\ IF batch.exhausted = "yes"
     THEN worker' = "seal" /\ verdict' = "completed"
     ELSE worker' = "await" /\ UNCHANGED verdict
  /\ UNCHANGED <<entry, credits, flags, cause, outVars, jdbcVars, dataVars,
                 wireVars>>

BatchWritten ==
  /\ Up /\ worker = "sent"
  /\ reserved' = reserved - 1
  /\ sequence' = sequence + 1
  /\ IF batch.exhausted = "yes"
     THEN worker' = "seal" /\ verdict' = "completed"
     ELSE worker' = "await" /\ UNCHANGED verdict
  /\ UNCHANGED <<entry, credits, flags, cause, batch, rowCount, batches,
                 outVars, jdbcVars, wireVars>>

\* sealAndAwaitCancellation, first part: no cancellation is accepted after.
Seal ==
  /\ Up /\ worker = "seal"
  /\ flags' = NoteDeadline(flags) \cup {"sealed"}
  /\ cause' = CauseNoted
  /\ worker' = "settle"
  /\ UNCHANGED <<entry, verdict, outVars, jdbcVars, creditVars, dataVars,
                 wireVars>>

\* Which failure the finally block keeps.
Settled(thrown) ==
  IF \/ thrown \in {"cancel_failed", "cancel_timeout"}
     \/ verdict = "completed" /\ thrown # "none"
  THEN thrown ELSE verdict

\* ... second part: the cancellation settled, or the timeout elapsed.
SettleWith(thrown) ==
  /\ Up /\ worker = "settle"
  /\ worker' = "release"
  /\ verdict' = Settled(thrown)
  /\ session' = IF thrown \in {"cancel_timeout", "cancel_failed"}
                THEN "broken" ELSE session
  /\ UNCHANGED <<resources, canceller, watchdog, outVars, opVars, dataVars,
                 wireVars>>

Settle_Fault ==
  SettleWith(IF "pending" \in flags THEN "cancel_timeout" ELSE "none")

Settle ==
  SettleWith(IF "pending" \in flags THEN "cancel_timeout"
                                    ELSE Thrown(flags, cause))

\* The rest of the finally block: with a cancellation still pending the
\* cleanup is left to it, otherwise the resources are closed now, which may
\* fail.
Release_Fault ==
  /\ Up /\ worker = "release"
  /\ resources' = IF resources = "open" THEN "closed" ELSE resources
  /\ flags' = flags \ {"statement"}
  /\ worker' = "reply"
  /\ UNCHANGED <<entry, cause, verdict, canceller, watchdog, session, outVars,
                 creditVars, dataVars, wireVars>>

Release ==
  /\ Up /\ worker = "release"
  /\ IF "pending" \in flags
     THEN worker' = "defer" /\ UNCHANGED <<flags, resources, session, verdict>>
     ELSE /\ worker' = "reply"
          /\ flags' = flags \ {"statement"}
          /\ \/ /\ resources' = IF resources = "open" THEN "closed"
                                                      ELSE resources
                /\ UNCHANGED <<session, verdict>>
             \/ /\ resources = "open" /\ resources' = "closed"
                /\ session' = "broken"
                /\ verdict' = IF verdict = "completed" THEN "close_failed"
                                                       ELSE verdict
  /\ UNCHANGED <<entry, cause, canceller, watchdog, outVars, creditVars,
                 dataVars, wireVars>>

\* deferFinish: the cancellation may have settled since it was seen pending.
DeferFinish ==
  /\ Up /\ worker = "defer"
  /\ worker' = "reply"
  /\ flags' = TakeCleanup(flags \cup {"deferred"})
  /\ UNCHANGED <<entry, cause, verdict, outVars, jdbcVars, creditVars,
                 dataVars, wireVars>>

\* The terminal envelope: QueryCompleted or the failure.
Reply ==
  /\ Up /\ worker = "reply"
  /\ worker' = "respond"
  /\ Enqueue(IF verdict = "completed"
             THEN [kind |-> "completed", id |-> Query, seq |-> sequence,
                   rows |-> rowCount]
             ELSE Failure(sequence, verdict), "worker")
  /\ UNCHANGED <<verdict, dispatched, opVars, jdbcVars, dataVars, wireVars>>

\* markTerminalResponseFinished, which may start the deferred cleanup.
ResponseFinished_Fault ==
  /\ Up /\ worker = "responded"
  /\ worker' = "finish"
  /\ flags' = flags \cup {"responded"}
  /\ UNCHANGED <<entry, cause, verdict, outVars, jdbcVars, creditVars,
                 dataVars, wireVars>>

ResponseFinished ==
  /\ Up /\ worker = "responded"
  /\ worker' = "finish"
  /\ flags' = TakeCleanup(flags \cup {"responded"})
  /\ UNCHANGED <<entry, cause, verdict, outVars, jdbcVars, creditVars,
                 dataVars, wireVars>>

\* operations.finish at the worker's end, without effect if the writer or a
\* deferred cleanup has already retired the operation or will.
FinishWorker ==
  /\ Up /\ worker = "finish"
  /\ worker' = "done"
  /\ Complete
  /\ UNCHANGED <<cause, verdict, outVars, jdbcVars, creditVars, dataVars,
                 wireVars>>

WorkerNext ==
  \/ Check \/ CallThrows \/ InstallStatement \/ WriteStarted \/ AwaitCredit
  \/ FillBatch \/ WriteBatch \/ BatchWritten \/ Seal \/ Settle \/ Release
  \/ DeferFinish \/ Reply \/ ResponseFinished \/ FinishWorker

EngineNext ==
  \/ BeforeWrite \/ JoinRetired \/ FlushFrame
  \/ RegisterQuery \/ RefuseQuery \/ GrantCredits \/ CancelOperation
  \/ QueueResponse
  \/ Watchdog \/ CancelReturns \/ RunCleanup
  \/ WorkerNext
=============================================================================
