---------------------------- MODULE ResultStore ----------------------------
(***************************************************************************)
(* The retained-result store (chat2db-storage/src/result_store.rs): result  *)
(* files beside an SQLite index, written batch by batch, finished, aborted  *)
(* or dropped, purged when expired, and recovered when the storage is       *)
(* opened after a crash.                                                    *)
(*                                                                          *)
(* Every operation holds the result lock from its first step to its last,   *)
(* so operations do not interleave with each other; they are split into     *)
(* steps because the process or the machine may stop between any two, and   *)
(* because each step may fail.  op, cur and pc tell which operation holds   *)
(* the lock, for which result, and where it is.                             *)
(*                                                                          *)
(* A frame (the schema or a row batch, length prefix included) is the unit  *)
(* of length; it is the number of the append call that wrote it, 0 for the  *)
(* schema, or Torn when only part of it reached the file.  An empty file    *)
(* and no file are not told apart.  SQLite commits are durable (WAL with    *)
(* synchronous = FULL).                                                     *)
(*                                                                          *)
(* A definition X_Fault is a faulty variant of the X that follows it.       *)
(***************************************************************************)
EXTENDS Integers, Sequences, FiniteSets

CONSTANTS
  Results,        \* result ids
  MaxRetained,    \* max_retained_bytes, in frames
  MaxBatches      \* bound: append calls of a writer

ASSUME StoreAssumption ==
  /\ IsFiniteSet(Results) /\ Results # {}
  /\ MaxRetained \in Nat \ {0}
  /\ MaxBatches \in Nat

VARIABLES
  state, indexed, \* the index: a row's state (none: no row) and its frames
  file, durable,  \* a file's frames, and how many of them are synced
  expired,        \* the results whose expires_at_ms is past
  active,         \* the leases behind the lock
  writer,         \* the ResultWriter of a result
  committed,      \* ResultWriter.committed_length (and next_row)
  batch,          \* append calls so far
  answer,         \* what finish, or a begin that failed, told its caller
  op, cur, pc,    \* the operation that holds the lock
  doomed,         \* the result whose row was deleted and whose file is next
  kept            \* results recovery has validated

indexVars == <<state, indexed>>
fileVars == <<file, durable>>
writerVars == <<active, writer, committed, batch, answer>>
lockVars == <<op, cur, pc, doomed, kept>>
vars == <<indexVars, fileVars, expired, writerVars, lockVars>>

Torn == MaxBatches + 1

Init ==
  /\ state = [r \in Results |-> "none"]
  /\ indexed = [r \in Results |-> <<>>]
  /\ file = [r \in Results |-> <<>>]
  /\ durable = [r \in Results |-> 0]
  /\ expired = {} /\ active = {}
  /\ writer = [r \in Results |-> "unborn"]
  /\ committed = [r \in Results |-> 0]
  /\ batch = [r \in Results |-> 0]
  /\ answer = [r \in Results |-> "none"]
  /\ op = "idle" /\ cur \in Results /\ pc = "done"
  /\ doomed = {} /\ kept = {}

-----------------------------------------------------------------------------
(* Calls that take the lock. *)

Lock(operation, r, at) ==
  /\ op = "idle"
  /\ op' = operation /\ cur' = r /\ pc' = at
  /\ UNCHANGED <<doomed, kept>>

BeginResult(r) ==
  /\ writer[r] = "unborn"
  /\ Lock("begin", r, "quota")
  /\ writer' = [writer EXCEPT ![r] = "opening"]
  /\ UNCHANGED <<indexVars, fileVars, expired, active, committed, batch, answer>>

AppendBatch(r) ==
  /\ writer[r] = "open" /\ batch[r] < MaxBatches
  /\ Lock("append", r, "quota")
  /\ batch' = [batch EXCEPT ![r] = @ + 1]
  /\ UNCHANGED <<indexVars, fileVars, expired, active, writer, committed, answer>>

\* A batch that is not valid poisons the writer before the lock is taken.
AppendInvalid(r) ==
  /\ op = "idle" /\ writer[r] = "open" /\ batch[r] < MaxBatches
  /\ writer' = [writer EXCEPT ![r] = "poisoned"]
  /\ batch' = [batch EXCEPT ![r] = @ + 1]
  /\ UNCHANGED <<indexVars, fileVars, expired, active, committed, answer,
                 lockVars>>

Finish(r) ==
  /\ writer[r] = "open"
  /\ Lock("finish", r, "commit")
  /\ UNCHANGED <<indexVars, fileVars, expired, writerVars>>

\* finish of a poisoned writer, or with another row count: an error, and the
\* writer is dropped.
FinishRefused(r) ==
  /\ writer[r] \in {"open", "poisoned"}
  /\ Lock("drop", r, "delete")
  /\ answer' = [answer EXCEPT ![r] = "error"]
  /\ active' = active \ {r}
  /\ UNCHANGED <<indexVars, fileVars, expired, writer, committed, batch>>

\* abort; when its deletion fails the writer is dropped.
Abort(r) ==
  /\ writer[r] \in {"open", "poisoned"}
  /\ Lock("abort", r, "delete")
  /\ active' = active \ {r}
  /\ UNCHANGED <<indexVars, fileVars, expired, writer, committed, batch, answer>>

DropWriter(r) ==
  /\ writer[r] \in {"open", "poisoned", "dropping"}
  /\ Lock("drop", r, "delete")
  /\ active' = active \ {r}
  /\ UNCHANGED <<indexVars, fileVars, expired, writer, committed, batch, answer>>

PurgeExpired ==
  /\ Lock("purge", cur, "purge")
  /\ UNCHANGED <<indexVars, fileVars, expired, writerVars>>

\* The clock, read once by every call.
Expire(r) ==
  /\ op = "idle" /\ writer[r] # "unborn"
  /\ expired' = expired \cup {r}
  /\ UNCHANGED <<indexVars, fileVars, writerVars, lockVars>>

-----------------------------------------------------------------------------
(* How an operation ends. *)

Release == op' = "idle" /\ pc' = "done" /\ doomed' = {} /\ UNCHANGED <<cur, kept>>

SetWriter(w) == writer' = [writer EXCEPT ![cur] = w]
SetAnswer(a) == answer' = [answer EXCEPT ![cur] = a]

\* Any error poisons the writer that append_batch belongs to.
AppendFailed == SetWriter("poisoned")

\* The error return of each operation.  The known failure of finish drops the
\* writer, which takes the lock again.
FailWith ==
  /\ Release
  /\ CASE op = "begin"  -> SetWriter("gone") /\ SetAnswer("error")
       [] op = "append" -> AppendFailed /\ UNCHANGED answer
       [] op = "finish" -> SetWriter("dropping") /\ SetAnswer("error")
       [] op = "abort"  -> SetWriter("dropping") /\ UNCHANGED answer
       [] op = "drop"   -> SetWriter("gone") /\ UNCHANGED answer
       [] OTHER         -> UNCHANGED <<writer, answer>>
  /\ UNCHANGED <<active, committed, batch>>

\* The error returns before the frame of begin_result is indexed remove its
\* file, as far as that works (PendingResultFile).
FailAndClean(content) ==
  /\ FailWith
  /\ \E left \in {content} \cup IF op = "begin" THEN {<<>>} ELSE {} :
       /\ file' = [file EXCEPT ![cur] = left]
       /\ durable' = IF left = <<>> THEN [durable EXCEPT ![cur] = 0] ELSE durable

Succeed ==
  /\ Release
  /\ CASE op = "begin"  -> /\ active' = active \cup {cur}
                           /\ SetWriter("open")
                           /\ committed' = [committed EXCEPT ![cur] = 1]
                           /\ UNCHANGED answer
       [] op = "append" -> /\ committed' = [committed EXCEPT ![cur] = @ + 1]
                           /\ UNCHANGED <<active, writer, answer>>
       [] op = "finish" -> /\ active' = active \ {cur}
                           /\ SetWriter("gone") /\ SetAnswer("ok")
                           /\ UNCHANGED committed
       [] op \in {"abort", "drop"} ->
                           /\ SetWriter("gone")
                           /\ UNCHANGED <<active, committed, answer>>
       [] OTHER         -> UNCHANGED <<active, writer, committed, answer>>
  /\ UNCHANGED batch

\* OutcomeUnknown: finish gives up its lease and leaves row and file alone.
OutcomeUnknown ==
  /\ Release
  /\ CASE op = "begin"  -> /\ SetWriter("gone") /\ SetAnswer("unknown")
                           /\ UNCHANGED active
       [] op = "append" -> AppendFailed /\ UNCHANGED <<active, answer>>
       [] op = "finish" -> /\ SetWriter("gone") /\ SetAnswer("unknown")
                           /\ active' = active \ {cur}
  /\ UNCHANGED <<committed, batch>>

-----------------------------------------------------------------------------
(* The quota, and purging. *)

Larger(m, n) == IF m > n THEN m ELSE n

\* retained_result_bytes: index and directory, whichever is larger.
Accounted_Fault(r) == Len(indexed[r])

Accounted(r) == Larger(Len(indexed[r]), Len(file[r]))

\* The frames of all results, of which result r has length[r].
Frames(length) == UNION {{r} \X (1..length[r]) : r \in Results}

RetainedResultBytes == Cardinality(Frames([r \in Results |-> Accounted(r)]))

Room == RetainedResultBytes + 1 <= MaxRetained

CheckResultQuota ==
  /\ pc = "quota"
  /\ pc' = IF Room THEN "write" ELSE "purge"
  /\ UNCHANGED <<indexVars, fileVars, expired, writerVars, op, cur, doomed, kept>>

\* Expired rows go, but not those of active writers.
Purgeable_Fault(r) == state[r] # "none" /\ r \in expired

Purgeable(r) ==
  /\ state[r] # "none" /\ r \in expired
  /\ ~(state[r] = "writing" /\ r \in active)

DeleteRow(r) ==
  /\ doomed = {}
  /\ state' = [state EXCEPT ![r] = "none"]
  /\ indexed' = [indexed EXCEPT ![r] = <<>>]
  /\ doomed' = {r}

Remove(r) ==
  /\ file' = [file EXCEPT ![r] = <<>>]
  /\ durable' = [durable EXCEPT ![r] = 0]

PurgeRow(r) ==
  /\ pc = "purge" /\ Purgeable(r)
  /\ DeleteRow(r)
  /\ UNCHANGED <<fileVars, expired, writerVars, op, cur, pc, kept>>

\* delete_result: the row of an aborted or dropped writer.
DeleteOwnRow ==
  /\ pc = "delete"
  /\ DeleteRow(cur)
  /\ UNCHANGED <<fileVars, expired, writerVars, op, cur, pc, kept>>

\* The file follows its row; abort and drop are over with it.
Unlink ==
  /\ \E r \in doomed : Remove(r)
  /\ IF pc = "delete"
     THEN Succeed
     ELSE doomed' = {} /\ UNCHANGED <<writerVars, op, cur, pc, kept>>
  /\ UNCHANGED <<indexVars, expired>>

\* Files without a row go once the expired rows are gone.
PurgeOrphan(r) ==
  /\ pc = "purge" /\ doomed = {}
  /\ \A s \in Results : ~Purgeable(s)
  /\ state[r] = "none" /\ file[r] # <<>>
  /\ Remove(r)
  /\ UNCHANGED <<indexVars, expired, writerVars, lockVars>>

\* The quota is checked again after a purge.
PurgeDone ==
  /\ pc = "purge" /\ doomed = {}
  /\ \A r \in Results : ~Purgeable(r) /\ (state[r] = "none" => file[r] = <<>>)
  /\ IF op = "purge" THEN Succeed
     ELSE IF Room THEN pc' = "write" /\ UNCHANGED <<writerVars, op, cur, doomed, kept>>
     ELSE FailWith
  /\ UNCHANGED <<indexVars, fileVars, expired>>

\* SQLite or the file system refuses a query, a deletion or an unlink.
CleanupFails ==
  /\ pc \in {"quota", "purge", "delete"}
  /\ FailWith
  /\ UNCHANGED <<indexVars, fileVars, expired>>

-----------------------------------------------------------------------------
(* Writing a frame, then indexing it. *)

\* The file with a frame written at committed_length.
Written(frame) == Append(SubSeq(file[cur], 1, committed[cur]), frame)

WriteFrame ==
  /\ pc = "write"
  /\ file' = [file EXCEPT ![cur] = Written(batch[cur])]
  /\ pc' = "sync"
  /\ UNCHANGED <<indexVars, durable, expired, writerVars, op, cur, doomed, kept>>

WriteFails ==
  /\ pc = "write"
  /\ \E content \in {file[cur], Written(Torn)} : FailAndClean(content)
  /\ UNCHANGED <<indexVars, expired>>

SyncFrame_Fault ==
  /\ pc = "sync"
  /\ pc' = "commit"
  /\ UNCHANGED <<indexVars, fileVars, expired, writerVars, op, cur, doomed, kept>>

SyncFrame ==
  /\ pc = "sync"
  /\ durable' = [durable EXCEPT ![cur] = Len(file[cur])]
  /\ pc' = "commit"
  /\ UNCHANGED <<indexVars, file, expired, writerVars, op, cur, doomed, kept>>

SyncFails ==
  /\ pc = "sync"
  /\ FailAndClean(file[cur])
  /\ UNCHANGED <<indexVars, expired>>

\* The condition of the UPDATE: the row is as the writer left it.
MatchesWriting == state[cur] = "writing" /\ Len(indexed[cur]) = committed[cur]

\* insert_writing_result, commit_chunk, commit_completion.
CommitIndex ==
  CASE op = "begin"  -> /\ state[cur] = "none"
                        /\ state' = [state EXCEPT ![cur] = "writing"]
                        /\ indexed' = [indexed EXCEPT ![cur] = <<batch[cur]>>]
    [] op = "append" -> /\ MatchesWriting
                        /\ indexed' = [indexed EXCEPT ![cur] = Append(@, batch[cur])]
                        /\ UNCHANGED state
    [] op = "finish" -> /\ MatchesWriting
                        /\ state' = [state EXCEPT ![cur] = "complete"]
                        /\ UNCHANGED indexed

Commit ==
  /\ pc = "commit"
  /\ CommitIndex
  /\ Succeed
  /\ UNCHANGED <<fileVars, expired>>

\* The commit returns an error, whether it was applied or not.
CommitFails ==
  /\ pc = "commit"
  /\ CommitIndex \/ UNCHANGED indexVars
  /\ pc' = "verify"
  /\ UNCHANGED <<fileVars, expired, writerVars, op, cur, doomed, kept>>

\* What the index must look like if the commit was applied.
Applied ==
  CASE op = "begin"  -> state[cur] = "writing"
    [] op = "append" -> /\ state[cur] = "writing"
                        /\ Len(indexed[cur]) = committed[cur] + 1
    [] op = "finish" -> state[cur] = "complete"

NotApplied ==
  \/ op \in {"begin", "finish"} /\ state[cur] = "none"
  \/ op \in {"append", "finish"} /\ MatchesWriting

\* verify_chunk_commit and load_stored_result: the row is read back.
Verify ==
  /\ pc = "verify"
  /\ \/ Applied /\ Succeed /\ UNCHANGED fileVars
     \/ NotApplied /\ FailAndClean(file[cur])
  /\ UNCHANGED <<indexVars, expired>>

\* The row cannot be read back.
VerifyFails_Fault ==
  /\ pc = "verify"
  /\ FailWith
  /\ UNCHANGED <<indexVars, fileVars, expired>>

VerifyFails ==
  /\ pc = "verify"
  /\ OutcomeUnknown
  /\ UNCHANGED <<indexVars, fileVars, expired>>

-----------------------------------------------------------------------------
(* Crash and recovery. *)

\* What a crash may leave of a file: all that was synced, and some of the
\* rest, of which the last frame may be torn.
Leftovers(r) ==
  {SubSeq(file[r], 1, n) : n \in durable[r]..Len(file[r])}
    \cup {Append(SubSeq(file[r], 1, n - 1), Torn) :
            n \in (durable[r] + 1)..Len(file[r])}

\* The process or the machine stops.  The next open of the storage, which the
\* exclusive directory lock keeps alone, starts with recovery; one that fails
\* is another crash.
Crash ==
  /\ \E left \in [Results -> UNION {Leftovers(r) : r \in Results}] :
       /\ \A r \in Results : left[r] \in Leftovers(r)
       /\ file' = left
       /\ durable' = [r \in Results |-> Len(left[r])]
  /\ active' = {}
  /\ writer' = [r \in Results |->
                  IF writer[r] = "unborn" THEN "unborn" ELSE "gone"]
  /\ op' = "recover" /\ pc' = "scan" /\ doomed' = {} /\ kept' = {}
  /\ UNCHANGED <<indexVars, expired, committed, batch, answer, cur>>

\* validate_completed_result.
ValidCompleted(r) ==
  /\ Len(file[r]) >= Len(indexed[r])
  /\ SubSeq(file[r], 1, Len(indexed[r])) = indexed[r]

\* recover_at removes what is incomplete, expired or corrupt.
Recoverable_Fault(r) == r \notin expired /\ ValidCompleted(r)

Recoverable(r) ==
  /\ state[r] = "complete"
  /\ r \notin expired
  /\ ValidCompleted(r)

RecoverEvicts(r) ==
  /\ pc = "scan" /\ state[r] # "none" /\ ~Recoverable(r)
  /\ DeleteRow(r)
  /\ UNCHANGED <<fileVars, expired, writerVars, op, cur, pc, kept>>

\* It keeps the rest, without the unindexed tail.
RecoverKeeps(r) ==
  /\ pc = "scan" /\ doomed = {} /\ state[r] # "none" /\ r \notin kept
  /\ Recoverable(r)
  /\ file' = [file EXCEPT ![r] = SubSeq(@, 1, Len(indexed[r]))]
  /\ durable' = [durable EXCEPT ![r] = Len(indexed[r])]
  /\ kept' = kept \cup {r}
  /\ UNCHANGED <<indexVars, expired, writerVars, op, cur, pc, doomed>>

Scanned == pc = "scan" /\ doomed = {}
             /\ \A r \in Results : state[r] # "none" => r \in kept

RecoverOrphan(r) ==
  /\ Scanned
  /\ r \notin kept /\ file[r] # <<>>
  /\ Remove(r)
  /\ UNCHANGED <<indexVars, expired, writerVars, lockVars>>

RecoverDone ==
  /\ Scanned
  /\ \A r \in Results : r \notin kept => file[r] = <<>>
  /\ Succeed
  /\ UNCHANGED <<indexVars, fileVars, expired>>

-----------------------------------------------------------------------------
Next ==
  \/ \E r \in Results :
       \/ BeginResult(r) \/ AppendBatch(r) \/ AppendInvalid(r)
       \/ Finish(r) \/ FinishRefused(r) \/ Abort(r) \/ DropWriter(r)
       \/ Expire(r) \/ PurgeRow(r) \/ PurgeOrphan(r)
       \/ RecoverEvicts(r) \/ RecoverKeeps(r) \/ RecoverOrphan(r)
  \/ PurgeExpired \/ CheckResultQuota \/ DeleteOwnRow \/ Unlink
  \/ PurgeDone \/ CleanupFails
  \/ WriteFrame \/ WriteFails \/ SyncFrame \/ SyncFails
  \/ Commit \/ CommitFails \/ Verify \/ VerifyFails
  \/ Crash \/ RecoverDone

Spec == Init /\ [][Next]_vars

-----------------------------------------------------------------------------
(* Properties. *)

\* The result files never take more than max_retained_bytes: not between
\* writing a frame and indexing it, not with the tails and orphans that failed
\* operations and crashes leave.
QuotaHeld == Cardinality(Frames([r \in Results |-> Len(file[r])])) <= MaxRetained

\* A result is visible as complete only with every batch that was appended to
\* it, in order: a failed append poisons its writer, so that no later batch
\* hides the loss.  Its file holds exactly the indexed frames, synced:
\* read_result_page, which insists on the exact length and on every hash,
\* finds no corruption, before and after any crash.
CompleteIsWhole ==
  \A r \in Results :
    state[r] = "complete" =>
      /\ indexed[r] = [i \in 1..(batch[r] + 1) |-> i - 1]
      /\ file[r] = indexed[r] /\ durable[r] = Len(file[r])

\* Active writers are never purged: between operations an open writer finds
\* its row and its file as it left them.
LeaseHolds ==
  op = "idle" =>
    \A r \in Results :
      writer[r] = "open" =>
        /\ r \in active
        /\ state[r] = "writing"
        /\ Len(indexed[r]) = committed[r]
        /\ file[r] = indexed[r]

\* What finish told its caller stays true, across crashes: after an error the
\* result never shows up as complete, after a success it stays complete until
\* it expires.
AnswerTruthful ==
  \A r \in Results :
    /\ answer[r] = "error" => state[r] # "complete"
    /\ answer[r] = "ok" /\ r \notin expired => state[r] = "complete"

\* The storage opens with complete, unexpired results only, and with no file
\* besides theirs.
StartupClean ==
  [][op = "recover" /\ op' = "idle" =>
       \A r \in Results :
         /\ state'[r] \in {"none", "complete"}
         /\ state'[r] = "complete" => r \notin expired'
         /\ state'[r] = "none" => file'[r] = <<>>]_vars
=============================================================================
