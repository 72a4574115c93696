------------------------- MODULE ResultStoreProofs --------------------------
(***************************************************************************)
(* The safety theorems of ResultStore.                                      *)
(***************************************************************************)
EXTENDS ResultStore, TLAPS

\* The frames of a result with n of them, in order.
Upto(n) == [i \in 1..n |-> i - 1]

Writers == {"unborn", "opening", "open", "poisoned", "dropping", "gone"}

Contents == Seq(Nat)

StorageTypes ==
  /\ state \in [Results -> {"none", "writing", "complete"}]
  /\ indexed \in [Results -> Contents]
  /\ file \in [Results -> Contents]
  /\ durable \in [Results -> Nat]
  /\ expired \in SUBSET Results

CallTypes ==
  /\ active \in SUBSET Results
  /\ writer \in [Results -> Writers]
  /\ committed \in [Results -> Nat]
  /\ batch \in [Results -> Nat]
  /\ answer \in [Results -> {"none", "error", "ok", "unknown"}]
  /\ op \in {"idle", "begin", "append", "finish", "abort", "drop", "purge", "recover"}
  /\ cur \in Results
  /\ pc \in {"done", "quota", "purge", "write", "sync", "commit", "verify", "delete",
             "scan"}
  /\ doomed \in SUBSET Results /\ kept \in SUBSET Results

TypeOK == StorageTypes /\ CallTypes

\* Where an operation may be, and what it is about to unlink.
LockForm ==
  /\ op = "idle" <=> pc = "done"
  /\ op \in {"begin", "append"} =>
       pc \in {"quota", "purge", "write", "sync", "commit", "verify"}
  /\ op = "finish" => pc \in {"commit", "verify"}
  /\ op \in {"abort", "drop"} <=> pc = "delete"
  /\ op = "purge" => pc = "purge"
  /\ op = "recover" <=> pc = "scan"
  /\ doomed # {} => pc \in {"purge", "delete", "scan"}
  /\ \A r \in doomed : state[r] = "none" /\ (pc = "delete" => r = cur)

\* Operation o holds the lock for r.
Holds(o, r) == op = o /\ cur = r

Working(r) == cur = r /\ op \in {"begin", "append", "finish", "abort", "drop"}

\* Index and file of r hold its first n frames, synced.
Stored(r, n) == indexed[r] = Upto(n) /\ file[r] = Upto(n) /\ durable[r] = n

\* The operation that holds the lock for r finds what it left there.
Begins(r) ==
  /\ writer[r] = "opening" /\ answer[r] = "none" /\ batch[r] = 0 /\ committed[r] = 0
  /\ state[r] # "complete" /\ (pc # "verify" => state[r] = "none")

Appends(r) ==
  /\ writer[r] = "open" /\ answer[r] = "none" /\ batch[r] = committed[r]
  /\ r \in active /\ state[r] = "writing"

\* Index and file on the way of a frame from one to the other.
Grows(r) ==
  /\ pc \in {"quota", "purge", "write"} => Stored(r, batch[r])
  /\ pc = "sync" => indexed[r] = Upto(batch[r])
  /\ pc = "commit" => indexed[r] = Upto(batch[r])
  /\ pc \in {"sync", "commit", "verify"} => file[r] = Upto(batch[r] + 1)
  /\ pc \in {"commit", "verify"} => durable[r] = batch[r] + 1
  /\ pc = "verify" =>
       \/ indexed[r] = Upto(batch[r] + 1) /\ state[r] = "writing"
       \/ indexed[r] = Upto(batch[r]) /\ (op = "begin" => state[r] = "none")

Finishes(r) ==
  /\ writer[r] = "open" /\ answer[r] = "none" /\ r \in active
  /\ committed[r] = batch[r] + 1 /\ Stored(r, batch[r] + 1)
  /\ state[r] \in {"writing", "complete"} /\ (pc # "verify" => state[r] = "writing")

Deletes(r) ==
  /\ writer[r] \in {"open", "poisoned", "dropping"} /\ r \notin active
  /\ state[r] # "complete"

Rests(r) ==
  /\ writer[r] # "opening"
  /\ writer[r] = "unborn" =>
       /\ state[r] = "none" /\ Stored(r, 0) /\ answer[r] = "none"
       /\ batch[r] = 0 /\ committed[r] = 0
  /\ writer[r] = "open" =>
       /\ state[r] = "writing" /\ r \in active
       /\ committed[r] = batch[r] + 1 /\ Stored(r, batch[r] + 1)
  /\ writer[r] \in {"open", "poisoned"} => answer[r] = "none"
  /\ writer[r] \in {"poisoned", "dropping"} => state[r] # "complete"
  /\ state[r] = "complete" => Stored(r, batch[r] + 1)
  /\ answer[r] = "error" => state[r] # "complete"

ResultForm(r) ==
  /\ Holds("begin", r) => Begins(r) /\ Grows(r)
  /\ Holds("append", r) => Appends(r) /\ Grows(r)
  /\ Holds("finish", r) => Finishes(r)
  /\ Holds("abort", r) \/ Holds("drop", r) => Deletes(r)
  /\ ~Working(r) => Rests(r)
  /\ answer[r] = "ok" => writer[r] = "gone" /\ (r \in expired \/ state[r] = "complete")
  /\ op = "recover" => writer[r] \in {"unborn", "gone"}
  /\ op = "recover" /\ r \in kept => Recoverable(r)

IInv == TypeOK /\ LockForm /\ \A r \in Results : ResultForm(r)

-----------------------------------------------------------------------------
(* Sequences of frames.                                                     *)

\* A prefix of a sequence is a sequence, and the longest is the sequence.
LEMMA PrefixOf ==
  ASSUME NEW S, NEW s \in Seq(S), NEW n \in 0..Len(s)
  PROVE  /\ SubSeq(s, 1, n) \in Seq(S) /\ Len(SubSeq(s, 1, n)) = n
         /\ SubSeq(s, 1, Len(s)) = s
OBVIOUS

\* The frames of a result, one after the other.
LEMMA UptoProperties ==
  ASSUME NEW n \in Nat
  PROVE  /\ Upto(n) \in Seq(Nat) /\ Len(Upto(n)) = n
         /\ SubSeq(Upto(n), 1, n) = Upto(n)
         /\ Append(Upto(n), n) = Upto(n + 1)
         /\ Upto(0) = <<>> /\ <<0>> = Upto(1)
<1>1. Upto(n) \in Seq(Nat) /\ Len(Upto(n)) = n
  BY DEF Upto
<1>2. SubSeq(Upto(n), 1, n) = Upto(n)
  BY <1>1, PrefixOf
<1>3. Append(Upto(n), n) = Upto(n + 1)
  BY <1>1 DEF Upto
<1>4. Upto(0) = <<>>
  BY DEF Upto
<1>5. <<0>> = Upto(1)
  BY DEF Upto
<1> QED
  BY <1>1, <1>2, <1>3, <1>4, <1>5

-----------------------------------------------------------------------------
(* The domains of the variables.                                            *)

\* How an operation ends.
LEMMA EndTypes ==
  ASSUME CallTypes,
         FailWith \/ Succeed
           \/ (OutcomeUnknown /\ op \in {"begin", "append", "finish"})
  PROVE  CallTypes'
<1> USE DEF CallTypes, Writers, Release, SetWriter, SetAnswer, AppendFailed
<1>1. CASE FailWith
  BY <1>1 DEF FailWith
<1>2. CASE Succeed
  BY <1>2 DEF Succeed
<1>3. CASE OutcomeUnknown /\ op \in {"begin", "append", "finish"}
  BY <1>3 DEF OutcomeUnknown
<1> QED
  BY <1>1, <1>2, <1>3

\* The lock, the writers and their leases.
LEMMA CallStep == ASSUME IInv, [Next]_vars PROVE CallTypes'
<1>0. CallTypes /\ LockForm
  BY DEF IInv, TypeOK
<1>1. ASSUME NEW r \in Results,
             \/ BeginResult(r) \/ AppendBatch(r) \/ AppendInvalid(r)
             \/ Finish(r) \/ FinishRefused(r) \/ Abort(r) \/ DropWriter(r)
      PROVE  CallTypes'
  BY <1>0, <1>1 DEF CallTypes, Writers, BeginResult, AppendBatch, AppendInvalid, Finish,
     FinishRefused, Abort, DropWriter, Lock, writerVars, lockVars
<1>2. ASSUME NEW r \in Results,
             \/ Expire(r) \/ PurgeRow(r) \/ PurgeOrphan(r)
             \/ RecoverEvicts(r) \/ RecoverKeeps(r) \/ RecoverOrphan(r)
      PROVE  CallTypes'
  BY <1>0, <1>2 DEF CallTypes, Expire, PurgeRow, PurgeOrphan, RecoverEvicts, RecoverKeeps,
     RecoverOrphan, DeleteRow, writerVars, lockVars
<1>3. CASE PurgeExpired \/ CheckResultQuota \/ DeleteOwnRow
  BY <1>0, <1>3 DEF CallTypes, PurgeExpired, CheckResultQuota, DeleteOwnRow, DeleteRow,
     Lock, writerVars
<1>4. CASE Unlink \/ PurgeDone \/ CleanupFails
  <2>1. CASE FailWith \/ Succeed
    BY <1>0, <2>1, EndTypes
  <2>2. CASE ~(FailWith \/ Succeed)
    BY <1>0, <1>4, <2>2 DEF CallTypes, Unlink, PurgeDone, CleanupFails, writerVars
  <2> QED
    BY <2>1, <2>2
<1>5. CASE WriteFrame \/ SyncFrame \/ CommitFails
  BY <1>0, <1>5 DEF CallTypes, WriteFrame, SyncFrame, CommitFails, writerVars
<1>6. CASE WriteFails \/ SyncFails \/ Commit \/ Verify \/ RecoverDone
  <2>1. FailWith \/ Succeed
    BY <1>6 DEF WriteFails, SyncFails, Commit, Verify, RecoverDone, FailAndClean
  <2> QED
    BY <1>0, <2>1, EndTypes
<1>7. CASE VerifyFails
  BY <1>0, <1>7, EndTypes DEF VerifyFails, LockForm, CallTypes
<1>8. CASE Crash
  BY <1>0, <1>8 DEF CallTypes, Writers, Crash
<1>9. CASE UNCHANGED vars
  BY <1>0, <1>9 DEF CallTypes, vars, writerVars, lockVars
<1> QED
  BY <1>1, <1>2, <1>3, <1>4, <1>5, <1>6, <1>7, <1>8, <1>9 DEF Next

\* A frame is written behind those that are there.
LEMMA WrittenProperties ==
  ASSUME IInv, pc = "write", NEW frame \in Nat
  PROVE  /\ batch[cur] \in Nat /\ file[cur] = Upto(batch[cur])
         /\ Written(frame) = Append(Upto(batch[cur]), frame)
         /\ Written(frame) \in Seq(Nat) /\ Len(Written(frame)) = batch[cur] + 1
<1>1. cur \in Results /\ batch[cur] \in Nat
  BY DEF IInv, TypeOK, CallTypes
<1>2. file[cur] = Upto(batch[cur]) /\ committed[cur] = batch[cur]
  BY <1>1 DEF IInv, TypeOK, CallTypes, LockForm, ResultForm, Holds, Begins, Appends, Grows,
     Stored
<1>3. Written(frame) = Append(Upto(batch[cur]), frame)
  BY <1>1, <1>2, UptoProperties DEF Written
<1>4. Upto(batch[cur]) \in Seq(Nat) /\ Len(Upto(batch[cur])) = batch[cur]
  BY <1>1, UptoProperties
<1>5. Written(frame) \in Seq(Nat) /\ Len(Written(frame)) = batch[cur] + 1
  BY <1>1, <1>3, <1>4
<1> QED
  BY <1>1, <1>2, <1>3, <1>5

\* What a crash leaves is a shorter file.
LEMMA LeftoversProperties ==
  ASSUME TypeOK, NEW r \in Results, NEW left \in Leftovers(r)
  PROVE  /\ left \in Seq(Nat) /\ Len(left) <= Len(file[r])
         /\ durable[r] = Len(file[r]) => left = file[r]
<1> DEFINE f == file[r]
<1>1. f \in Seq(Nat) /\ Len(f) \in Nat /\ durable[r] \in Nat /\ Torn \in Nat
  BY StoreAssumption DEF TypeOK, StorageTypes, Contents, Torn
<1> HIDE DEF f
<1>2. CASE \E n \in durable[r]..Len(f) : left = SubSeq(f, 1, n)
  <2>1. PICK n \in durable[r]..Len(f) : left = SubSeq(f, 1, n)
    BY <1>2
  <2>2. n \in 0..Len(f)
    BY <1>1
  <2>3. left \in Seq(Nat) /\ Len(left) = n
    BY <1>1, <2>1, <2>2, PrefixOf
  <2>4. durable[r] = Len(f) => left = f
    BY <1>1, <2>1, <2>2, PrefixOf
  <2> QED
    BY <1>1, <2>2, <2>3, <2>4 DEF f
<1>3. CASE \E n \in (durable[r] + 1)..Len(f) : left = Append(SubSeq(f, 1, n - 1), Torn)
  <2>1. PICK n \in (durable[r] + 1)..Len(f) : left = Append(SubSeq(f, 1, n - 1), Torn)
    BY <1>3
  <2>2. n - 1 \in 0..Len(f)
    BY <1>1
  <2>3. SubSeq(f, 1, n - 1) \in Seq(Nat) /\ Len(SubSeq(f, 1, n - 1)) = n - 1
    BY <1>1, <2>2, PrefixOf
  <2>4. left \in Seq(Nat) /\ Len(left) = n
    BY <1>1, <2>1, <2>2, <2>3
  <2> QED
    BY <1>1, <2>4 DEF f
<1> QED
  BY <1>2, <1>3 DEF Leftovers, f

\* Index and files.
LEMMA StorageStep == ASSUME IInv, [Next]_vars PROVE StorageTypes'
<1>0. /\ StorageTypes /\ CallTypes /\ cur \in Results /\ batch[cur] \in Nat
      /\ Torn \in Nat /\ <<>> \in Contents /\ \A s \in Contents : Len(s) \in Nat
  BY StoreAssumption DEF IInv, TypeOK, CallTypes, Torn, Contents
<1>1. ASSUME NEW r \in Results,
             \/ BeginResult(r) \/ AppendBatch(r) \/ AppendInvalid(r)
             \/ Finish(r) \/ FinishRefused(r) \/ Abort(r) \/ DropWriter(r)
             \/ Expire(r)
      PROVE  StorageTypes'
  BY <1>0, <1>1 DEF StorageTypes, BeginResult, AppendBatch, AppendInvalid, Finish,
     FinishRefused, Abort, DropWriter, Expire, indexVars, fileVars
<1>2. ASSUME NEW r \in Results, DeleteRow(r), UNCHANGED <<fileVars, expired>>
      PROVE  StorageTypes'
  BY <1>0, <1>2 DEF StorageTypes, DeleteRow, fileVars
<1>3. ASSUME NEW r \in Results, RecoverKeeps(r) PROVE StorageTypes'
  <2>1. /\ Len(indexed[r]) \in 0..Len(file[r])
        /\ file[r] \in Contents
    BY <1>0, <1>3 DEF StorageTypes, RecoverKeeps, Recoverable, ValidCompleted,
       Contents
  <2>2. SubSeq(file[r], 1, Len(indexed[r])) \in Contents
    BY <2>1, PrefixOf DEF Contents
  <2> QED
    BY <1>0, <1>3, <2>1, <2>2 DEF StorageTypes, RecoverKeeps, indexVars
<1>4. ASSUME NEW r \in Results, Remove(r), UNCHANGED <<indexVars, expired>>
      PROVE  StorageTypes'
  BY <1>0, <1>4 DEF StorageTypes, Remove, indexVars
<1>5. CASE Unlink
  BY <1>0, <1>4, <1>5 DEF Unlink, CallTypes
<1>6. CASE UNCHANGED <<indexVars, fileVars, expired>>
  BY <1>0, <1>6 DEF StorageTypes, indexVars, fileVars
<1>7. CASE WriteFrame
  <2>1. Written(batch[cur]) \in Contents
    BY <1>0, <1>7, WrittenProperties DEF WriteFrame, Contents
  <2> QED
    BY <1>0, <1>7, <2>1 DEF StorageTypes, WriteFrame, indexVars
<1>8. ASSUME NEW content \in Contents, FailAndClean(content), UNCHANGED <<indexVars, expired>>
      PROVE  StorageTypes'
  <2>1. PICK left \in Contents :
               /\ file' = [file EXCEPT ![cur] = left]
               /\ durable' = IF left = <<>> THEN [durable EXCEPT ![cur] = 0] ELSE durable
    BY <1>0, <1>8 DEF FailAndClean
  <2> QED
    BY <1>0, <1>8, <2>1 DEF StorageTypes, indexVars
<1>9. CASE WriteFails
  <2>1. Written(Torn) \in Contents /\ file[cur] \in Contents
    BY <1>0, <1>9, WrittenProperties DEF WriteFails, Contents, StorageTypes
  <2> QED
    BY <1>8, <1>9, <2>1 DEF WriteFails
<1>10. CASE SyncFrame
  BY <1>0, <1>10 DEF StorageTypes, SyncFrame, indexVars
<1>11. CASE SyncFails \/ Verify
  <2>1. file[cur] \in Contents
    BY <1>0 DEF StorageTypes
  <2> QED
    BY <1>6, <1>8, <1>11, <2>1 DEF SyncFails, Verify
<1>12. CASE Commit \/ CommitFails
  <2>1. /\ <<batch[cur]>> \in Contents
        /\ \A s \in Contents : Append(s, batch[cur]) \in Contents
    BY <1>0 DEF Contents
  <2>2. op \in {"begin", "append", "finish"}
    BY <1>12 DEF Commit, CommitFails, IInv, LockForm, TypeOK, CallTypes
  <2> QED
    <3>1. CASE CommitIndex
      <4>1. state' \in [Results -> {"none", "writing", "complete"}]
        BY <1>0, <2>2, <3>1 DEF StorageTypes, CommitIndex
      <4>2. indexed[cur] \in Contents
        BY <1>0 DEF StorageTypes
      <4>3. \E s \in Contents : indexed' \in {indexed, [indexed EXCEPT ![cur] = s]}
        BY <2>1, <2>2, <3>1, <4>2 DEF CommitIndex
      <4> QED
        BY <1>0, <1>12, <4>1, <4>3 DEF StorageTypes, Commit, CommitFails, fileVars
    <3>2. CASE UNCHANGED indexVars
      BY <1>6, <1>12, <3>2 DEF Commit, CommitFails
    <3> QED
      BY <1>12, <3>1, <3>2 DEF Commit, CommitFails
<1>13. CASE Crash
  <2>1. PICK left \in [Results -> UNION {Leftovers(r) : r \in Results}] :
          /\ \A r \in Results : left[r] \in Leftovers(r)
          /\ file' = left /\ durable' = [r \in Results |-> Len(left[r])]
    BY <1>13 DEF Crash
  <2>2. \A r \in Results : left[r] \in Contents
    BY <2>1, LeftoversProperties DEF IInv, Contents
  <2> QED
    BY <1>0, <1>13, <2>1, <2>2 DEF StorageTypes, Crash, indexVars
<1> QED
  BY <1>0, <1>1, <1>2, <1>3, <1>4, <1>5, <1>6, <1>7, <1>9, <1>10, <1>11, <1>12, <1>13
  DEF Next, vars, PurgeRow, PurgeOrphan, RecoverEvicts, RecoverOrphan, DeleteOwnRow,
      PurgeExpired, CheckResultQuota, PurgeDone, CleanupFails, VerifyFails, RecoverDone

-----------------------------------------------------------------------------
(* The lock.                                                                *)

\* Where the operations go, and what they are about to unlink.
LEMMA LockStep == ASSUME IInv, [Next]_vars PROVE LockForm'
<1>0. /\ LockForm /\ CallTypes /\ cur \in Results
      /\ state \in [Results -> {"none", "writing", "complete"}]
  BY DEF IInv, TypeOK, StorageTypes, CallTypes
<1>1. CASE Release
  BY <1>1 DEF Release, LockForm
<1>2. ASSUME NEW r \in Results,
             \/ BeginResult(r) \/ AppendBatch(r) \/ Finish(r) \/ FinishRefused(r)
             \/ Abort(r) \/ DropWriter(r) \/ PurgeExpired
      PROVE  LockForm'
  BY <1>0, <1>2 DEF LockForm, BeginResult, AppendBatch, Finish, FinishRefused, Abort,
     DropWriter, PurgeExpired, Lock
<1>3. CASE UNCHANGED <<state, lockVars>>
  BY <1>0, <1>3 DEF LockForm, lockVars
<1>4. ASSUME NEW r \in Results, DeleteRow(r), UNCHANGED <<op, cur, pc>>,
             pc \in {"purge", "scan"} \/ (pc = "delete" /\ r = cur)
      PROVE  LockForm'
  BY <1>0, <1>4 DEF LockForm, DeleteRow
<1>5. CASE doomed' = {} /\ UNCHANGED <<op, cur, pc>>
  BY <1>0, <1>5 DEF LockForm
<1>6. CASE /\ op \in {"begin", "append"} /\ doomed = {}
           /\ pc' \in {"purge", "write", "sync", "commit", "verify"}
           /\ UNCHANGED <<op, cur, doomed>>
  BY <1>0, <1>6 DEF LockForm
<1>7. ASSUME NEW r \in Results, AppendInvalid(r) \/ Expire(r) \/ PurgeOrphan(r)
                                  \/ RecoverOrphan(r)
      PROVE  LockForm'
  BY <1>3, <1>7 DEF AppendInvalid, Expire, PurgeOrphan, RecoverOrphan, indexVars
<1>8. ASSUME NEW r \in Results, PurgeRow(r) \/ RecoverEvicts(r)
      PROVE  LockForm'
  BY <1>4, <1>8 DEF PurgeRow, RecoverEvicts
<1>9. ASSUME NEW r \in Results, RecoverKeeps(r)
      PROVE  LockForm'
  BY <1>5, <1>9 DEF RecoverKeeps
<1>10. CASE DeleteOwnRow
  BY <1>0, <1>4, <1>10 DEF DeleteOwnRow
<1>11. CASE Unlink
  BY <1>1, <1>5, <1>11 DEF Unlink, Succeed
<1>12. CASE PurgeDone
  <2>1. CASE Release
    BY <1>1, <2>1
  <2>2. CASE ~Release
    <3>1. op # "purge" /\ pc' = "write" /\ UNCHANGED <<op, cur, doomed>>
      BY <1>12, <2>2 DEF PurgeDone, Succeed, FailWith
    <3>2. op \in {"begin", "append"} /\ doomed = {}
      BY <1>0, <1>12, <3>1 DEF PurgeDone, LockForm, CallTypes
    <3> QED
      BY <1>6, <3>1, <3>2
  <2> QED
    BY <2>1, <2>2
<1>13. CASE CheckResultQuota \/ WriteFrame \/ SyncFrame
  <2>1. op \in {"begin", "append"} /\ doomed = {}
    BY <1>0, <1>13 DEF CheckResultQuota, WriteFrame, SyncFrame, LockForm, CallTypes
  <2> QED
    BY <1>6, <1>13, <2>1 DEF CheckResultQuota, WriteFrame, SyncFrame
<1>14. CASE CommitFails
  BY <1>0, <1>14 DEF CommitFails, LockForm
<1>15. CASE \/ CleanupFails \/ WriteFails \/ SyncFails \/ Commit \/ Verify \/ VerifyFails
            \/ RecoverDone
  BY <1>1, <1>15 DEF CleanupFails, WriteFails, SyncFails, Commit, Verify, VerifyFails,
     RecoverDone, FailAndClean, FailWith, Succeed, OutcomeUnknown
<1>16. CASE Crash
  BY <1>16 DEF Crash, LockForm
<1>17. CASE UNCHANGED vars
  BY <1>3, <1>17 DEF vars, indexVars
<1> QED
  BY <1>0, <1>2, <1>7, <1>8, <1>9, <1>10, <1>11, <1>12, <1>13, <1>14, <1>15, <1>16, <1>17
  DEF Next

-----------------------------------------------------------------------------
(* The results.                                                             *)

\* A step leaves row, file and writer of r alone.
Same(r) ==
  /\ state'[r] = state[r] /\ indexed'[r] = indexed[r]
  /\ file'[r] = file[r] /\ durable'[r] = durable[r]
  /\ writer'[r] = writer[r] /\ committed'[r] = committed[r]
  /\ batch'[r] = batch[r] /\ answer'[r] = answer[r]
  /\ r \in active' <=> r \in active

\* What is not touched is as it was.
LEMMA Untouched ==
  ASSUME NEW r \in Results, ResultForm(r), Same(r), UNCHANGED <<op, cur, pc, expired>>,
         r \in kept' => r \in kept
  PROVE  ResultForm(r)'
BY DEF ResultForm, Same, Holds, Working, Begins, Appends, Grows, Finishes, Deletes, Rests,
   Stored, Recoverable, ValidCompleted

\* An operation on one result does not touch the others.
LEMMA Elsewhere ==
  ASSUME NEW r \in Results, ResultForm(r), Same(r), expired \subseteq expired',
         op' # "recover", ~Working(r), ~Working(r)'
  PROVE  ResultForm(r)'
BY DEF ResultForm, Same, Holds, Working, Rests, Stored

\* The calls that take the lock.
LEMMA CallsKeep ==
  ASSUME IInv, NEW r \in Results, NEW q \in Results,
         \/ BeginResult(q) \/ AppendBatch(q) \/ AppendInvalid(q) \/ Finish(q)
         \/ FinishRefused(q) \/ Abort(q) \/ DropWriter(q) \/ Expire(q) \/ PurgeExpired
  PROVE  ResultForm(r)'
<1>1. /\ ResultForm(r) /\ op = "idle" /\ op' # "recover" /\ ~Working(r) /\ TypeOK
      /\ Rests(r)
  BY DEF IInv, Lock, Working, ResultForm, BeginResult, AppendBatch, AppendInvalid, Finish,
     FinishRefused, Abort, DropWriter, Expire, PurgeExpired, lockVars
<1>2. CASE AppendInvalid(q) /\ r = q
  BY <1>1, <1>2 DEF AppendInvalid, TypeOK, CallTypes, lockVars, indexVars, fileVars,
     ResultForm, Rests, Holds, Working
<1>3. CASE Same(r) /\ expired \subseteq expired' /\ ~Working(r)'
  BY <1>1, <1>3, Elsewhere
<1>4. CASE PurgeExpired \/ Expire(q)
  BY <1>1, <1>3, <1>4 DEF PurgeExpired, Expire, Lock, Same, Working, indexVars, fileVars,
     writerVars, lockVars
<1>5. CASE ~PurgeExpired /\ ~Expire(q) /\ r # q
  <2>1. Same(r) /\ expired' = expired
    BY <1>1, <1>5 DEF Same, TypeOK, CallTypes, StorageTypes, BeginResult, AppendBatch,
       AppendInvalid, Finish, FinishRefused, Abort, DropWriter, indexVars, fileVars,
       writerVars
  <2>2. ~Working(r)'
    BY <1>1, <1>5 DEF Working, Lock, BeginResult, AppendBatch, AppendInvalid, Finish,
       FinishRefused, Abort, DropWriter, lockVars
  <2> QED
    BY <1>3, <2>1, <2>2
<1>6. CASE BeginResult(q) /\ r = q
  BY <1>1, <1>6 DEF BeginResult, Lock, TypeOK, CallTypes, indexVars, fileVars, ResultForm,
     Rests, Holds, Working, Begins, Grows, Stored
<1>7. CASE AppendBatch(q) /\ r = q
  BY <1>1, <1>7 DEF AppendBatch, Lock, TypeOK, CallTypes, indexVars, fileVars, ResultForm,
     Rests, Holds, Working, Appends, Grows, Stored
<1>8. CASE Finish(q) /\ r = q
  BY <1>1, <1>8 DEF Finish, Lock, TypeOK, CallTypes, indexVars, fileVars, writerVars,
     ResultForm, Rests, Holds, Working, Finishes, Stored
<1>9. CASE (FinishRefused(q) \/ Abort(q) \/ DropWriter(q)) /\ r = q
  BY <1>1, <1>9 DEF FinishRefused, Abort, DropWriter, Lock, TypeOK, CallTypes, indexVars,
     fileVars, ResultForm, Rests, Holds, Working, Deletes
<1> QED
  BY <1>2, <1>4, <1>5, <1>6, <1>7, <1>8, <1>9

\* The steps that delete rows and unlink files.
LEMMA DeletionsKeep ==
  ASSUME IInv, NEW r \in Results, NEW q \in Results,
         PurgeRow(q) \/ PurgeOrphan(q) \/ DeleteOwnRow \/ RecoverEvicts(q)
           \/ RecoverOrphan(q)
  PROVE  ResultForm(r)'
<1>1. ResultForm(r) /\ TypeOK /\ LockForm
  BY DEF IInv
<1>2. UNCHANGED <<op, cur, pc, expired, writerVars, kept>>
  BY DEF PurgeRow, PurgeOrphan, DeleteOwnRow, RecoverEvicts, RecoverOrphan, lockVars
<1>3. CASE Same(r)
  BY <1>1, <1>2, <1>3, Untouched
<1>4. CASE DeleteOwnRow /\ r # cur
  BY <1>1, <1>2, <1>3, <1>4 DEF DeleteOwnRow, DeleteRow, TypeOK, StorageTypes, Same,
     fileVars, writerVars
<1>5. CASE ~DeleteOwnRow /\ r # q
  BY <1>1, <1>2, <1>3, <1>5 DEF PurgeRow, PurgeOrphan, RecoverEvicts, RecoverOrphan, Remove,
     DeleteRow, TypeOK, StorageTypes, Same, fileVars, indexVars, writerVars
<1>6. CASE DeleteOwnRow /\ r = cur
  <2>1. op \in {"abort", "drop"} /\ Deletes(r) /\ state'[r] = "none"
    BY <1>1, <1>6 DEF DeleteOwnRow, DeleteRow, LockForm, ResultForm, Holds, TypeOK,
       StorageTypes
  <2> QED
    BY <1>1, <1>2, <1>6, <2>1 DEF ResultForm, Holds, Working, Deletes, writerVars
<1>7. CASE PurgeRow(q) /\ r = q
  <2>1. /\ state[r] # "none" /\ r \in expired /\ ~(state[r] = "writing" /\ r \in active)
        /\ op \in {"begin", "append", "purge"} /\ pc = "purge" /\ state'[r] = "none"
    BY <1>1, <1>7 DEF PurgeRow, Purgeable, DeleteRow, LockForm, TypeOK, StorageTypes,
       CallTypes
  <2>2. ~Working(r) /\ Rests(r)
    BY <1>1, <2>1 DEF ResultForm, Holds, Working, Begins, Appends
  <2>3. Rests(r)'
    BY <1>2, <2>1, <2>2 DEF Rests, writerVars
  <2> QED
    BY <1>1, <1>2, <2>1, <2>2, <2>3 DEF ResultForm, Holds, Working, writerVars
<1>8. CASE PurgeOrphan(q) /\ r = q
  <2>1. /\ state[r] = "none" /\ file[r] # <<>> /\ pc = "purge"
        /\ op \in {"begin", "append", "purge"} /\ UNCHANGED indexVars
    BY <1>1, <1>8 DEF PurgeOrphan, LockForm, CallTypes, TypeOK
  <2>2. ~Working(r) /\ Rests(r)
    BY <1>1, <2>1, UptoProperties DEF ResultForm, Holds, Working, Begins, Appends, Grows,
       Stored
  <2>3. Rests(r)'
    BY <1>2, <2>1, <2>2, UptoProperties DEF Rests, Stored, writerVars, indexVars
  <2> QED
    BY <1>1, <1>2, <2>1, <2>2, <2>3 DEF ResultForm, Holds, Working, writerVars, indexVars
<1>9. CASE RecoverEvicts(q) /\ r = q
  <2>1. /\ state[r] # "none" /\ ~Recoverable(r) /\ op = "recover" /\ state'[r] = "none"
    BY <1>1, <1>9 DEF RecoverEvicts, DeleteRow, LockForm, TypeOK, StorageTypes
  <2>2. writer[r] = "gone" /\ Rests(r) /\ r \notin kept
    BY <1>1, <2>1 DEF ResultForm, Working, Rests
  <2>3. state[r] = "complete" => ValidCompleted(r)
    <3>1. batch[r] + 1 \in Nat
      BY <1>1 DEF TypeOK, CallTypes
    <3>2. Len(Upto(batch[r] + 1)) = batch[r] + 1
      BY <3>1, UptoProperties
    <3>3. SubSeq(Upto(batch[r] + 1), 1, batch[r] + 1) = Upto(batch[r] + 1)
      BY <3>1, UptoProperties
    <3>4. state[r] = "complete" => indexed[r] = Upto(batch[r] + 1) /\ file[r] = indexed[r]
      BY <2>2 DEF Rests, Stored
    <3> QED
      BY <3>1, <3>2, <3>3, <3>4 DEF ValidCompleted
  <2>4. answer[r] = "ok" => r \in expired
    BY <1>1, <2>1, <2>3 DEF ResultForm, Recoverable
  <2>5. Rests(r)'
    BY <1>2, <2>1, <2>2 DEF Rests, writerVars
  <2> QED
    BY <1>1, <1>2, <2>1, <2>2, <2>4, <2>5 DEF ResultForm, Holds, Working, writerVars
<1>10. CASE RecoverOrphan(q) /\ r = q
  <2>1. /\ state[r] = "none" /\ r \notin kept /\ op = "recover" /\ UNCHANGED indexVars
        /\ file'[r] = <<>> /\ durable'[r] = 0
    BY <1>1, <1>10 DEF RecoverOrphan, Scanned, Remove, LockForm, TypeOK, StorageTypes
  <2>2. Rests(r) /\ writer[r] \in {"unborn", "gone"}
    BY <1>1, <2>1 DEF ResultForm, Working
  <2>3. Rests(r)'
    BY <1>2, <2>1, <2>2, UptoProperties DEF Rests, Stored, writerVars, indexVars
  <2> QED
    BY <1>1, <1>2, <2>1, <2>2, <2>3 DEF ResultForm, Holds, Working, writerVars, indexVars
<1> QED
  BY <1>4, <1>5, <1>6, <1>7, <1>8, <1>9, <1>10

\* Unlinking the file of a deleted row.
LEMMA UnlinkKeeps == ASSUME IInv, NEW r \in Results, Unlink PROVE ResultForm(r)'
<1>1. ResultForm(r) /\ TypeOK /\ LockForm /\ UNCHANGED <<indexVars, expired>>
  BY DEF IInv, Unlink
<1>2. PICK q \in Results : q \in doomed /\ Remove(q) /\ state[q] = "none"
  BY <1>1 DEF Unlink, LockForm, TypeOK, CallTypes
<1>3. CASE pc = "delete"
  <2>1. /\ op \in {"abort", "drop"} /\ q = cur /\ Succeed
    BY <1>1, <1>2, <1>3 DEF LockForm, Unlink
  <2>2. CASE r # cur
    <3>1. Same(r) /\ ~Working(r) /\ ~Working(r)' /\ op' = "idle"
      BY <1>1, <1>2, <2>1, <2>2 DEF Same, Working, Succeed, Release, SetWriter, Remove,
         TypeOK, StorageTypes, CallTypes, indexVars
    <3> QED
      BY <1>1, <3>1, Elsewhere
  <2>3. CASE r = cur
    <3>1. /\ writer'[r] = "gone" /\ op' = "idle" /\ UNCHANGED answer
          /\ state'[r] = "none" /\ answer[r] # "ok"
      BY <1>1, <1>2, <2>1, <2>3 DEF Succeed, Release, SetWriter, TypeOK, CallTypes,
         indexVars, ResultForm, Holds, Deletes
    <3> QED
      BY <3>1 DEF ResultForm, Holds, Working, Rests
  <2> QED
    BY <2>2, <2>3
<1>4. CASE pc # "delete"
  <2>1. UNCHANGED <<writerVars, op, cur, pc, kept>>
    BY <1>4 DEF Unlink
  <2>2. CASE r # q
    <3>1. Same(r)
      BY <1>1, <1>2, <2>1, <2>2 DEF Same, Remove, TypeOK, StorageTypes, indexVars, writerVars
    <3> QED
      BY <1>1, <2>1, <3>1, Untouched
  <2>3. CASE r = q
    <3>1. /\ state[r] = "none" /\ file'[r] = Upto(0) /\ durable'[r] = 0
          /\ pc \in {"purge", "scan"} /\ op \in {"begin", "append", "purge", "recover"}
      BY <1>1, <1>2, <1>4, <2>3, UptoProperties DEF Remove, TypeOK, StorageTypes, CallTypes,
         LockForm
    <3>2. CASE Working(r)
      <4>1. op = "begin" /\ pc = "purge" /\ Begins(r) /\ Stored(r, batch[r]) /\ batch[r] = 0
        BY <1>1, <3>1, <3>2 DEF Working, ResultForm, Holds, Begins, Appends, Grows, LockForm
      <4>2. Stored(r, batch[r])'
        BY <1>1, <2>1, <3>1, <4>1 DEF Stored, indexVars, writerVars
      <4>3. Begins(r)' /\ Grows(r)'
        BY <1>1, <2>1, <4>1, <4>2 DEF Begins, Grows, indexVars, writerVars
      <4>4. answer'[r] = "none" /\ op' = "begin" /\ cur' = r
        BY <2>1, <3>2, <4>1 DEF Begins, Working, writerVars
      <4> QED
        BY <4>3, <4>4 DEF ResultForm, Holds, Working
    <3>3. CASE ~Working(r)
      <4>1. Rests(r) /\ (op = "recover" => r \notin kept)
        BY <1>1, <3>1, <3>3 DEF ResultForm, Recoverable
      <4>2. Rests(r)'
        BY <1>1, <2>1, <3>1, <4>1 DEF Rests, Stored, indexVars, writerVars
      <4> QED
        BY <1>1, <2>1, <3>3, <4>1, <4>2 DEF ResultForm, Holds, Working, indexVars, writerVars
    <3> QED
      BY <3>2, <3>3
  <2> QED
    BY <2>2, <2>3
<1> QED
  BY <1>3, <1>4

\* The steps of an operation between taking the lock and releasing it.
Steps ==
  \/ CheckResultQuota \/ PurgeDone \/ CleanupFails \/ WriteFrame \/ WriteFails
  \/ SyncFrame \/ SyncFails \/ Commit \/ CommitFails \/ Verify \/ VerifyFails

\* They do not touch what other results have.
LEMMA OthersKeep ==
  ASSUME IInv, NEW r \in Results, r # cur, Steps
  PROVE  ResultForm(r)'
<1>1. /\ ResultForm(r) /\ TypeOK /\ LockForm /\ cur \in Results /\ UNCHANGED expired
      /\ op \notin {"idle", "recover"} /\ ~Working(r)
  BY DEF IInv, Steps, CheckResultQuota, PurgeDone, CleanupFails, WriteFrame, WriteFails,
     SyncFrame, SyncFails, Commit, CommitFails, Verify, VerifyFails, LockForm, TypeOK,
     CallTypes, Working
<1>2. /\ writer'[r] = writer[r] /\ committed'[r] = committed[r] /\ batch'[r] = batch[r]
      /\ answer'[r] = answer[r] /\ (r \in active' <=> r \in active)
      /\ op' \in {op, "idle"} /\ cur' = cur
  <2>1. CASE FailWith
    BY <1>1, <2>1 DEF FailWith, TypeOK, CallTypes, Release, SetWriter, SetAnswer,
       AppendFailed
  <2>2. CASE Succeed
    BY <1>1, <2>2 DEF Succeed, TypeOK, CallTypes, Release, SetWriter, SetAnswer
  <2>3. CASE OutcomeUnknown /\ pc = "verify"
    <3>1. op \in {"begin", "append", "finish"}
      BY <1>1, <2>3 DEF LockForm, TypeOK, CallTypes
    <3> QED
      BY <1>1, <2>3, <3>1 DEF OutcomeUnknown, TypeOK, CallTypes, Release, SetWriter,
         SetAnswer, AppendFailed
  <2>4. CASE UNCHANGED <<writerVars, op, cur>>
    BY <2>4 DEF writerVars
  <2> QED
    BY <2>1, <2>2, <2>3, <2>4 DEF Steps, CheckResultQuota, PurgeDone, CleanupFails,
       WriteFrame, WriteFails, SyncFrame, SyncFails, Commit, CommitFails, Verify,
       VerifyFails, FailAndClean
<1>3. state'[r] = state[r] /\ indexed'[r] = indexed[r]
  <2>1. CASE CommitIndex /\ pc = "commit"
    <3>1. op \in {"begin", "append", "finish"}
      BY <1>1, <2>1 DEF LockForm, TypeOK, CallTypes
    <3> QED
      BY <1>1, <2>1, <3>1 DEF CommitIndex, TypeOK, StorageTypes
  <2>2. CASE UNCHANGED indexVars
    BY <2>2 DEF indexVars
  <2> QED
    BY <2>1, <2>2 DEF Steps, CheckResultQuota, PurgeDone, CleanupFails, WriteFrame,
       WriteFails, SyncFrame, SyncFails, Commit, CommitFails, Verify, VerifyFails
<1>4. file'[r] = file[r] /\ durable'[r] = durable[r]
  <2>1. ASSUME NEW c, FailAndClean(c) PROVE file'[r] = file[r] /\ durable'[r] = durable[r]
    <3>1. PICK left :
               /\ file' = [file EXCEPT ![cur] = left]
               /\ durable' = IF left = <<>> THEN [durable EXCEPT ![cur] = 0] ELSE durable
      BY <2>1 DEF FailAndClean
    <3> QED
      BY <1>1, <3>1 DEF TypeOK, StorageTypes
  <2>2. CASE UNCHANGED fileVars
    BY <2>2 DEF fileVars
  <2>3. CASE WriteFrame \/ SyncFrame
    BY <1>1, <2>3 DEF WriteFrame, SyncFrame, TypeOK, StorageTypes
  <2> QED
    BY <2>1, <2>2, <2>3 DEF Steps, CheckResultQuota, PurgeDone, CleanupFails, WriteFails,
       SyncFails, Commit, CommitFails, Verify, VerifyFails
<1>5. Same(r) /\ op' # "recover" /\ ~Working(r)'
  BY <1>1, <1>2, <1>3, <1>4 DEF Same, Working
<1> QED
  BY <1>1, <1>5, Elsewhere

\* How an operation that fails leaves its result.
LEMMA FailureKeeps ==
  ASSUME IInv, FailWith, op \in {"begin", "append", "finish", "abort", "drop"},
         UNCHANGED <<indexVars, expired>>, state[cur] # "complete"
  PROVE  ResultForm(cur)'
<1>1. ResultForm(cur) /\ TypeOK /\ cur \in Results
  BY DEF IInv, TypeOK, CallTypes
<1>2. /\ writer'[cur] \in {"poisoned", "dropping", "gone"} /\ op' = "idle" /\ cur' = cur
      /\ state'[cur] = state[cur] /\ answer'[cur] \in {answer[cur], "error"}
      /\ op = "append" <=> writer'[cur] = "poisoned"
      /\ op = "append" => UNCHANGED answer
  BY <1>1 DEF FailWith, Release, SetWriter, SetAnswer, AppendFailed, TypeOK, CallTypes,
     indexVars
<1>3. answer[cur] # "ok" /\ (op = "append" => answer[cur] = "none")
  BY <1>1 DEF ResultForm, Holds, Begins, Appends, Finishes, Deletes
<1> QED
  BY <1>2, <1>3 DEF ResultForm, Holds, Working, Rests

\* Checking the quota, before and after a purge, and giving up.
LEMMA QuotaKeeps ==
  ASSUME IInv, CheckResultQuota \/ PurgeDone \/ CleanupFails
  PROVE  ResultForm(cur)'
<1>1. /\ ResultForm(cur) /\ TypeOK /\ LockForm /\ cur \in Results
      /\ UNCHANGED <<indexVars, fileVars, expired>>
  BY DEF IInv, TypeOK, CallTypes, CheckResultQuota, PurgeDone, CleanupFails
<1>2. CASE op = "purge"
  <2>1. UNCHANGED writerVars /\ op' = "idle" /\ cur' = cur
    BY <1>1, <1>2 DEF CheckResultQuota, PurgeDone, CleanupFails, Succeed, FailWith, Release,
       LockForm, writerVars
  <2>2. Same(cur) /\ ~Working(cur) /\ ~Working(cur)'
    BY <1>1, <1>2, <2>1 DEF Same, Working, indexVars, fileVars, writerVars
  <2>3. ASSUME NEW r \in Results, r = cur PROVE ResultForm(r)'
    BY <1>1, <2>1, <2>2, <2>3, Elsewhere
  <2> QED
    BY <1>1, <2>1, <2>3
<1>3. CASE op # "purge" /\ FailWith
  <2>1. /\ op \in {"begin", "append", "abort", "drop"} /\ state[cur] # "complete"
    BY <1>1, <1>3 DEF CheckResultQuota, PurgeDone, CleanupFails, LockForm, TypeOK, CallTypes,
       ResultForm, Holds, Begins, Appends, Deletes
  <2> QED
    BY <1>1, <1>3, <2>1, FailureKeeps
<1>4. CASE op # "purge" /\ ~FailWith
  <2>1. /\ op \in {"begin", "append"} /\ pc \in {"quota", "purge"}
        /\ pc' \in {"purge", "write"} /\ UNCHANGED <<op, cur, writerVars>>
    BY <1>1, <1>4 DEF CheckResultQuota, PurgeDone, CleanupFails, LockForm, TypeOK, CallTypes
  <2>2. Stored(cur, batch[cur])'
    BY <1>1, <2>1 DEF ResultForm, Holds, Grows, Stored, indexVars, fileVars, writerVars
  <2>3. Grows(cur)'
    BY <2>1, <2>2 DEF Grows
  <2>4. (Begins(cur) => Begins(cur)') /\ (Appends(cur) => Appends(cur)')
    BY <1>1, <2>1 DEF Begins, Appends, indexVars, writerVars
  <2>5. answer'[cur] # "ok"
    BY <1>1, <2>1 DEF ResultForm, Holds, Begins, Appends, writerVars
  <2> QED
    BY <1>1, <2>1, <2>3, <2>4, <2>5 DEF ResultForm, Holds, Working
<1> QED
  BY <1>2, <1>3, <1>4

\* Writing a frame and syncing the file.
LEMMA WritingKeeps ==
  ASSUME IInv, WriteFrame \/ WriteFails \/ SyncFrame \/ SyncFails
  PROVE  ResultForm(cur)'
<1>1. /\ ResultForm(cur) /\ TypeOK /\ cur \in Results /\ op \in {"begin", "append"}
      /\ UNCHANGED <<indexVars, expired>> /\ batch[cur] \in Nat
  BY DEF IInv, TypeOK, CallTypes, LockForm, WriteFrame, WriteFails, SyncFrame, SyncFails
<1>2. CASE WriteFails \/ SyncFails
  <2>1. FailWith /\ state[cur] # "complete"
    BY <1>1, <1>2 DEF WriteFails, SyncFails, FailAndClean, ResultForm, Holds, Begins, Appends
  <2> QED
    BY <1>1, <2>1, FailureKeeps
<1>3. CASE WriteFrame
  <2>1. Written(batch[cur]) = Upto(batch[cur] + 1)
    <3>1. Written(batch[cur]) = Append(Upto(batch[cur]), batch[cur])
      BY <1>1, <1>3, WrittenProperties DEF WriteFrame
    <3> QED
      BY <1>1, <3>1, UptoProperties
  <2>2. /\ indexed[cur] = Upto(batch[cur]) /\ file'[cur] = Upto(batch[cur] + 1)
        /\ pc' = "sync" /\ pc = "write" /\ UNCHANGED <<writerVars, op, cur, indexed, state>>
    BY <1>1, <1>3, <2>1 DEF WriteFrame, ResultForm, Holds, Grows, Stored, TypeOK,
       StorageTypes, indexVars
  <2>3. Grows(cur)'
    BY <2>2 DEF Grows, writerVars
  <2>4. (Begins(cur) => Begins(cur)') /\ (Appends(cur) => Appends(cur)')
    BY <2>2 DEF Begins, Appends, writerVars
  <2>5. answer'[cur] # "ok"
    BY <1>1, <2>2 DEF ResultForm, Holds, Begins, Appends, writerVars
  <2> QED
    BY <1>1, <2>2, <2>3, <2>4, <2>5 DEF ResultForm, Holds, Working
<1>4. CASE SyncFrame
  <2>1. Len(Upto(batch[cur] + 1)) = batch[cur] + 1
    <3>1. batch[cur] + 1 \in Nat
      BY <1>1
    <3> QED
      BY <3>1, UptoProperties
  <2>2. /\ indexed[cur] = Upto(batch[cur]) /\ file[cur] = Upto(batch[cur] + 1)
        /\ pc' = "commit" /\ pc = "sync" /\ UNCHANGED <<writerVars, op, cur, indexVars, file>>
    BY <1>1, <1>4 DEF SyncFrame, ResultForm, Holds, Grows
  <2>3. durable'[cur] = batch[cur] + 1
    BY <1>1, <1>4, <2>1, <2>2 DEF SyncFrame, TypeOK, StorageTypes
  <2>4. Grows(cur)'
    BY <2>2, <2>3 DEF Grows, writerVars, indexVars
  <2>5. (Begins(cur) => Begins(cur)') /\ (Appends(cur) => Appends(cur)')
    BY <2>2 DEF Begins, Appends, writerVars, indexVars
  <2>6. answer'[cur] # "ok"
    BY <1>1, <2>2 DEF ResultForm, Holds, Begins, Appends, writerVars
  <2> QED
    BY <1>1, <2>2, <2>4, <2>5, <2>6 DEF ResultForm, Holds, Working
<1> QED
  BY <1>2, <1>3, <1>4

\* Index and file of the result of an operation that commits or reads back.
LEMMA CommitFacts ==
  ASSUME IInv, pc \in {"commit", "verify"}
  PROVE  /\ TypeOK /\ cur \in Results /\ batch[cur] \in Nat
         /\ op \in {"begin", "append", "finish"} /\ answer[cur] = "none"
         /\ file[cur] = Upto(batch[cur] + 1) /\ durable[cur] = batch[cur] + 1
         /\ op = "begin" => Begins(cur) /\ Grows(cur)
         /\ op = "append" => Appends(cur) /\ Grows(cur)
         /\ op = "finish" => Finishes(cur)
<1>1. /\ TypeOK /\ cur \in Results /\ ResultForm(cur) /\ batch[cur] \in Nat
      /\ op \in {"begin", "append", "finish"}
  BY DEF IInv, TypeOK, CallTypes, LockForm
<1> QED
  BY <1>1 DEF ResultForm, Holds, Begins, Appends, Grows, Finishes, Stored

\* A commit that is applied.
LEMMA CommitIndexFacts ==
  ASSUME IInv, pc = "commit", CommitIndex
  PROVE  /\ op # "finish" => indexed'[cur] = Upto(batch[cur] + 1) /\ state'[cur] = "writing"
         /\ op = "finish" => UNCHANGED indexed /\ state'[cur] = "complete"
<1>1. /\ TypeOK /\ cur \in Results /\ batch[cur] \in Nat
      /\ op \in {"begin", "append", "finish"}
      /\ op = "begin" => Begins(cur) /\ Grows(cur)
      /\ op = "append" => Appends(cur) /\ Grows(cur)
  BY CommitFacts
<1>2. CASE op = "begin"
  BY <1>1, <1>2, UptoProperties DEF CommitIndex, TypeOK, StorageTypes, Begins
<1>3. CASE op = "append"
  <2>1. /\ indexed[cur] = Upto(batch[cur])
        /\ Append(Upto(batch[cur]), batch[cur]) = Upto(batch[cur] + 1)
    BY <1>1, <1>3, UptoProperties DEF Grows
  <2> QED
    BY <1>1, <1>3, <2>1 DEF CommitIndex, TypeOK, StorageTypes, Appends
<1>4. CASE op = "finish"
  BY <1>1, <1>4 DEF CommitIndex, TypeOK, StorageTypes
<1> QED
  BY <1>1, <1>2, <1>3, <1>4

\* The success of an operation whose commit was applied.
LEMMA SuccessKeeps ==
  ASSUME IInv, pc \in {"commit", "verify"}, Succeed, UNCHANGED <<fileVars, expired>>,
         indexed'[cur] = Upto(batch[cur] + 1),
         state'[cur] = IF op = "finish" THEN "complete" ELSE "writing"
  PROVE  ResultForm(cur)'
<1>1. /\ TypeOK /\ cur \in Results /\ batch[cur] \in Nat
      /\ op \in {"begin", "append", "finish"} /\ answer[cur] = "none"
      /\ file[cur] = Upto(batch[cur] + 1) /\ durable[cur] = batch[cur] + 1
      /\ op = "begin" => Begins(cur)
      /\ op = "append" => Appends(cur)
  BY CommitFacts
<1>2. op' = "idle" /\ cur' = cur /\ UNCHANGED batch
  BY DEF Succeed, Release
<1>3. Stored(cur, batch[cur] + 1)'
  BY <1>1, <1>2 DEF Stored, fileVars
<1>4. CASE op # "finish"
  <2>1. /\ writer'[cur] = "open" /\ cur \in active' /\ committed'[cur] = batch[cur] + 1
        /\ answer'[cur] = "none"
    BY <1>1, <1>4 DEF Succeed, SetWriter, TypeOK, CallTypes, Begins, Appends
  <2>2. Rests(cur)'
    BY <1>2, <1>3, <1>4, <2>1 DEF Rests
  <2> QED
    BY <1>2, <2>1, <2>2 DEF ResultForm, Holds, Working
<1>5. CASE op = "finish"
  <2>1. writer'[cur] = "gone" /\ answer'[cur] = "ok"
    BY <1>1, <1>5 DEF Succeed, SetWriter, SetAnswer, TypeOK, CallTypes
  <2>2. Rests(cur)'
    BY <1>2, <1>3, <1>5, <2>1 DEF Rests
  <2> QED
    BY <1>2, <1>5, <2>1, <2>2 DEF ResultForm, Holds, Working
<1> QED
  BY <1>4, <1>5

\* Committing a frame or the completion.
LEMMA CommittingKeeps ==
  ASSUME IInv, Commit \/ CommitFails
  PROVE  ResultForm(cur)'
<1>1. /\ TypeOK /\ cur \in Results /\ batch[cur] \in Nat /\ pc = "commit"
      /\ op \in {"begin", "append", "finish"} /\ answer[cur] = "none"
      /\ file[cur] = Upto(batch[cur] + 1) /\ durable[cur] = batch[cur] + 1
      /\ op = "begin" => Begins(cur) /\ Grows(cur)
      /\ op = "append" => Appends(cur) /\ Grows(cur)
      /\ op = "finish" => Finishes(cur)
      /\ UNCHANGED <<fileVars, expired>>
  BY CommitFacts DEF Commit, CommitFails
<1>2. CASE Commit
  <2>1. indexed'[cur] = Upto(batch[cur] + 1)
    BY <1>1, <1>2, CommitIndexFacts DEF Commit, Finishes, Stored
  <2> QED
    BY <1>1, <1>2, <2>1, CommitIndexFacts, SuccessKeeps DEF Commit
<1>3. CASE CommitFails
  <2>1. UNCHANGED <<writerVars, op, cur>> /\ pc' = "verify"
    BY <1>3 DEF CommitFails
  <2>2. CASE op = "finish"
    <3>1. indexed'[cur] = Upto(batch[cur] + 1) /\ state'[cur] \in {"writing", "complete"}
      BY <1>1, <1>3, <2>2, CommitIndexFacts DEF CommitFails, Finishes, Stored, indexVars
    <3>2. Finishes(cur)'
      BY <1>1, <2>1, <2>2, <3>1 DEF Finishes, Stored, writerVars, fileVars
    <3> QED
      BY <1>1, <2>1, <2>2, <3>2 DEF ResultForm, Holds, Working, writerVars
  <2>3. CASE op # "finish"
    <3>1. \/ indexed'[cur] = Upto(batch[cur] + 1) /\ state'[cur] = "writing"
          \/ indexed'[cur] = Upto(batch[cur]) /\ state'[cur] = state[cur]
      BY <1>1, <1>3, <2>3, CommitIndexFacts DEF CommitFails, Grows, indexVars
    <3>2. Grows(cur)'
      BY <1>1, <2>1, <2>3, <3>1 DEF Grows, Begins, writerVars, fileVars
    <3>3. (op = "begin" => Begins(cur)') /\ (op = "append" => Appends(cur)')
      BY <1>1, <2>1, <2>3, <3>1 DEF Begins, Appends, writerVars
    <3> QED
      BY <1>1, <2>1, <2>3, <3>2, <3>3 DEF ResultForm, Holds, Working, writerVars
  <2> QED
    BY <2>2, <2>3
<1> QED
  BY <1>2, <1>3

\* Reading back whether a commit was applied.
LEMMA VerifyingKeeps ==
  ASSUME IInv, Verify \/ VerifyFails
  PROVE  ResultForm(cur)'
<1>1. /\ TypeOK /\ cur \in Results /\ batch[cur] \in Nat /\ pc = "verify"
      /\ op \in {"begin", "append", "finish"} /\ answer[cur] = "none"
      /\ file[cur] = Upto(batch[cur] + 1) /\ durable[cur] = batch[cur] + 1
      /\ op = "begin" => Begins(cur) /\ Grows(cur)
      /\ op = "append" => Appends(cur) /\ Grows(cur)
      /\ op = "finish" => Finishes(cur)
      /\ UNCHANGED <<indexVars, expired>>
  BY CommitFacts DEF Verify, VerifyFails
<1>2. CASE Applied /\ Succeed /\ UNCHANGED fileVars
  <2>1. state[cur] = IF op = "finish" THEN "complete" ELSE "writing"
    BY <1>1, <1>2 DEF Applied
  <2>2. Len(Upto(batch[cur])) = batch[cur]
    BY <1>1, UptoProperties
  <2>3. indexed[cur] = Upto(batch[cur] + 1)
    BY <1>1, <1>2, <2>1, <2>2 DEF Applied, Begins, Appends, Grows, Finishes, Stored
  <2> QED
    BY <1>1, <1>2, <2>1, <2>3, SuccessKeeps DEF indexVars
<1>3. CASE Verify /\ NotApplied /\ FailAndClean(file[cur])
  <2>1. state[cur] # "complete" /\ FailWith
    BY <1>1, <1>3 DEF NotApplied, MatchesWriting, FailAndClean, Appends
  <2> QED
    BY <1>1, <2>1, FailureKeeps
<1>4. CASE VerifyFails
  <2>1. /\ op' = "idle" /\ cur' = cur /\ UNCHANGED <<fileVars, indexVars, batch>>
        /\ writer'[cur] = IF op = "append" THEN "poisoned" ELSE "gone"
        /\ answer'[cur] = IF op = "append" THEN "none" ELSE "unknown"
    BY <1>1, <1>4 DEF VerifyFails, OutcomeUnknown, Release, SetWriter, SetAnswer,
       AppendFailed, TypeOK, CallTypes
  <2>2. state[cur] = "complete" => op = "finish" /\ Stored(cur, batch[cur] + 1)
    BY <1>1 DEF Begins, Appends, Finishes
  <2>3. Rests(cur)'
    BY <2>1, <2>2 DEF Rests, Stored, indexVars, fileVars
  <2> QED
    BY <2>1, <2>3 DEF ResultForm, Holds, Working
<1> QED
  BY <1>2, <1>3, <1>4 DEF Verify

\* A crash, after which the storage is recovered.
LEMMA CrashKeeps == ASSUME IInv, NEW r \in Results, Crash PROVE ResultForm(r)'
<1>1. ResultForm(r) /\ TypeOK /\ batch[r] \in Nat
  BY DEF IInv, TypeOK, CallTypes
<1>2. PICK left \in [Results -> UNION {Leftovers(q) : q \in Results}] :
        /\ \A q \in Results : left[q] \in Leftovers(q)
        /\ file' = left /\ durable' = [q \in Results |-> Len(left[q])]
  BY DEF Crash
<1>3. ASSUME NEW n \in Nat, Stored(r, n)
      PROVE  Stored(r, n)'
  <2>1. Len(Upto(n)) = n
    BY UptoProperties
  <2>2. left[r] = file[r]
    BY <1>1, <1>2, <1>3, <2>1, LeftoversProperties DEF Stored
  <2> QED
    BY <1>2, <1>3, <2>1, <2>2 DEF Stored, Crash, indexVars
<1>4. /\ writer'[r] = IF writer[r] = "unborn" THEN "unborn" ELSE "gone"
      /\ op' = "recover" /\ kept' = {}
      /\ UNCHANGED <<state, committed, batch, answer, expired>>
  BY DEF Crash, indexVars
<1>5. /\ writer[r] = "unborn" =>
           /\ state[r] = "none" /\ Stored(r, 0) /\ answer[r] = "none"
           /\ batch[r] = 0 /\ committed[r] = 0
      /\ state[r] = "complete" => Stored(r, batch[r] + 1)
      /\ answer[r] = "error" => state[r] # "complete"
  <2>1. CASE Working(r)
    BY <1>1, <2>1 DEF ResultForm, Working, Holds, Begins, Appends, Finishes, Deletes
  <2>2. CASE ~Working(r)
    BY <1>1, <2>2 DEF ResultForm, Rests
  <2> QED
    BY <2>1, <2>2
<1>6. Rests(r)'
  <2>1. writer'[r] = "unborn" => Stored(r, 0)'
    BY <1>3, <1>4, <1>5
  <2>2. batch[r] + 1 \in Nat /\ batch'[r] = batch[r]
    BY <1>1, <1>4
  <2>3. ASSUME NEW n \in Nat, n = batch[r] + 1, state'[r] = "complete"
        PROVE  Stored(r, n)'
    BY <1>3, <1>4, <1>5, <2>3
  <2>4. state'[r] = "complete" => Stored(r, batch[r] + 1)'
    BY <2>2, <2>3 DEF Stored
  <2> QED
    BY <1>4, <1>5, <2>1, <2>4 DEF Rests
<1>7. answer[r] = "ok" => writer[r] = "gone" /\ (r \in expired \/ state[r] = "complete")
  BY <1>1 DEF ResultForm
<1> QED
  BY <1>4, <1>6, <1>7 DEF ResultForm, Holds, Working

\* A validated result loses its unindexed tail, if it has one.
LEMMA RecoveryKeeps ==
  ASSUME IInv, NEW r \in Results, NEW q \in Results, RecoverKeeps(q)
  PROVE  ResultForm(r)'
<1>1. /\ ResultForm(r) /\ ResultForm(q) /\ TypeOK /\ batch[q] \in Nat /\ op = "recover"
      /\ UNCHANGED <<indexVars, expired, writerVars, op, cur, pc>>
      /\ Recoverable(q) /\ kept' = kept \cup {q}
  BY DEF IInv, TypeOK, CallTypes, LockForm, RecoverKeeps
<1>2. Stored(q, batch[q] + 1)
  BY <1>1 DEF ResultForm, Working, Rests, Recoverable
<1>3. /\ Len(Upto(batch[q] + 1)) = batch[q] + 1
      /\ SubSeq(Upto(batch[q] + 1), 1, batch[q] + 1) = Upto(batch[q] + 1)
  <2>1. batch[q] + 1 \in Nat
    BY <1>1
  <2> QED
    BY <2>1, UptoProperties
<1>4. file' = file /\ durable' = durable
  BY <1>1, <1>2, <1>3 DEF RecoverKeeps, Stored, TypeOK, StorageTypes
<1>5. Same(r)
  BY <1>1, <1>4 DEF Same, indexVars, writerVars
<1>6. CASE r # q
  BY <1>1, <1>5, <1>6, Untouched
<1>7. CASE r = q
  <2>1. Recoverable(r)'
    BY <1>1, <1>4, <1>7 DEF Recoverable, ValidCompleted, indexVars
  <2>2. Rests(r)'
    BY <1>1, <1>5 DEF ResultForm, Working, Rests, Stored, Same
  <2>3. /\ writer'[r] \in {"unborn", "gone"}
        /\ answer'[r] = "ok" => state'[r] = "complete" /\ writer'[r] = "gone"
    BY <1>1, <1>5, <1>7 DEF ResultForm, Recoverable, Same
  <2> QED
    BY <1>1, <2>1, <2>2, <2>3 DEF ResultForm, Holds, Working
<1> QED
  BY <1>6, <1>7

\* The storage opens.
LEMMA RecoveredKeeps == ASSUME IInv, NEW r \in Results, RecoverDone PROVE ResultForm(r)'
<1>1. /\ ResultForm(r) /\ op = "recover" /\ op' = "idle"
      /\ UNCHANGED <<indexVars, fileVars, expired, writerVars>>
  BY DEF IInv, LockForm, RecoverDone, Scanned, Succeed, Release, writerVars
<1>2. Same(r) /\ ~Working(r) /\ ~Working(r)'
  BY <1>1 DEF Same, Working, indexVars, fileVars, writerVars
<1> QED
  BY <1>1, <1>2, Elsewhere

\* Every step keeps every result in form.
LEMMA ResultStep ==
  ASSUME IInv, [Next]_vars, NEW r \in Results
  PROVE  ResultForm(r)'
<1>1. ResultForm(r) /\ cur \in Results
  BY DEF IInv, TypeOK, CallTypes
<1>2. CASE Steps
  <2>1. CASE r = cur
    <3>1. ResultForm(cur)'
      BY <1>2, QuotaKeeps, WritingKeeps, CommittingKeeps, VerifyingKeeps DEF Steps
    <3>2. cur' = cur
      BY <1>2 DEF Steps, CheckResultQuota, PurgeDone, CleanupFails, WriteFrame, WriteFails,
         SyncFrame, SyncFails, Commit, CommitFails, Verify, VerifyFails, FailAndClean,
         FailWith, Succeed, OutcomeUnknown, Release
    <3> QED
      BY <2>1, <3>1, <3>2 DEF ResultForm, Holds, Working, Begins, Appends, Grows, Finishes,
         Deletes, Rests, Stored, Recoverable, ValidCompleted
  <2>2. CASE r # cur
    BY <1>2, <2>2, OthersKeep
  <2> QED
    BY <2>1, <2>2
<1>3. CASE PurgeExpired
  BY <1>1, <1>3, CallsKeep
<1>4. CASE DeleteOwnRow
  BY <1>1, <1>4, DeletionsKeep
<1>5. CASE Unlink \/ Crash \/ RecoverDone
  BY <1>5, UnlinkKeeps, CrashKeeps, RecoveredKeeps
<1>6. ASSUME NEW q \in Results,
             \/ BeginResult(q) \/ AppendBatch(q) \/ AppendInvalid(q)
             \/ Finish(q) \/ FinishRefused(q) \/ Abort(q) \/ DropWriter(q)
             \/ Expire(q) \/ PurgeRow(q) \/ PurgeOrphan(q)
             \/ RecoverEvicts(q) \/ RecoverKeeps(q) \/ RecoverOrphan(q)
      PROVE  ResultForm(r)'
  BY <1>6, CallsKeep, DeletionsKeep, RecoveryKeeps
<1>7. CASE UNCHANGED vars
  <2>1. Same(r) /\ UNCHANGED <<op, cur, pc, expired, kept>>
    BY <1>7 DEF vars, Same, indexVars, fileVars, writerVars, lockVars
  <2> QED
    BY <1>1, <2>1, Untouched
<1> QED
  BY <1>2, <1>3, <1>4, <1>5, <1>6, <1>7 DEF Next, Steps

\* The invariant holds throughout.
THEOREM Invariant == Spec => []IInv
<1>1. Init => IInv
  <2>1. ASSUME Init PROVE StorageTypes /\ CallTypes
    <3>1. <<>> \in Contents
      BY DEF Contents
    <3> QED
      BY <2>1, <3>1 DEF Init, StorageTypes, CallTypes, Writers
  <2>2. ASSUME Init PROVE LockForm
    BY <2>2 DEF Init, LockForm
  <2>3. ASSUME Init, NEW r \in Results PROVE ResultForm(r)
    BY <2>3, UptoProperties DEF Init, ResultForm, Holds, Working, Rests, Stored
  <2> QED
    BY <2>1, <2>2, <2>3 DEF IInv, TypeOK
<1>2. IInv /\ [Next]_vars => IInv'
  BY StorageStep, CallStep, LockStep, ResultStep DEF IInv, TypeOK
<1> QED
  BY <1>1, <1>2, PTL DEF Spec

-----------------------------------------------------------------------------
(* The theorems.                                                            *)

\* A result is visible as complete only with every batch appended to it, and
\* reading it finds no corruption: see CompleteIsWhole.
THEOREM CompletionIsWhole == Spec => []CompleteIsWhole
<1>1. IInv => CompleteIsWhole
  <2> SUFFICES ASSUME IInv, NEW r \in Results, state[r] = "complete"
               PROVE  /\ indexed[r] = Upto(batch[r] + 1)
                      /\ file[r] = indexed[r] /\ durable[r] = Len(file[r])
    BY DEF CompleteIsWhole, Upto
  <2>1. ResultForm(r) /\ batch[r] + 1 \in Nat
    BY DEF IInv, TypeOK, CallTypes
  <2>2. Stored(r, batch[r] + 1)
    BY <2>1 DEF ResultForm, Holds, Working, Begins, Appends, Finishes, Deletes, Rests
  <2> QED
    BY <2>1, <2>2, UptoProperties DEF Stored
<1> QED
  BY <1>1, Invariant, PTL

\* An open writer finds its row and its file as it left them: see LeaseHolds.
THEOREM LeasesHold == Spec => []LeaseHolds
<1>1. IInv => LeaseHolds
  <2> SUFFICES ASSUME IInv, op = "idle", NEW r \in Results, writer[r] = "open"
               PROVE  /\ r \in active /\ state[r] = "writing"
                      /\ Len(indexed[r]) = committed[r] /\ file[r] = indexed[r]
    BY DEF LeaseHolds
  <2>1. Rests(r) /\ batch[r] + 1 \in Nat
    BY DEF IInv, TypeOK, CallTypes, ResultForm, Working
  <2> QED
    BY <2>1, UptoProperties DEF Rests, Stored
<1> QED
  BY <1>1, Invariant, PTL

\* What finish told its caller stays true: see AnswerTruthful.
THEOREM AnswersTruthful == Spec => []AnswerTruthful
<1>1. IInv => AnswerTruthful
  BY DEF IInv, ResultForm, Holds, Working, Begins, Appends, Finishes, Deletes, Rests,
     AnswerTruthful
<1> QED
  BY <1>1, Invariant, PTL

\* The storage opens with complete, unexpired results and their files only: see
\* StartupClean.
THEOREM StartsClean == Spec => StartupClean
<1> DEFINE Clean ==
      op = "recover" /\ op' = "idle" =>
        \A r \in Results :
          /\ state'[r] \in {"none", "complete"}
          /\ state'[r] = "complete" => r \notin expired'
          /\ state'[r] = "none" => file'[r] = <<>>
<1>1. IInv /\ [Next]_vars => [Clean]_vars
  <2> SUFFICES ASSUME IInv, Next, op = "recover", op' = "idle", NEW r \in Results
               PROVE  /\ state'[r] \in {"none", "complete"}
                      /\ state'[r] = "complete" => r \notin expired'
                      /\ state'[r] = "none" => file'[r] = <<>>
    OBVIOUS
  <2>1. pc = "scan" /\ (r \in kept => Recoverable(r))
    BY DEF IInv, LockForm, ResultForm
  <2>2. RecoverDone
    BY <2>1 DEF Next, BeginResult, AppendBatch, AppendInvalid,
       Finish, FinishRefused, Abort, DropWriter, Expire, PurgeRow, PurgeOrphan,
       RecoverEvicts, RecoverKeeps, RecoverOrphan, PurgeExpired, CheckResultQuota,
       DeleteOwnRow, Unlink, PurgeDone, CleanupFails, WriteFrame, WriteFails, SyncFrame,
       SyncFails, Commit, CommitFails, Verify, VerifyFails, Crash, Lock, lockVars
  <2>3. /\ state[r] # "none" => r \in kept
        /\ r \notin kept => file[r] = <<>>
        /\ UNCHANGED <<state, file, expired>>
    BY <2>2 DEF RecoverDone, Scanned, indexVars, fileVars
  <2> QED
    BY <2>1, <2>3 DEF Recoverable
<1> QED
  BY <1>1, Invariant, PTL DEF Spec, StartupClean
=============================================================================
