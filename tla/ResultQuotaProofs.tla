------------------------- MODULE ResultQuotaProofs --------------------------
(***************************************************************************)
(* The quota theorem of ResultStore.  It rests on the invariant of          *)
(* ResultStoreProofs and on counting the frames of all files.               *)
(***************************************************************************)
EXTENDS ResultStoreProofs, FiniteSetTheorems

\* A frame is written only where there is room for it.
QuotaForm == QuotaHeld /\ (pc = "write" => Room)

\* Counting frames makes sense.
LEMMA FramesFinite ==
  ASSUME NEW n \in [Results -> Nat]
  PROVE  IsFiniteSet(Frames(n)) /\ Cardinality(Frames(n)) \in Nat
<1> DEFINE f == [r \in Results |-> {r} \X (1..n[r])]
           T == {f[r] : r \in Results}
<1>1. f \in Surjection(Results, T)
  BY DEF Surjection
<1>2. IsFiniteSet(T)
  BY <1>1, FS_Surjection, StoreAssumption
<1>3. ASSUME NEW t \in T PROVE IsFiniteSet(t)
  <2>1. PICK r \in Results : t = {r} \X (1..n[r])
    OBVIOUS
  <2>2. IsFiniteSet({r}) /\ IsFiniteSet(1..n[r])
    <3>1. 1 \in Int /\ n[r] \in Int
      OBVIOUS
    <3> QED
      BY <3>1, FS_Singleton, FS_Interval
  <2> QED
    BY <2>1, <2>2, FS_Product
<1>4. IsFiniteSet(UNION T)
  BY <1>2, <1>3, FS_UNION
<1>5. Frames(n) = UNION T
  BY DEF Frames
<1> QED
  BY <1>4, <1>5, FS_CardinalityType

\* Which frames there are.
LEMMA FramesElements ==
  ASSUME NEW n \in [Results -> Nat], NEW x
  PROVE  x \in Frames(n) <=> \E r \in Results : \E i \in 1..n[r] : x = <<r, i>>
BY DEF Frames

\* Shorter files have fewer frames.
LEMMA FewerFrames ==
  ASSUME NEW m \in [Results -> Nat], NEW n \in [Results -> Nat],
         \A r \in Results : m[r] <= n[r]
  PROVE  Cardinality(Frames(m)) <= Cardinality(Frames(n))
<1>1. ASSUME NEW x \in Frames(m) PROVE x \in Frames(n)
  <2>0. PICK r \in Results : \E i \in 1..m[r] : x = <<r, i>>
    BY FramesElements
  <2>1. PICK i \in 1..m[r] : x = <<r, i>>
    BY <2>0
  <2>2. i \in 1..n[r]
    BY <2>1
  <2> QED
    BY <2>1, <2>2, FramesElements
<1> QED
  BY <1>1, FramesFinite, FS_Subset

\* A frame more in one of them is one more at most.
LEMMA OneMoreFrame ==
  ASSUME NEW m \in [Results -> Nat], NEW n \in [Results -> Nat], NEW c \in Results,
         m[c] <= n[c] + 1, \A r \in Results \ {c} : m[r] <= n[r]
  PROVE  Cardinality(Frames(m)) <= Cardinality(Frames(n)) + 1
<1> DEFINE F == Frames(n) \cup {<<c, n[c] + 1>>}
<1>1. ASSUME NEW x \in Frames(m) PROVE x \in F
  <2>0. PICK r \in Results : \E i \in 1..m[r] : x = <<r, i>>
    BY FramesElements
  <2>1. PICK i \in 1..m[r] : x = <<r, i>>
    BY <2>0
  <2>2. i \in 1..n[r] \/ (r = c /\ i = n[c] + 1)
    BY <2>1
  <2> QED
    BY <2>1, <2>2, FramesElements
<1>2. IsFiniteSet(Frames(n)) /\ Cardinality(Frames(n)) \in Nat
  BY FramesFinite
<1>3. IsFiniteSet(F) /\ Cardinality(F) <= Cardinality(Frames(n)) + 1
  <2>1. /\ IsFiniteSet(F)
        /\ Cardinality(F) = IF <<c, n[c] + 1>> \in Frames(n) THEN Cardinality(Frames(n))
                            ELSE Cardinality(Frames(n)) + 1
    BY <1>2, FS_AddElement
  <2> HIDE DEF F
  <2> QED
    BY <1>2, <2>1
<1>4. Cardinality(Frames(m)) <= Cardinality(F)
  BY <1>1, <1>3, FS_Subset
<1>5. Cardinality(F) \in Nat /\ Cardinality(Frames(m)) \in Nat
  BY <1>3, FramesFinite, FS_CardinalityType
<1> QED
  BY <1>2, <1>3, <1>4, <1>5

\* The lengths of files and rows.
LEMMA Lengths ==
  ASSUME TypeOK, NEW r \in Results
  PROVE  /\ Len(file[r]) \in Nat /\ Len(indexed[r]) \in Nat
         /\ Accounted(r) \in Nat /\ Len(file[r]) <= Accounted(r)
<1>1. file[r] \in Seq(Nat) /\ indexed[r] \in Seq(Nat)
  BY DEF TypeOK, StorageTypes, Contents
<1>2. Len(file[r]) \in Nat /\ Len(indexed[r]) \in Nat
  BY <1>1
<1> QED
  BY <1>2 DEF Accounted, Larger

\* Only writing a frame makes a file longer.
LEMMA NoLonger ==
  ASSUME IInv, [Next]_vars, ~WriteFrame, ~WriteFails, NEW r \in Results
  PROVE  Len(file'[r]) <= Len(file[r])
<1>1. TypeOK /\ Len(file[r]) \in Nat /\ Len(<<>>) = 0 /\ cur \in Results
  BY Lengths DEF IInv, TypeOK, CallTypes
<1>2. CASE UNCHANGED file
  BY <1>1, <1>2
<1>3. ASSUME NEW q \in Results, Remove(q) PROVE Len(file'[r]) <= Len(file[r])
  BY <1>1, <1>3 DEF Remove, TypeOK, StorageTypes
<1>4. CASE FailAndClean(file[cur])
  <2>1. PICK left \in {file[cur], <<>>} : file' = [file EXCEPT ![cur] = left]
    BY <1>4 DEF FailAndClean
  <2> QED
    BY <1>1, <2>1 DEF TypeOK, StorageTypes
<1>5. CASE Crash
  <2>1. PICK left \in [Results -> UNION {Leftovers(q) : q \in Results}] :
          (\A q \in Results : left[q] \in Leftovers(q)) /\ file' = left
    BY <1>5 DEF Crash
  <2> QED
    BY <1>1, <2>1, LeftoversProperties
<1>6. ASSUME NEW q \in Results, RecoverKeeps(q) PROVE Len(file'[r]) <= Len(file[r])
  <2>1. /\ Len(indexed[q]) \in 0..Len(file[q]) /\ file[q] \in Seq(Nat)
    BY <1>1, <1>6, Lengths DEF RecoverKeeps, Recoverable, ValidCompleted, TypeOK,
       StorageTypes, Contents
  <2>2. Len(SubSeq(file[q], 1, Len(indexed[q]))) = Len(indexed[q])
    BY <2>1, PrefixOf
  <2> QED
    BY <1>1, <1>6, <2>1, <2>2 DEF RecoverKeeps, TypeOK, StorageTypes
<1>7. CASE Unlink
  BY <1>1, <1>3, <1>7 DEF Unlink, TypeOK, CallTypes
<1>8. CASE SyncFails \/ Verify
  BY <1>2, <1>4, <1>8 DEF SyncFails, Verify, fileVars
<1>9. ASSUME NEW q \in Results,
             \/ BeginResult(q) \/ AppendBatch(q) \/ AppendInvalid(q)
             \/ Finish(q) \/ FinishRefused(q) \/ Abort(q) \/ DropWriter(q)
             \/ Expire(q) \/ PurgeRow(q) \/ RecoverEvicts(q)
      PROVE  UNCHANGED file
  BY <1>9 DEF BeginResult, AppendBatch, AppendInvalid, Finish, FinishRefused, Abort,
     DropWriter, Expire, PurgeRow, RecoverEvicts, fileVars
<1>10. CASE \/ PurgeExpired \/ CheckResultQuota \/ DeleteOwnRow \/ PurgeDone \/ CleanupFails
            \/ SyncFrame \/ Commit \/ CommitFails \/ VerifyFails \/ RecoverDone
            \/ UNCHANGED vars
  BY <1>2, <1>10 DEF PurgeExpired, CheckResultQuota, DeleteOwnRow, PurgeDone, CleanupFails,
     SyncFrame, Commit, CommitFails, VerifyFails, RecoverDone, vars, fileVars
<1> QED
  BY <1>2, <1>3, <1>5, <1>6, <1>7, <1>8, <1>9, <1>10 DEF Next, PurgeOrphan, RecoverOrphan

\* Every step keeps the quota.
LEMMA QuotaStep == ASSUME IInv, IInv', QuotaForm, [Next]_vars PROVE QuotaForm'
<1> DEFINE lengths == [r \in Results |-> Len(file[r])]
           accounted == [r \in Results |-> Accounted(r)]
<1>1. /\ lengths \in [Results -> Nat] /\ lengths' \in [Results -> Nat]
      /\ accounted \in [Results -> Nat]
      /\ \A r \in Results : lengths[r] <= accounted[r]
  <2>1. TypeOK /\ TypeOK'
    BY DEF IInv
  <2>2. \A r \in Results : /\ Len(file[r]) \in Nat /\ Len(file'[r]) \in Nat
                           /\ Accounted(r) \in Nat /\ Len(file[r]) <= Accounted(r)
    <3>1. \A r \in Results : Len(file[r]) \in Nat /\ Accounted(r) \in Nat
                             /\ Len(file[r]) <= Accounted(r)
      BY <2>1, Lengths
    <3>2. \A r \in Results : file'[r] \in Seq(Nat)
      BY <2>1 DEF TypeOK, StorageTypes, Contents
    <3> QED
      BY <3>1, <3>2
  <2> QED
    BY <2>2
<1>2. CASE WriteFrame \/ WriteFails
  <2>1. pc = "write" /\ Room /\ pc' # "write" /\ cur \in Results
    BY <1>2 DEF QuotaForm, WriteFrame, WriteFails, FailAndClean, FailWith, Release, IInv,
       TypeOK, CallTypes
  <2>2. \E content \in {file[cur], <<>>, Written(batch[cur]), Written(Torn)} :
           file' = [file EXCEPT ![cur] = content]
    BY <1>2 DEF WriteFrame, WriteFails, FailAndClean
  <2>3. /\ Len(Written(batch[cur])) = Len(file[cur]) + 1
        /\ Len(Written(Torn)) = Len(file[cur]) + 1
    <3>1. batch[cur] \in Nat /\ Torn \in Nat
      BY <2>1, StoreAssumption DEF IInv, TypeOK, CallTypes, Torn
    <3>2. Len(file[cur]) = batch[cur]
      BY <2>1, <3>1, WrittenProperties, UptoProperties
    <3> QED
      BY <2>1, <3>1, <3>2, WrittenProperties
  <2>4. /\ Len(file'[cur]) <= Len(file[cur]) + 1
        /\ \A r \in Results \ {cur} : file'[r] = file[r]
    <3>1. file \in [Results -> Contents] /\ Len(file[cur]) \in Nat /\ Len(<<>>) = 0
      BY <2>1, Lengths DEF IInv, TypeOK, StorageTypes
    <3> QED
      BY <2>1, <2>2, <2>3, <3>1
  <2>5. /\ lengths'[cur] <= accounted[cur] + 1
        /\ \A r \in Results \ {cur} : lengths'[r] <= accounted[r]
    BY <1>1, <2>1, <2>4
  <2> HIDE DEF lengths, accounted
  <2>6. Cardinality(Frames(lengths')) <= Cardinality(Frames(accounted)) + 1
    BY <1>1, <2>1, <2>5, OneMoreFrame
  <2>7. Cardinality(Frames(accounted)) + 1 <= MaxRetained
    BY <2>1 DEF Room, RetainedResultBytes, accounted
  <2>8. Cardinality(Frames(lengths')) \in Nat /\ Cardinality(Frames(accounted)) \in Nat
    BY <1>1, FramesFinite
  <2>9. Cardinality(Frames(lengths')) <= MaxRetained
    BY <2>6, <2>7, <2>8, StoreAssumption
  <2> QED
    BY <2>1, <2>9 DEF QuotaForm, QuotaHeld, Frames, lengths
<1>3. CASE ~WriteFrame /\ ~WriteFails
  <2>1. \A r \in Results : lengths'[r] <= lengths[r]
    BY <1>3, NoLonger
  <2> HIDE DEF lengths
  <2>2. Cardinality(Frames(lengths')) <= Cardinality(Frames(lengths))
    BY <1>1, <2>1, FewerFrames
  <2>3. Cardinality(Frames(lengths)) <= MaxRetained
    BY DEF QuotaForm, QuotaHeld, lengths
  <2>4. Cardinality(Frames(lengths')) \in Nat /\ Cardinality(Frames(lengths)) \in Nat
    BY <1>1, FramesFinite
  <2>5. Cardinality(Frames(lengths')) <= MaxRetained
    BY <2>2, <2>3, <2>4, StoreAssumption
  <2>6. QuotaHeld'
    BY <2>5 DEF QuotaHeld, Frames, lengths
  <2>7. pc' = "write" => Room'
    <3>1. SUFFICES ASSUME pc' = "write" PROVE Room /\ UNCHANGED <<indexed, file>>
      BY DEF Room, RetainedResultBytes, Frames, Accounted
    <3>2. CASE CheckResultQuota \/ PurgeDone
      BY <3>1, <3>2 DEF CheckResultQuota, PurgeDone, Succeed, FailWith, Release, indexVars,
         fileVars
    <3>3. CASE UNCHANGED vars
      BY <3>1, <3>3 DEF vars, indexVars, fileVars, lockVars, QuotaForm
    <3>4. pc' = pc => UNCHANGED vars
      <4>1. LockForm /\ (pc' = pc => pc = "write")
        BY <3>1 DEF IInv
      <4> QED
        BY <1>3, <3>1, <4>1 DEF Next, LockForm, BeginResult, AppendBatch, AppendInvalid,
           Finish, FinishRefused, Abort, DropWriter, Expire, PurgeRow, PurgeOrphan,
           RecoverEvicts, RecoverKeeps, RecoverOrphan, PurgeExpired, CheckResultQuota,
           DeleteOwnRow, Unlink, PurgeDone, CleanupFails, SyncFrame, SyncFails, Commit,
           CommitFails, Verify, VerifyFails, Crash, RecoverDone, Scanned, Lock, lockVars
    <3>5. CASE ~CheckResultQuota /\ ~PurgeDone /\ pc' # pc
      <4>1. CASE Release
        BY <3>1, <4>1 DEF Release
      <4>2. CASE ~Release
        BY <1>3, <3>1, <3>5, <4>2 DEF Next, BeginResult, AppendBatch, AppendInvalid,
           Finish, FinishRefused, Abort, DropWriter, Expire, PurgeRow, PurgeOrphan,
           RecoverEvicts, RecoverKeeps, RecoverOrphan, PurgeExpired,
           DeleteOwnRow, Unlink, CleanupFails, SyncFrame, SyncFails, Commit, FailAndClean,
           CommitFails, Verify, VerifyFails, Crash, RecoverDone, Lock, lockVars, FailWith,
           Succeed, OutcomeUnknown, vars
      <4> QED
        BY <4>1, <4>2
    <3> QED
      BY <3>2, <3>3, <3>4, <3>5
  <2> QED
    BY <2>6, <2>7 DEF QuotaForm
<1> QED
  BY <1>2, <1>3


\* The result files never take more than max_retained_bytes, whatever fails
\* and wherever the process stops: see QuotaHeld.
THEOREM QuotaIsHeld == Spec => []QuotaHeld
<1>1. Init => QuotaForm
  <2> SUFFICES ASSUME Init PROVE QuotaForm
    OBVIOUS
  <2>1. Frames([r \in Results |-> Len(file[r])]) = {}
    BY DEF Init, Frames
  <2>2. Cardinality(Frames([r \in Results |-> Len(file[r])])) = 0
    BY <2>1, FS_EmptySet
  <2> QED
    BY <2>2, StoreAssumption DEF Init, QuotaForm, QuotaHeld
<1>2. IInv /\ IInv' /\ QuotaForm /\ [Next]_vars => QuotaForm'
  BY QuotaStep
<1>3. QuotaForm => QuotaHeld
  BY DEF QuotaForm
<1> QED
  BY <1>1, <1>2, <1>3, Invariant, PTL DEF Spec
=============================================================================
