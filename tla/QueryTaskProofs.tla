-------------------------- MODULE QueryTaskProofs ---------------------------
(***************************************************************************)
(* The safety theorems of QueryTask.                                        *)
(***************************************************************************)
EXTENDS QueryTask, SequenceTheorems, TLAPS

\* The task before its query reached the engine, while it consumes the stream,
\* and once it gives up.
Before == {"absent", "spawned", "abandoned", "registered", "opening", "execute"}
Consuming == {"select", "cancel", "begin", "append", "report", "grant", "finish"}
GivingUp == {"settle", "drain", "abort"}
Leaving == {"close", "publish", "remove", "ended", "aborted"}

Events == {"Started", "Batch"} \cup Ends

TypeOK ==
  /\ accepting \in {"open", "closed"} /\ tasks \in {"in", "out"}
  /\ join \in {"idle", "waiting", "aborting", "done"}
  /\ status \in {"unborn", "Running"} \cup Ends
  /\ reported \in Nat /\ cancel \in {"Waiting", "changed", "seen"}
  /\ pc \in Before \cup Consuming \cup GivingUp \cup Leaving
  /\ outcome \in {"none"} \cup Ends /\ accepted \in {"no", "yes"}
  /\ event \in {"none"} \cup Events /\ queue \in Seq(Events)
  /\ session \in {"none", "open", "closed", "left"}
  /\ writer \in {"none", "open", "complete", "aborted"} /\ appended \in Nat
  /\ engine \in {"none"} \cup Live \cup Ends /\ asked \in {"no", "yes"}
  /\ produced \in Nat /\ credits \in Nat
  /\ routed \in {"no", "yes"} /\ terminal \in {"no", "yes"}
  /\ faults \in Nat

\* The stream: at most one event besides the terminal one is queued, since the
\* engine holds at most one credit, and the first follows the start.
Unread == routed = "yes" /\ terminal = "no"
StreamForm ==
  /\ Len(queue) <= IF Unread THEN 2 ELSE 1
  /\ Unread => Len(queue) > 0 /\ queue[Len(queue)] = engine
  /\ \A i \in 1..Len(queue) : queue[i] \in Ends <=> Unread /\ i = Len(queue)
  /\ routed = "yes" => engine \in Ends
  /\ terminal = "yes" => routed = "yes" /\ queue = <<>>
  /\ engine \in {"none", "executing"} =>
       queue = <<>> /\ produced = 0 /\ credits = 0 /\ appended = 0

HeadIs(e) == queue # <<>> /\ Head(queue) = e

\* Batches and credits: a batch that is queued or in hand is the one the
\* engine is ahead by.
Counted ==
  /\ reported <= appended /\ appended <= produced
  /\ produced + credits <= appended + 1
  /\ HeadIs("Started") => produced = 0 /\ credits = 0
  /\ HeadIs("Batch") => produced = appended + 1
  /\ pc \in {"select", "cancel"} /\ ~HeadIs("Batch") => produced = appended
  /\ pc = "begin" => produced = 0 /\ credits = 0
  /\ pc = "append" => produced = appended + 1 /\ ~HeadIs("Batch")
  /\ pc \in {"report", "grant"} => produced + credits = appended
  /\ pc \in {"begin", "append", "report", "grant", "finish"} => ~HeadIs("Started")

\* What the task has done when it is where it is.
Progress ==
  /\ pc \in Before => engine = "none" /\ writer = "none"
  /\ pc \in Before \ {"execute"} => session = "none"
  /\ pc \in GivingUp \cup {"close", "publish"} => outcome \in Ends
  /\ pc \in Consuming \cup GivingUp => engine # "none"
  /\ pc \in {"begin", "append", "report", "grant", "finish"} => engine # "executing"
  /\ pc = "finish" => engine = "Completed" /\ produced = appended
  /\ pc \in {"close", "publish", "remove", "ended"} => writer # "open"
  /\ pc \in {"publish", "remove", "ended"} => session # "open"
  /\ session = "left" => pc \in Leaving /\ faults > 0
  /\ pc = "aborted" => writer # "open"
  /\ pc \in {"abort", "close", "publish", "remove", "ended"} /\ engine \in Live => faults > 0

\* A success stands for a complete result.
Whole == engine = "Completed" /\ writer = "complete" /\ appended = produced
Success ==
  /\ outcome = "Completed" => pc \in Leaving /\ Whole
  /\ status = "Completed" => pc \in {"remove", "ended", "aborted"} /\ Whole

IInv == TypeOK /\ StreamForm /\ Counted /\ Progress /\ Success

-----------------------------------------------------------------------------
(* The steps.                                                               *)

\* What is left of a queue of at most two events.
LEMMA SecondOf ==
  ASSUME NEW S, NEW T, NEW q \in Seq(S), q # <<>>,
         Len(q) <= 2, Len(q) = 2 => q[2] \in T
  PROVE  Tail(q) # <<>> => Head(Tail(q)) \in T
<1>1. Len(q) \in Nat \ {0}
  BY EmptySeq
<1>2. Tail(q) \in Seq(S) /\ Len(Tail(q)) = Len(q) - 1
  BY HeadTailProperties
<1>3. ASSUME Tail(q) # <<>> PROVE Len(Tail(q)) \in Nat \ {0}
  BY <1>2, <1>3, EmptySeq
<1>4. ASSUME Len(q) = 2 PROVE Head(Tail(q)) = q[2]
  BY <1>4
<1> QED
  BY <1>1, <1>2, <1>3, <1>4

\* The domains of the variables.
LEMMA TypeStep == ASSUME IInv, [Next]_vars PROVE TypeOK'
<1> USE DEF IInv, TypeOK, Events, Ends, Live, Before, Consuming, GivingUp, Leaving,
            coreVars, hubVars, taskVars, ownVars, streamVars, Goto, EndWith, Fault
<1>1. CASE StartPreparedQuery \/ Register \/ CallerGone
  BY <1>1 DEF StartPreparedQuery, Register, CallerGone
<1>2. CASE UserCancel \/ BeginShutdown
  BY <1>2 DEF UserCancel, BeginShutdown, RequestCancel
<1>3. CASE JoinQueryTasks \/ TaskJoined \/ JoinTimeout \/ JoinCancels
  BY <1>3 DEF JoinQueryTasks, TaskJoined, JoinTimeout, JoinCancels
<1>4. CASE TaskAborted
  BY <1>4 DEF TaskAborted
<1>5. CASE BeginTask \/ OpenSession \/ ExecuteQuery
  BY <1>5 DEF BeginTask, OpenSession, ExecuteQuery
<1>6. CASE SelectCancel \/ CancelStream
  BY <1>6 DEF SelectCancel, CancelStream
<1>7. CASE NextEvent
  BY <1>7 DEF NextEvent, Handler
<1>8. CASE BeginWriter \/ AppendBatch \/ Report \/ GrantNextCredit
  BY <1>8 DEF BeginWriter, AppendBatch, Report, GrantNextCredit
<1>9. CASE FinishWriter \/ SettleQueryStream
  BY <1>9 DEF FinishWriter, SettleQueryStream
<1>10. CASE Drain \/ AbortWriter
  <2>1. queue' \in Seq(Events)
    BY <1>10, HeadTailProperties DEF Drain, AbortWriter, streamVars
  <2> QED
    BY <1>10, <2>1 DEF Drain, AbortWriter
<1>11. CASE CloseSession \/ Publish \/ RemoveTask
  BY <1>11 DEF CloseSession, Publish, RemoveTask, Progress
<1>12. CASE EngineStarts
  BY <1>12 DEF EngineStarts
<1>13. CASE EngineEnds
  BY <1>13 DEF EngineEnds
<1>14. CASE EngineSendsBatch
  <2>1. credits' \in Nat /\ produced' \in Nat /\ queue' \in Seq(Events)
    BY <1>14 DEF EngineSendsBatch
  <2> QED
    BY <1>14, <2>1 DEF EngineSendsBatch
<1>15. CASE RouteTerminal
  BY <1>15 DEF RouteTerminal
<1>16. CASE UNCHANGED vars
  BY <1>16 DEF vars
<1> QED
  BY <1>1, <1>2, <1>3, <1>4, <1>5, <1>6, <1>7, <1>8, <1>9, <1>10, <1>11, <1>12,
     <1>13, <1>14, <1>15, <1>16
  DEF Next, TaskStep, BridgeStep

\* A step leaves the stream and its counters alone.
Aside == UNCHANGED <<engine, produced, credits, queue, routed, terminal, appended>>

\* The steps that do not.
LEMMA AsideSteps ==
  ASSUME Next
  PROVE  \/ Aside \/ ExecuteQuery \/ NextEvent \/ AppendBatch
         \/ GrantNextCredit \/ Drain \/ BridgeStep
<1> USE DEF Aside, ownVars, streamVars
<1>1. CASE StartPreparedQuery \/ Register \/ CallerGone \/ UserCancel \/ BeginShutdown
  BY <1>1 DEF StartPreparedQuery, Register, CallerGone, UserCancel, BeginShutdown
<1>2. CASE \/ JoinQueryTasks \/ TaskJoined \/ JoinTimeout \/ JoinCancels
           \/ TaskAborted
  BY <1>2 DEF JoinQueryTasks, TaskJoined, JoinTimeout, JoinCancels, TaskAborted
<1>3. CASE BeginTask \/ OpenSession \/ SelectCancel \/ CancelStream
  BY <1>3 DEF BeginTask, OpenSession, SelectCancel, CancelStream
<1>4. CASE BeginWriter \/ Report \/ FinishWriter \/ SettleQueryStream \/ AbortWriter
  BY <1>4 DEF BeginWriter, Report, FinishWriter, SettleQueryStream, AbortWriter
<1>5. CASE CloseSession \/ Publish \/ RemoveTask
  BY <1>5 DEF CloseSession, Publish, RemoveTask
<1> QED
  BY <1>1, <1>2, <1>3, <1>4, <1>5 DEF Next, TaskStep

\* The engine sends its events in the order and number the task expects.
LEMMA StreamStep == ASSUME IInv, [Next]_vars PROVE StreamForm'
<1> USE DEF IInv, TypeOK, StreamForm, Unread, Events, Ends, Live
<1>1. CASE Aside \/ UNCHANGED vars
  BY <1>1 DEF Aside, vars, ownVars, streamVars
<1>2. CASE ExecuteQuery
  BY <1>2 DEF ExecuteQuery, ownVars, Progress, Before
<1>3. CASE NextEvent
  BY <1>3 DEF NextEvent, ownVars
<1>4. CASE AppendBatch
  BY <1>4 DEF AppendBatch, streamVars, Progress, Consuming
<1>5. CASE GrantNextCredit
  BY <1>5 DEF GrantNextCredit, ownVars, Progress, Consuming
<1>6. CASE Drain
  BY <1>6 DEF Drain, ownVars
<1>7. CASE EngineStarts
  BY <1>7 DEF EngineStarts, ownVars
<1>8. CASE EngineSendsBatch
  BY <1>8 DEF EngineSendsBatch, ownVars, Counted, HeadIs
<1>9. CASE EngineEnds
  BY <1>9 DEF EngineEnds, ownVars
<1>10. CASE RouteTerminal
  BY <1>10 DEF RouteTerminal, ownVars
<1> QED
  BY <1>1, <1>2, <1>3, <1>4, <1>5, <1>6, <1>7, <1>8, <1>9, <1>10, AsideSteps
  DEF BridgeStep

\* No batch and no credit is lost or made up on the way to the result.
LEMMA CountedStep == ASSUME IInv, [Next]_vars PROVE Counted'
<1> USE DEF IInv, TypeOK, Counted, HeadIs, Before, Consuming, GivingUp, Leaving,
            Goto, EndWith
<1>1. CASE Aside /\ UNCHANGED reported /\ pc' \in {pc} \cup GivingUp \cup Leaving
  BY <1>1 DEF Aside
<1>2. CASE StartPreparedQuery \/ Register \/ CallerGone \/ BeginTask \/ OpenSession
  BY <1>2 DEF StartPreparedQuery, Register, CallerGone, BeginTask, OpenSession,
     hubVars, ownVars, streamVars
<1>3. CASE ExecuteQuery
  BY <1>3 DEF ExecuteQuery, hubVars, ownVars, StreamForm, Progress
<1>4. CASE SelectCancel \/ CancelStream
  BY <1>4 DEF SelectCancel, CancelStream, hubVars, ownVars, streamVars
<1>5. CASE NextEvent
  <2>1. ~HeadIs("Started")' /\ ~HeadIs("Batch")'
    <3>1. queue # <<>> /\ queue' = Tail(queue) /\ queue \in Seq(Events)
      BY <1>5 DEF NextEvent
    <3>2. Len(queue) <= 2 /\ (Len(queue) = 2 => queue[2] \in Ends)
      BY DEF StreamForm, Unread
    <3> HIDE DEF IInv, TypeOK, Counted
    <3>3. queue' # <<>> => Head(queue') \in Ends
      BY <3>1, <3>2, SecondOf
    <3> QED
      BY <3>3 DEF Ends
  <2>2. UNCHANGED <<reported, appended, produced, credits>>
    BY <1>5 DEF NextEvent, hubVars, ownVars
  <2>3. /\ Head(queue) \in Events
        /\ HeadIs("Started") => pc' = "begin"
        /\ HeadIs("Batch") => pc' = "append"
        /\ ~HeadIs("Started") /\ ~HeadIs("Batch") => pc' \in {"finish", "settle"}
    <3>1. queue # <<>> /\ pc' = Handler(Head(queue))
      BY <1>5 DEF NextEvent
    <3>2. Head(queue) \in Events
      BY <3>1
    <3> QED
      BY <3>1, <3>2 DEF Handler, Events, Ends
  <2> HIDE DEF HeadIs
  <2>4. /\ pc \in {"select", "cancel"}
        /\ HeadIs("Started") => produced = 0 /\ credits = 0
        /\ HeadIs("Batch") => produced = appended + 1
    BY <1>5 DEF NextEvent
  <2> QED
    BY <2>1, <2>2, <2>3, <2>4
<1>6. CASE BeginWriter
  BY <1>6 DEF BeginWriter, hubVars, streamVars
<1>7. CASE AppendBatch
  BY <1>7 DEF AppendBatch, hubVars, streamVars
<1>8. CASE Report
  BY <1>8 DEF Report, ownVars, streamVars
<1>9. CASE GrantNextCredit
  BY <1>9 DEF GrantNextCredit, hubVars, ownVars
<1>10. CASE Drain
  BY <1>10 DEF Drain, hubVars, ownVars, StreamForm, Unread, Events, Ends
<1>11. CASE EngineStarts
  BY <1>11 DEF EngineStarts, hubVars, taskVars, ownVars, StreamForm, Progress
<1>12. CASE EngineSendsBatch
  BY <1>12 DEF EngineSendsBatch, hubVars, taskVars, ownVars, StreamForm, Unread,
     Events, Ends
<1>13. CASE EngineEnds
  BY <1>13 DEF EngineEnds, hubVars, taskVars, ownVars
<1>14. CASE RouteTerminal
  BY <1>14 DEF RouteTerminal, hubVars, taskVars, ownVars, StreamForm, Events, Ends
<1>15. CASE UNCHANGED vars
  BY <1>1, <1>15 DEF vars, Aside, hubVars, taskVars, ownVars, streamVars
<1>16. CASE UserCancel \/ BeginShutdown \/ JoinQueryTasks \/ TaskJoined \/ JoinTimeout
  BY <1>1, <1>16 DEF UserCancel, BeginShutdown, JoinQueryTasks, TaskJoined,
     JoinTimeout, Aside, hubVars, taskVars, ownVars, streamVars
<1>17. CASE JoinCancels \/ TaskAborted
  BY <1>1, <1>17 DEF JoinCancels, TaskAborted, Aside, hubVars, taskVars, ownVars,
     streamVars
<1>18. CASE FinishWriter \/ SettleQueryStream \/ AbortWriter
  BY <1>1, <1>18 DEF FinishWriter, SettleQueryStream, AbortWriter, Aside, hubVars,
     ownVars, streamVars
<1>19. CASE CloseSession \/ Publish \/ RemoveTask
  BY <1>1, <1>19 DEF CloseSession, Publish, RemoveTask, Aside, hubVars, ownVars,
     streamVars
<1> QED
  BY <1>2, <1>3, <1>4, <1>5, <1>6, <1>7, <1>8, <1>9, <1>10, <1>11, <1>12, <1>13,
     <1>14, <1>15, <1>16, <1>17, <1>18, <1>19 DEF Next, TaskStep, BridgeStep

\* Session, writer and query are where the task takes them to be.
LEMMA ProgressStep == ASSUME IInv, [Next]_vars PROVE Progress'
<1> USE DEF IInv, TypeOK, Progress, Before, Consuming, GivingUp, Leaving, Ends,
            Live, Goto, EndWith
<1>1. CASE StartPreparedQuery \/ Register \/ CallerGone
  BY <1>1 DEF StartPreparedQuery, Register, CallerGone, ownVars, streamVars
<1>2. CASE UserCancel \/ BeginShutdown \/ JoinQueryTasks \/ TaskJoined \/ JoinTimeout
  BY <1>2 DEF UserCancel, BeginShutdown, JoinQueryTasks, TaskJoined, JoinTimeout,
     taskVars, ownVars, streamVars
<1>3. CASE JoinCancels
  BY <1>3 DEF JoinCancels, taskVars, ownVars, streamVars
<1>4. CASE TaskAborted
  BY <1>4 DEF TaskAborted, Running, streamVars
<1>5. CASE BeginTask
  BY <1>5 DEF BeginTask, ownVars, streamVars
<1>6. CASE OpenSession
  BY <1>6 DEF OpenSession, streamVars
<1>7. CASE ExecuteQuery
  BY <1>7 DEF ExecuteQuery, ownVars
<1>8. CASE SelectCancel \/ CancelStream
  BY <1>8 DEF SelectCancel, CancelStream, ownVars, streamVars, Fault
<1>9. CASE NextEvent
  BY <1>9 DEF NextEvent, Handler, ownVars, StreamForm, Unread, Events, Counted, HeadIs
<1>10. CASE BeginWriter \/ AppendBatch
  BY <1>10 DEF BeginWriter, AppendBatch, streamVars, Fault
<1>11. CASE Report \/ GrantNextCredit
  BY <1>11 DEF Report, GrantNextCredit, ownVars, streamVars, Fault
<1>12. CASE FinishWriter
  BY <1>12 DEF FinishWriter, streamVars, Fault
<1>13. CASE SettleQueryStream
  BY <1>13 DEF SettleQueryStream, ownVars, Fault
<1>14. CASE Drain
  BY <1>14 DEF Drain, ownVars, StreamForm
<1>15. CASE AbortWriter
  BY <1>15 DEF AbortWriter, streamVars
<1>16. CASE CloseSession
  BY <1>16 DEF CloseSession, streamVars, Fault
<1>17. CASE Publish \/ RemoveTask
  BY <1>17 DEF Publish, RemoveTask, ownVars, streamVars
<1>18. CASE EngineStarts \/ EngineSendsBatch
  BY <1>18 DEF EngineStarts, EngineSendsBatch, taskVars, ownVars
<1>19. CASE EngineEnds \/ RouteTerminal
  BY <1>19 DEF EngineEnds, RouteTerminal, taskVars, ownVars, Fault
<1>20. CASE UNCHANGED vars
  BY <1>20 DEF vars, taskVars, ownVars, streamVars
<1> QED
  BY <1>1, <1>2, <1>3, <1>4, <1>5, <1>6, <1>7, <1>8, <1>9, <1>10, <1>11, <1>12,
     <1>13, <1>14, <1>15, <1>16, <1>17, <1>18, <1>19, <1>20
  DEF Next, TaskStep, BridgeStep

\* A success is published only for a complete result, and it stays one.
LEMMA SuccessStep == ASSUME IInv, [Next]_vars PROVE Success'
<1> USE DEF IInv, TypeOK, Success, Whole, Progress, Before, Consuming, GivingUp,
            Leaving, Ends, Live, Goto, EndWith
<1>1. CASE StartPreparedQuery \/ Register \/ CallerGone
  BY <1>1 DEF StartPreparedQuery, Register, CallerGone, hubVars, ownVars, streamVars
<1>2. CASE UserCancel \/ BeginShutdown \/ JoinQueryTasks \/ TaskJoined \/ JoinTimeout
  BY <1>2 DEF UserCancel, BeginShutdown, JoinQueryTasks, TaskJoined, JoinTimeout,
     hubVars, taskVars, ownVars, streamVars
<1>3. CASE JoinCancels
  BY <1>3 DEF JoinCancels, taskVars, ownVars, streamVars
<1>4. CASE TaskAborted
  BY <1>4 DEF TaskAborted, hubVars, streamVars
<1>5. CASE BeginTask \/ OpenSession \/ ExecuteQuery
  BY <1>5 DEF BeginTask, OpenSession, ExecuteQuery, hubVars, ownVars, streamVars
<1>6. CASE SelectCancel \/ CancelStream
  BY <1>6 DEF SelectCancel, CancelStream, hubVars, ownVars, streamVars
<1>7. CASE NextEvent
  BY <1>7 DEF NextEvent, Handler, hubVars, ownVars
<1>8. CASE BeginWriter \/ AppendBatch \/ Report \/ GrantNextCredit
  BY <1>8 DEF BeginWriter, AppendBatch, Report, GrantNextCredit, hubVars, ownVars,
     streamVars
<1>9. CASE FinishWriter
  BY <1>9 DEF FinishWriter, hubVars, streamVars
<1>10. CASE SettleQueryStream \/ Drain \/ AbortWriter
  BY <1>10 DEF SettleQueryStream, Drain, AbortWriter, hubVars, ownVars, streamVars
<1>11. CASE CloseSession
  BY <1>11 DEF CloseSession, hubVars, streamVars
<1>12. CASE Publish \/ RemoveTask
  BY <1>12 DEF Publish, RemoveTask, hubVars, ownVars, streamVars
<1>13. CASE BridgeStep
  BY <1>13 DEF BridgeStep, EngineStarts, EngineSendsBatch, EngineEnds, RouteTerminal,
     hubVars, taskVars, ownVars
<1>14. CASE UNCHANGED vars
  BY <1>14 DEF vars, hubVars, taskVars, ownVars, streamVars
<1> QED
  BY <1>1, <1>2, <1>3, <1>4, <1>5, <1>6, <1>7, <1>8, <1>9, <1>10, <1>11, <1>12,
     <1>13, <1>14
  DEF Next, TaskStep

-----------------------------------------------------------------------------
\* The invariant holds throughout.
THEOREM Invariant == Spec => []IInv
<1>1. Init => IInv
  BY DEF Init, IInv, TypeOK, StreamForm, Counted, Progress, Success, HeadIs, Whole,
     Unread, Before, Consuming, GivingUp, Leaving, Events, Ends, Live
<1>2. IInv /\ [Next]_vars => IInv'
  BY TypeStep, StreamStep, CountedStep, ProgressStep, SuccessStep DEF IInv
<1> QED
  BY <1>1, <1>2, PTL DEF Spec

\* Batches are persisted before they are reported and before the engine gets
\* the next credit: see PersistedFirst.
THEOREM BatchesPersistedFirst == Spec => []PersistedFirst
<1>1. IInv => PersistedFirst
  BY DEF IInv, Counted, PersistedFirst
<1> QED
  BY <1>1, Invariant, PTL

\* A completed operation has the whole result of a completed query, whatever
\* failed, was cancelled or was shut down meanwhile: see CompletedIsWhole.
THEOREM CompletionIsWhole == Spec => []CompletedIsWhole
<1>1. IInv => CompletedIsWhole
  BY DEF IInv, Success, Whole, CompletedIsWhole
<1> QED
  BY <1>1, Invariant, PTL

\* Wherever the task ends or is aborted, its writer is finished or removed; a
\* task that ends has tried to close its session, and leaves neither session
\* nor query in the engine unless a call failed: see NothingLeftBehind.
THEOREM TaskLeavesNothing == Spec => []NothingLeftBehind
<1>1. IInv => NothingLeftBehind
  BY DEF IInv, Progress, NothingLeftBehind, Leaving
<1> QED
  BY <1>1, Invariant, PTL
=============================================================================
