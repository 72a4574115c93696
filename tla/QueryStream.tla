----------------------------- MODULE QueryStream -----------------------------
(***************************************************************************)
(* One credit-controlled query from end to end: the consumer and the        *)
(* supervisor actor in Rust (HostStream), the query operation in Java       *)
(* (EngineOperation) and the pipes and the deadline between them            *)
(* (QueryWire).                                                             *)
(***************************************************************************)
EXTENDS HostStream, EngineOperation, SequencesExt

vars == <<hostVars, engineVars, wireVars>>

Init == WireInit /\ HostInit /\ EngineInit

\* A killed process leaves nothing behind.
EngineDies ==
  /\ entry' = "none" /\ credits' = 0 /\ reserved' = 0 /\ flags' = {}
  /\ cause' = "NONE" /\ worker' = "idle" /\ verdict' = "none"
  /\ batch' = NoBatch /\ sequence' = 0 /\ rowCount' = 0 /\ batches' = 0
  /\ resources' = "none" /\ canceller' = "idle" /\ watchdog' = "armed"
  /\ session' = "ready" /\ dispatched' = <<>> /\ writer' = <<>>

HostStep ==
  /\ HostNext
  /\ IF Up /\ generation' # "up" THEN EngineDies ELSE UNCHANGED engineVars
EngineStep == EngineNext /\ UNCHANGED hostVars
ClockStep == DeadlinePasses /\ UNCHANGED <<hostVars, engineVars>>

Next == HostStep \/ EngineStep \/ ClockStep

Spec == Init /\ [][Next]_vars

\* The actor, the Java threads and the JDBC driver make progress; the
\* consumer, the clock and the process failures promise nothing, and neither
\* does Statement.cancel.
FairSpec ==
  /\ Spec
  /\ WF_vars((AbandonStream \/ RouteFrame \/ RouteControl)
             /\ UNCHANGED engineVars)
  /\ WF_vars((BeforeWrite \/ JoinRetired \/ FlushFrame) /\ UNCHANGED hostVars)
  /\ WF_vars((RegisterQuery \/ RefuseQuery \/ GrantCredits \/ CancelOperation
              \/ QueueResponse) /\ UNCHANGED hostVars)
  /\ WF_vars(WorkerNext /\ UNCHANGED hostVars)

\* As FairSpec, with a driver whose Statement.cancel always returns.
CancelFairSpec ==
  /\ FairSpec
  /\ WF_vars(CancelReturns /\ UNCHANGED hostVars)
  /\ WF_vars(RunCleanup /\ UNCHANGED hostVars)

-----------------------------------------------------------------------------
(* Properties. *)

\* Sequence numbers, row offsets, credits and channel room always agree: the
\* Java writer never sends what StreamPending::route refuses, so no
\* interleaving of grants, cancellations, failures and drops makes the actor
\* kill a healthy engine as a protocol violator.
NoProtocolError == Up => Routable

\* The credits of the messages of a sequence that satisfy a test.
CreditsOf(Test(_), s) ==
  FoldLeft(LAMBDA sum, m : IF Test(m) THEN sum + m.credits ELSE sum, 0, s)

IsCredit(m) == m.kind \in {"query", "grant"}
IsBatch(f) == f.kind = "batch"

\* What Java has decided to send and the host has not yet read.
Frames ==
  toHost \o [i \in DOMAIN writer |-> writer[i].frame] \o dispatched
RefusedCredits ==
  FoldLeft(LAMBDA sum, f :
             IF f.kind # "refused" THEN sum
             ELSE sum + (CHOOSE c \in controls : c.id = f.id).credits,
           0, Frames)

\* No credit is created or lost: what the host counts as outstanding is what
\* Java still holds, plus what is under way in either direction.  A batch on
\* the wire still counts, and so does a refusal the host has not yet seen;
\* the reservation of a batch already written does not.  A lost credit stalls
\* the stream for ever, a spurious one overruns the event channel.
CreditConservation ==
  Up /\ pending = "active" /\ SelectSeq(Frames, IsTerminal) = <<>> =>
    outstanding = credits + CreditsOf(IsCredit, toEngine)
                  + (IF worker \in {"send", "sent"} THEN 0 ELSE reserved)
                  + Len(SelectSeq(Frames, IsBatch)) + RefusedCredits

\* The reason a stream ended always reaches a consumer that keeps reading,
\* also when the process dies under it: next_event never finds the channel
\* closed without a terminal event.
EndReported == outcome # "lost"

\* A cancellation whose caller was told Accepted is honoured: the query does
\* not end as QueryCompleted, however far its worker had come.
CancelHonoured ==
  cancelAnswer = "accepted" =>
    /\ outcome # "completed"
    /\ \A i \in DOMAIN events : events[i] # "completed"
    /\ \A i \in DOMAIN Frames : Frames[i].kind # "completed"

\* A session is given back only when the operation is really over: nothing of
\* the operation is open and no cancellation can still hit the connection.  Nor
\* are Statement and ResultSet closed under a running Statement.cancel, also
\* when the cancellation outlives the settle timeout.
ReleasedIsOver ==
  /\ entry \in {"leaving", "retired"} => resources # "open" /\ canceller = "idle"
  /\ canceller = "cancelling" => resources # "closed"

\* A request sent after the terminal frame was routed does not collide with
\* the query that ended: by then the operation has left the registry, unless
\* the routing of that very frame made the host's session state BROKEN.  It is
\* said of the step that routes the frame: the answer of a refused grant, sent
\* earlier and routed later, may put an older state back into the cell.
TerminalFrees ==
  [][Up' /\ pending = "active" /\ pending' = "gone" =>
       entry' # "active" \/ sessionSeen' = "broken"]_vars

\* A dropped stream ends by itself, without help from the deadline: the
\* cancellation sent on drop reaches a worker in whatever state it is.
DropSettles ==
  handle = "dropped" ~> pending # "active"

\* The cleanup left to a late Statement.cancel happens: once the terminal
\* frame was routed, the operation is retired and nothing stays open.
CleanupHappens ==
  pending = "gone" /\ Up ~> ~ Up \/ (entry # "active" /\ resources # "open")
=============================================================================
