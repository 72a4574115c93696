----------------------------- MODULE HostStream -----------------------------
(***************************************************************************)
(* The host end of a query stream: the QueryStream handle a consumer holds  *)
(* (supervisor/jdbc.rs), and the part of the supervisor actor that owns the *)
(* pending stream and its control requests (supervisor/pending.rs and       *)
(* supervisor/actor.rs).                                                    *)
(*                                                                          *)
(* A call of the handle and its acceptance by the actor are one step: the   *)
(* caller waits, and what the call checks first (its own `terminal' flag)   *)
(* only the caller changes.  A request the actor refuses before its writer  *)
(* queue changes nothing here and is not a step.                            *)
(*                                                                          *)
(* A definition X_Fault is a faulty variant of the X that follows it, kept  *)
(* to show that the properties notice it; no specification uses it.         *)
(***************************************************************************)
EXTENDS QueryWire, FiniteSets

CONSTANTS
  Capacity,      \* stream_event_capacity: slots of the event channel
  ControlSlots,  \* control_lane_capacity: control requests in flight
  MaxControls    \* bound: control requests the consumer issues

ASSUME CapacityAssumption ==
  /\ Capacity \in Nat /\ Capacity >= 2      \* checked by the configuration
  /\ ControlSlots \in Nat \ {0}
  /\ MaxControls \in Nat

VARIABLES
  handle,       \* QueryStream: none, open, terminal (flag set) or dropped
  outcome,      \* what the consumer saw last: none, completed, an error, lost
  events,       \* the bounded channel from the actor to the consumer
  pending,      \* the stream's PendingRequest: absent, active or gone
  sink,         \* StreamPending.events: some or none (abandoned)
  started,      \* StreamPending.started: no or yes
  nextSequence, nextRowOffset, outstanding,   \* fields of StreamPending
  controls,     \* control requests of PendingRequests.active
  issued,       \* how many control requests were issued
  cancelling,   \* the query is in cancelling_targets: no or yes
  abandon,      \* an ActorControl::AbandonStream is queued: no or yes
  sessionSeen,  \* SessionStateCell: the state routed responses reported
  cancelAnswer  \* accepted once QueryStream::cancel returned Accepted

streamVars == <<sink, started, nextSequence, nextRowOffset, outstanding>>
handleVars == <<handle, outcome>>
hostVars == <<handleVars, events, pending, streamVars, controls, issued,
              cancelling, abandon, sessionSeen, cancelAnswer>>

HostInit ==
  /\ handle = "none" /\ outcome = "none" /\ events = <<>>
  /\ pending = "absent" /\ sink = "some" /\ started = "no"
  /\ nextSequence = 0 /\ nextRowOffset = 0 /\ outstanding = 0
  /\ controls = {} /\ issued = 0 /\ cancelling = "no" /\ abandon = "no"
  /\ sessionSeen = "ready" /\ cancelAnswer = "none"

-----------------------------------------------------------------------------
(* The consumer's calls. *)

\* execute_query: validate_stream_registration bounds the initial credits.
Start(credits) ==
  /\ Up /\ handle = "none"
  /\ credits <= Capacity - 2
  /\ credits <= MaxCreditGrant
  /\ handle' = "open"
  /\ pending' = "active"
  /\ outstanding' = credits
  /\ SendToEngine([kind |-> "query", id |-> Query, credits |-> credits])
  /\ UNCHANGED <<outcome, events, sink, started, nextSequence, nextRowOffset,
                 controls, issued, cancelling, abandon, sessionSeen, toHost,
                 generation, deadline, cancelAnswer>>

\* Slots kept for QueryStarted and for the terminal event.
ReservedNonBatch == IF started = "yes" THEN 1 ELSE 2

\* StreamPending::reserve_credits, with events.capacity() the free slots.
CanReserve(credits) ==
  /\ sink = "some"
  /\ credits \in 1..MaxCreditGrant
  /\ credits <= Capacity - Len(events) - ReservedNonBatch - outstanding
  /\ outstanding + credits <= MaxOutstandingCredits

\* accept_request of a control request: a free slot of the control lane.
ControlSlotFree == Cardinality(controls) < ControlSlots

IssueControl(kind, credits, caller) ==
  /\ issued' = issued + 1
  /\ controls' = controls \cup
       {[id |-> issued', kind |-> kind, credits |-> credits,
         caller |-> caller]}
  /\ SendToEngine([kind |-> kind, id |-> issued', credits |-> credits])

\* QueryStream::grant_credits.
Grant(credits) ==
  /\ Up /\ handle = "open" /\ pending = "active"
  /\ issued < MaxControls /\ ControlSlotFree
  /\ CanReserve(credits)
  /\ outstanding' = outstanding + credits
  /\ IssueControl("grant", credits, "waiting")
  /\ UNCHANGED <<events, pending, sink, started, nextSequence, nextRowOffset,
                 cancelling, abandon, sessionSeen, toHost, generation,
                 deadline, cancelAnswer, handleVars>>

\* QueryStream::cancel: one cancellation in flight per stream.
Cancel ==
  /\ Up /\ handle = "open" /\ pending = "active"
  /\ issued < MaxControls /\ ControlSlotFree
  /\ cancelling = "no"
  /\ cancelling' = "yes"
  /\ IssueControl("cancel", 0, "waiting")
  /\ UNCHANGED <<events, pending, abandon, sessionSeen, toHost, generation,
                 deadline, cancelAnswer, streamVars, handleVars>>

\* QueryStream::next_event.  The channel ends once its sender is dropped.
NextEvent ==
  /\ handle = "open"
  /\ IF events # <<>>
     THEN /\ events' = Tail(events)
          /\ IF Head(events) \in {"started", "batch"}
             THEN UNCHANGED handleVars
             ELSE handle' = "terminal" /\ outcome' = Head(events)
     ELSE /\ pending = "gone" \/ sink = "none"
          /\ handle' = "terminal" /\ outcome' = "lost"
          /\ UNCHANGED events
  /\ UNCHANGED <<pending, controls, issued, cancelling, abandon, sessionSeen,
                 cancelAnswer, streamVars, wireVars>>

\* Drop for QueryStream: the queued events go with the receiver.
DropStream ==
  /\ handle = "open"
  /\ handle' = "dropped"
  /\ events' = <<>>
  /\ abandon' = "yes"
  /\ UNCHANGED <<outcome, pending, controls, issued, cancelling, sessionSeen,
                 cancelAnswer, streamVars, wireVars>>

-----------------------------------------------------------------------------
(* The actor. *)

\* ActorControl::AbandonStream: abandon_stream, then the drop's own cancel,
\* which the actor refuses if one is in flight or no slot is free.
CanCancelOnDrop == pending = "active" /\ cancelling = "no" /\ ControlSlotFree

AbandonStream_Fault ==
  /\ Up /\ abandon = "yes"
  /\ abandon' = "no"
  /\ sink' = IF pending = "active" THEN "none" ELSE sink
  /\ UNCHANGED <<events, pending, started, nextSequence, nextRowOffset,
                 outstanding, controls, issued, cancelling, sessionSeen,
                 cancelAnswer, handleVars, wireVars>>

AbandonStream ==
  /\ Up /\ abandon = "yes"
  /\ abandon' = "no"
  /\ sink' = IF pending = "active" THEN "none" ELSE sink
  /\ IF CanCancelOnDrop
     THEN cancelling' = "yes" /\ IssueControl("cancel", 0, "none")
     ELSE UNCHANGED <<cancelling, controls, issued, toEngine>>
  /\ UNCHANGED <<events, pending, started, nextSequence, nextRowOffset,
                 outstanding, sessionSeen, toHost, generation, deadline,
                 cancelAnswer, handleVars>>

\* ActorCompletion::finish: the process is killed and every pending sink is
\* failed; try_send drops the failure when the channel is full or closed.
EndGeneration_Fault ==
  /\ generation' = "ended"
  /\ toEngine' = <<>> /\ toHost' = <<>>
  /\ pending' = IF pending = "active" THEN "gone" ELSE pending
  /\ controls' = {} /\ cancelling' = "no"
  /\ UNCHANGED <<events, issued, abandon, sessionSeen, cancelAnswer, deadline,
                 streamVars, handleVars>>

EndGeneration ==
  /\ generation' = "ended"
  /\ toEngine' = <<>> /\ toHost' = <<>>
  /\ pending' = IF pending = "active" THEN "gone" ELSE pending
  /\ events' = IF /\ pending = "active" /\ sink = "some"
                  /\ handle = "open" /\ Len(events) < Capacity
               THEN Append(events, "unavailable") ELSE events
  /\ controls' = {} /\ cancelling' = "no"
  /\ UNCHANGED <<issued, abandon, sessionSeen, cancelAnswer, deadline,
                 streamVars, handleVars>>

\* PendingRequests::expire: a stream or control request past its deadline.
Expire ==
  /\ Up /\ deadline = "passed"
  /\ pending = "active" \/ controls # {}
  /\ EndGeneration

\* RequestRetireGuard: the caller of a delivered control request went away.
Retire ==
  /\ Up
  /\ \E c \in controls : c.caller = "waiting"
  /\ EndGeneration

\* The child exits by itself.
Crash == Up /\ EndGeneration

\* StreamPending::emit on an open channel with room, on a closed one, and on
\* one whose sender was already dropped.
Emit(event) ==
  CASE sink = "none" -> UNCHANGED <<events, sink>>
    [] sink = "some" /\ handle # "open" -> sink' = "none" /\ UNCHANGED events
    [] OTHER -> events' = Append(events, event) /\ UNCHANGED sink

ChannelFull == sink = "some" /\ handle = "open" /\ Len(events) = Capacity

\* What StreamPending::route accepts as the next frame of the stream.
Acceptable(f) ==
  /\ pending = "active"
  /\ f.seq = nextSequence
  /\ CASE f.kind = "started" -> started = "no" /\ f.seq = 0 /\ ~ ChannelFull
       [] f.kind = "batch" -> /\ started = "yes" /\ outstanding > 0
                              /\ f.offset = nextRowOffset /\ ~ ChannelFull
       [] f.kind = "completed" -> /\ started = "yes"
                                  /\ f.rows = nextRowOffset /\ ~ ChannelFull
       [] f.kind = "error" -> TRUE

\* PendingRequests::route_response for a frame of the stream.  A terminal
\* error is emitted with try_send and carries the session state.
RouteFrame ==
  LET f == Head(toHost) IN
  /\ Up /\ toHost # <<>> /\ f.id = Query /\ Acceptable(f)
  /\ nextSequence' = nextSequence + 1
  /\ started' = IF f.kind = "started" THEN "yes" ELSE started
  /\ nextRowOffset' = IF f.kind = "batch" THEN nextRowOffset + f.rows
                                          ELSE nextRowOffset
  /\ outstanding' = IF f.kind = "batch" THEN outstanding - 1 ELSE outstanding
  /\ IF f.kind = "error" /\ ChannelFull
     THEN UNCHANGED <<events, sink>>
     ELSE Emit(IF f.kind = "error" THEN f.code ELSE f.kind)
  /\ pending' = IF f.kind \in {"completed", "error"} THEN "gone" ELSE pending
  /\ sessionSeen' = IF f.kind = "error" THEN f.session ELSE sessionSeen
  /\ toHost' = Tail(toHost)
  /\ UNCHANGED <<controls, issued, cancelling, abandon, toEngine, generation,
                 deadline, cancelAnswer, handleVars>>

\* route_response for the answer of a control request: apply_session_state of
\* the shared cell, whatever was routed since the state was read, and
\* apply_lane_response, where a refused grant gives its credits back.
RouteControl ==
  LET f == Head(toHost) IN
  /\ Up /\ toHost # <<>> /\ f.id # Query
  /\ \E c \in controls :
       /\ c.id = f.id
       /\ controls' = controls \ {c}
       /\ outstanding' = IF f.kind = "refused" /\ pending = "active"
                         THEN outstanding - c.credits ELSE outstanding
       /\ cancelling' = IF c.kind = "cancel" THEN "no" ELSE cancelling
       /\ cancelAnswer' = IF f.kind = "accepted" /\ c.caller = "waiting"
                          THEN "accepted" ELSE cancelAnswer
  /\ sessionSeen' = IF f.kind = "refused" THEN f.session ELSE sessionSeen
  /\ toHost' = Tail(toHost)
  /\ UNCHANGED <<events, pending, sink, started, nextSequence, nextRowOffset,
                 issued, abandon, toEngine, generation, deadline, handleVars>>

\* The frame at the head of the pipe is one that route_response accepts.  On
\* any other frame it returns an error and the actor ends the generation; that
\* branch is not an action here because it is never enabled (NoProtocolError).
Routable ==
  toHost # <<>> =>
    IF Head(toHost).id = Query THEN Acceptable(Head(toHost))
    ELSE \E c \in controls : c.id = Head(toHost).id

HostNext ==
  \/ \E n \in 0..MaxCreditGrant : Start(n)
  \/ \E n \in 1..MaxCreditGrant : Grant(n)
  \/ Cancel \/ NextEvent \/ DropStream
  \/ AbandonStream \/ Expire \/ Retire \/ Crash
  \/ RouteFrame \/ RouteControl
=============================================================================
