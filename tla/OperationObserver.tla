-------------------------- MODULE OperationObserver --------------------------
(***************************************************************************)
(* observeOperation (frontend/src/backend/operation.ts) over the desktop    *)
(* transport (subscribeOperation of frontend/src/backend/tauri.ts), joined  *)
(* to the OperationHub it observes.  agent.ts is the same algorithm for     *)
(* agent runs.                                                              *)
(*                                                                          *)
(* Every consumeStream uses a subscription of its own, because one may be   *)
(* accepted after its stream is over.  A step is one callback of the        *)
(* JavaScript thread together with the continuation of the loop's await it  *)
(* resolves: no other callback runs between them.  Operation ids, messages  *)
(* and sequence numbers are well formed, so the protocol errors for         *)
(* malformed ones are not modelled.                                         *)
(*                                                                          *)
(* A definition X_Fault is a faulty variant of the X that follows it.       *)
(***************************************************************************)
EXTENDS OperationHub, Sequences

CONSTANTS
  O,              \* the operation that is observed
  Streams,        \* the subscriptions, in the order they are used
  MaxReconnects   \* maxReconnectAttempts

ASSUME ObserverAssumption ==
  /\ O \in Operations
  /\ MaxReconnects \in Nat
  /\ Streams \in [1..(MaxReconnects + 1) -> Subscribers]

VARIABLES
  run,          \* the loop: unborn, stream, snapshot (its two awaits), returned
  stopped,      \* no or yes
  current,      \* how many streams were opened
  attempts,     \* reconnectAttempts
  given, seen,  \* the loop's cursor: none, or some with its value
  seenStatus,   \* the state the last onEvent or onSnapshot told of
  held,         \* currentSubscription: none or a subscription
  promise,      \* subscribe_operation: none, pending, accepted, refused, done
  active,       \* the transport's flag of each stream: no or yes
  pipe,         \* what the server sent on the stream's channel
  answer,       \* operation_snapshot: none, asked, error or a snapshot
  told          \* how often onError and onClose were called

loopVars == <<run, stopped, current, attempts, given, seen, seenStatus, held>>
obsVars == <<loopVars, promise, active, pipe, answer, told>>
allVars == <<vars, obsVars>>

\* Messages of a stream.  Its end and its error are told apart only by the
\* text of the last failure.
Event(n) == [kind |-> "event", number |-> n]
End == [kind |-> "end", number |-> 0]

NoAnswer == [kind |-> "none", last |-> 0, status |-> "Running"]

ObserverInit ==
  /\ Init /\ target = [s \in Subscribers |-> O]
  /\ run = "unborn" /\ stopped = "no" /\ current = 0 /\ attempts = 0
  /\ given = "none" /\ seen = 0 /\ seenStatus = "Running" /\ held = "none"
  /\ promise = [s \in Subscribers |-> "none"]
  /\ active = [s \in Subscribers |-> "no"]
  /\ pipe = [s \in Subscribers |-> <<>>]
  /\ answer = NoAnswer
  /\ told = [error |-> 0, close |-> 0]

-----------------------------------------------------------------------------
(* The transport. *)

\* unsubscribe_operation, sent once the server named the subscription: the
\* server drops it and what it still had to send.
Released(some) ==
  /\ phase' = [s \in Subscribers |-> IF s \in some THEN "idle" ELSE phase[s]]
  /\ UNCHANGED <<hubVars, target, after, replayFrom, replayTo, live, cursor>>

\* close of a subscription handle.  Before the server answered there is
\* nothing to release yet; the answer finds the stream inactive.
Closed(s) ==
  /\ active' = [active EXCEPT ![s] = "no"]
  /\ Released({s} \cap {t \in Subscribers : promise[t] = "done"})

\* subscribeOperation, called by consumeStream with the loop's cursor.
OpenStream ==
  /\ current' = current + 1
  /\ promise' = [promise EXCEPT ![Streams[current']] = "pending"]
  /\ active' = [active EXCEPT ![Streams[current']] = "yes"]

\* The server handles subscribe_operation.
ServerAccepts(s) ==
  /\ promise[s] = "pending"
  /\ promise' = [promise EXCEPT ![s] = "accepted"]
  /\ Subscribe(s, O, given, seen)
  /\ UNCHANGED <<loopVars, active, pipe, answer, told>>

ServerRefuses(s) ==
  /\ promise[s] = "pending"
  /\ \/ O \notin operations
     \/ given = "some" /\ ~ ValidCursor(O, seen)
  /\ promise' = [promise EXCEPT ![s] = "refused"]
  /\ UNCHANGED <<vars, loopVars, active, pipe, answer, told>>

\* The task of the subscription awaits next_event and sends what it gets.
ServerSends(s) ==
  /\ NextEvent(s)
  /\ pipe' = [pipe EXCEPT ![s] =
       CASE cursor'[s] # cursor[s] -> Append(@, Event(cursor'[s]))
         [] phase'[s] \in {"ended", "failed"} -> Append(@, End)
         [] OTHER -> @]
  /\ UNCHANGED <<loopVars, promise, active, answer, told>>

\* The connection breaks: what was under way on the stream is lost.
Disconnect(s) ==
  /\ phase[s] \in Open /\ active[s] = "yes"
  /\ pipe' = [pipe EXCEPT ![s] = <<End>>]
  /\ Released({s})
  /\ UNCHANGED <<loopVars, promise, active, answer, told>>

-----------------------------------------------------------------------------
(* The loop. *)

\* finally: the subscription is released and the caller told, once.
Return ==
  /\ run' = "returned" /\ held' = "none"
  /\ told' = [told EXCEPT !.close = IF stopped = "yes" THEN @ ELSE @ + 1]

\* fail: onError, then close; the finally block tells nobody again.
Fail ==
  /\ run' = "returned" /\ held' = "none" /\ stopped' = "yes"
  /\ told' = [error |-> told.error + 1, close |-> told.close + 1]

\* What follows `await consumeStream' when the stream ended short of the
\* terminal event: the handle is released and the snapshot is asked for.
AskSnapshot ==
  /\ run' = "snapshot" /\ held' = "none"
  /\ answer' = [NoAnswer EXCEPT !.kind = "asked"]

\* observeOperation.
Observe(option, sequenceAfter) ==
  /\ run = "unborn" /\ status[O] # "unborn"
  /\ option = "none" => sequenceAfter = 0
  /\ sequenceAfter <= sequence[O]
  /\ run' = "stream" /\ given' = option /\ seen' = sequenceAfter
  /\ OpenStream
  /\ UNCHANGED <<vars, stopped, attempts, seenStatus, held, pipe, answer,
                 told>>

\* The loop awaits the outcome of stream s: it is not settled and not stopped.
Listening(s) == run = "stream" /\ s = Streams[current]

\* The promise of subscribeOperation is fulfilled.  A handle that comes after
\* its stream was settled, or after close, is closed at once.
Accepted_Fault(s) ==
  /\ promise[s] = "accepted"
  /\ promise' = [promise EXCEPT ![s] = "done"]
  /\ held' = s
  /\ UNCHANGED <<vars, run, stopped, current, attempts, given, seen,
                 seenStatus, active, pipe, answer, told>>

Accepted(s) ==
  /\ promise[s] = "accepted"
  /\ promise' = [promise EXCEPT ![s] = "done"]
  /\ IF Listening(s) /\ active[s] = "yes"
     THEN held' = s /\ UNCHANGED <<vars, active>>
     ELSE /\ active' = [active EXCEPT ![s] = "no"]
          /\ Released({s})
          /\ UNCHANGED held
  /\ UNCHANGED <<run, stopped, current, attempts, given, seen, seenStatus,
                 pipe, answer, told>>

Refused(s) ==
  /\ promise[s] = "refused"
  /\ promise' = [promise EXCEPT ![s] = "done"]
  /\ active' = [active EXCEPT ![s] = "no"]
  /\ IF Listening(s) THEN AskSnapshot ELSE UNCHANGED <<run, held, answer>>
  /\ UNCHANGED <<vars, stopped, current, attempts, given, seen, seenStatus,
                 pipe, told>>

\* Event n is the terminal one.
IsTerminalEvent(n) == n = sequence[O] /\ status[O] \in Terminal

Message(s, kind) ==
  /\ active[s] = "yes" /\ pipe[s] # <<>> /\ Head(pipe[s]).kind = kind
  /\ pipe' = [pipe EXCEPT ![s] = Tail(@)]

\* onEvent shows event n.  The terminal one settles the stream: the loop
\* releases the handle, if it has it already, and returns.
ShowEvent(s, n) ==
  /\ seen' = n /\ given' = "some"
  /\ IF IsTerminalEvent(n)
     THEN /\ seenStatus' = status[O] /\ Return
          /\ IF held = s THEN Closed(s) ELSE UNCHANGED <<vars, active>>
     ELSE /\ seenStatus' = "Running"
          /\ UNCHANGED <<vars, run, held, told, active>>

\* An event at or before the cursor is dropped, and so is any event of a
\* settled stream.
DeliverEvent(s) ==
  LET n == Head(pipe[s]).number IN
  /\ Message(s, "event")
  /\ IF Listening(s) /\ (given = "none" \/ n > seen)
     THEN ShowEvent(s, n)
     ELSE UNCHANGED <<vars, run, held, told, active, seen, given, seenStatus>>
  /\ UNCHANGED <<stopped, current, attempts, promise, answer>>

\* The stream ends or reports an error; the transport closes it.
DeliverEnd(s) ==
  /\ Message(s, "end")
  /\ Closed(s)
  /\ IF Listening(s) THEN AskSnapshot ELSE UNCHANGED <<run, held, answer>>
  /\ UNCHANGED <<stopped, current, attempts, given, seen, seenStatus, promise,
                 told>>

\* The server reads the operation; the answer is under way, or it is lost.
ServeSnapshot ==
  /\ answer.kind = "asked"
  /\ \/ /\ O \in operations
        /\ answer' = [kind |-> "snapshot", last |-> sequence[O],
                      status |-> status[O]]
     \/ answer' = [NoAnswer EXCEPT !.kind = "error"]
  /\ UNCHANGED <<vars, loopVars, promise, active, pipe, told>>

\* operationSnapshot rejects, or its sequence is behind the cursor.
StaleSnapshot == answer.kind = "snapshot" /\ given = "some" /\ answer.last < seen

SnapshotFails ==
  /\ run = "snapshot" /\ answer.kind \in {"error", "snapshot"}
  /\ answer.kind = "error" \/ StaleSnapshot
  /\ answer' = NoAnswer
  /\ Fail
  /\ UNCHANGED <<vars, current, attempts, given, seen, seenStatus, promise,
                 active, pipe>>

\* onSnapshot; then the loop returns, gives up, or opens another stream.
SnapshotArrives_Fault ==
  /\ run = "snapshot" /\ answer.kind = "snapshot"
  /\ answer' = NoAnswer
  /\ UNCHANGED <<seen, given>>
  /\ seenStatus' = answer.status
  /\ CASE answer.status # "Running" ->
            Return /\ UNCHANGED <<stopped, attempts, current, promise, active>>
       [] answer.status = "Running" /\ attempts >= MaxReconnects ->
            Fail /\ UNCHANGED <<attempts, current, promise, active>>
       [] OTHER ->
            /\ attempts' = attempts + 1 /\ run' = "stream"
            /\ OpenStream
            /\ UNCHANGED <<stopped, held, told>>
  /\ UNCHANGED <<vars, pipe>>

SnapshotArrives ==
  /\ run = "snapshot" /\ answer.kind = "snapshot" /\ ~ StaleSnapshot
  /\ answer' = NoAnswer
  /\ seen' = answer.last /\ given' = "some" /\ seenStatus' = answer.status
  /\ CASE answer.status # "Running" ->
            Return /\ UNCHANGED <<stopped, attempts, current, promise, active>>
       [] answer.status = "Running" /\ attempts >= MaxReconnects ->
            Fail /\ UNCHANGED <<attempts, current, promise, active>>
       [] OTHER ->
            /\ attempts' = attempts + 1 /\ run' = "stream"
            /\ OpenStream
            /\ UNCHANGED <<stopped, held, told>>
  /\ UNCHANGED <<vars, pipe>>

\* close, by the caller or its signal: the abort closes the stream, and the
\* loop returns from whichever await it is in.
Stop ==
  /\ run \in {"stream", "snapshot"}
  /\ stopped' = "yes" /\ run' = "returned" /\ held' = "none"
  /\ told' = [told EXCEPT !.close = @ + 1]
  /\ Closed(Streams[current])
  /\ answer' = NoAnswer
  /\ UNCHANGED <<current, attempts, given, seen, seenStatus, promise, pipe>>

-----------------------------------------------------------------------------
LoopStep ==
  \/ \E s \in Subscribers :
       Accepted(s) \/ Refused(s) \/ DeliverEvent(s) \/ DeliverEnd(s)
  \/ SnapshotFails \/ SnapshotArrives

ServerStep ==
  \/ \E s \in Subscribers :
       ServerAccepts(s) \/ ServerRefuses(s) \/ ServerSends(s)
  \/ ServeSnapshot

\* The other operations matter by the room they take in the table.
HubStep ==
  /\ \/ \E o \in Operations : Create(o)
     \/ \E st \in {"Running"} \cup Terminal : Emit(O, st)
  /\ UNCHANGED obsVars

ObserverNext ==
  \/ HubStep \/ ServerStep \/ LoopStep
  \/ \E option \in {"none", "some"}, n \in 0..MaxEvents : Observe(option, n)
  \/ \E s \in Subscribers : Disconnect(s)
  \/ Stop

ObserverSpec == ObserverInit /\ [][ObserverNext]_allVars

\* The JavaScript thread and the server's tasks run on; the operation, the
\* connection and the caller promise nothing.
ObserverFairSpec ==
  /\ ObserverSpec
  /\ WF_allVars(LoopStep)
  /\ WF_allVars(ServerStep)

-----------------------------------------------------------------------------
(* Properties. *)

Fate ==
  CASE told.error > 0 -> "failed"
    [] told.error = 0 /\ stopped = "yes" -> "stopped"
    [] run = "returned" /\ stopped = "no" -> "finished"
    [] run = "unborn" -> "unborn"
    [] OTHER -> "open"

View == INSTANCE OperationView
          WITH sequence <- sequence[O], status <- status[O],
               shown <- seen, shownStatus <- seenStatus, fate <- Fate

\* The observer over the hub and the transport keeps what OperationView
\* promises: lost connections, late acceptances, refused cursors, replays and
\* snapshots never show progress twice, out of order or ahead of the
\* operation, and it finishes silently only with the operation's own end.
ViewRefined == View!Spec

\* A subscription does not outlive the observation: whatever order the
\* acceptance, the end of the stream and close come in, the server is told.
NothingStaysSubscribed ==
  (run = "returned") ~> (\A s \in Subscribers : phase[s] \notin Open)

\* The observation of a finished operation ends, however often the stream
\* breaks: the reconnects are bounded and the last snapshot is terminal.
ObservationEnds ==
  (run \in {"stream", "snapshot"} /\ status[O] \in Terminal)
     ~> run = "returned"
=============================================================================
