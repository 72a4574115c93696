---------------------------- MODULE OperationHub ----------------------------
(***************************************************************************)
(* OperationHub (chat2db-core/src/operation.rs): the table of query         *)
(* operations, their event journals and the subscriptions that replay a     *)
(* journal and then follow the live broadcast.                              *)
(*                                                                          *)
(* Every emit appends the event numbered sequence + 1 to the journal and to *)
(* the broadcast channel, and both keep the newest ReplayCapacity of them   *)
(* (the default 256 is a power of two, so the channel is not rounded up).   *)
(* Hence the journal is the interval front..sequence, a replay is an        *)
(* interval too, and a receiver is the number of the event it reads next.   *)
(*                                                                          *)
(* The table lock and an operation's state lock are each taken once per     *)
(* call, except in next_event, whose steps between two awaits are separate  *)
(* actions here.                                                            *)
(*                                                                          *)
(* A definition X_Fault or X_Late is a faulty variant of the X that follows *)
(* it.                                                                      *)
(***************************************************************************)
EXTENDS Integers, FiniteSets

CONSTANTS
  Operations, Subscribers,
  ReplayCapacity,      \* replay_capacity
  OperationCapacity,   \* operation_capacity
  MaxEvents            \* bound: events of an operation

ASSUME HubAssumption ==
  /\ ReplayCapacity \in Nat \ {0}
  /\ OperationCapacity \in Nat \ {0}
  /\ MaxEvents \in Nat

VARIABLES
  operations,          \* the keys of the table
  status,              \* OperationState.status; unborn before create
  sequence, front,     \* OperationState.sequence, journal.front()
  terminalOrder, nextTerminalOrder,
  cancel,              \* the cancellation watch: Waiting or Requested
  phase,               \* where a subscription is in next_event
  target,              \* OperationSubscription.entry
  after,               \* whether subscribe was given a cursor: none or some
  replayFrom, replayTo,   \* OperationSubscription.replay, empty when from > to
  live,                \* the event the broadcast receiver reads next
  cursor

hubVars == <<operations, status, sequence, front, terminalOrder,
             nextTerminalOrder, cancel>>
subVars == <<phase, target, after, replayFrom, replayTo, live, cursor>>
vars == <<hubVars, subVars>>

Terminal == {"Completed", "Failed", "Cancelled"}
Statuses == {"unborn", "Running"} \cup Terminal

\* A subscription calls next_event again and again: at the head of its loop,
\* waiting in recv, told that it lagged, or done.
Open == {"loop", "recv", "lagged"}
Phases == {"idle", "ended", "failed"} \cup Open

Init ==
  /\ operations = {}
  /\ status = [o \in Operations |-> "unborn"]
  /\ sequence = [o \in Operations |-> 0]
  /\ front = [o \in Operations |-> 1]
  /\ terminalOrder = [o \in Operations |-> 0]
  /\ nextTerminalOrder = 1
  /\ cancel = [o \in Operations |-> "Waiting"]
  /\ phase = [s \in Subscribers |-> "idle"]
  /\ target \in [Subscribers -> Operations]
  /\ after = [s \in Subscribers |-> "none"]
  /\ replayFrom = [s \in Subscribers |-> 1]
  /\ replayTo = [s \in Subscribers |-> 0]
  /\ live = [s \in Subscribers |-> 1]
  /\ cursor = [s \in Subscribers |-> 0]

-----------------------------------------------------------------------------
(* The table. *)

\* The terminal entry with the smallest terminal_order.
OldestTerminal(o) ==
  /\ o \in operations /\ terminalOrder[o] # 0
  /\ \A p \in operations :
       terminalOrder[p] # 0 => terminalOrder[o] <= terminalOrder[p]

Create(o) ==
  /\ status[o] = "unborn"
  /\ \/ /\ Cardinality(operations) < OperationCapacity
        /\ operations' = operations \cup {o}
     \/ /\ Cardinality(operations) >= OperationCapacity
        /\ \E old \in operations :
             /\ OldestTerminal(old)
             /\ operations' = (operations \ {old}) \cup {o}
  /\ status' = [status EXCEPT ![o] = "Running"]
  /\ UNCHANGED <<sequence, front, terminalOrder, nextTerminalOrder, cancel,
                 subVars>>

\* The journal's first event once another one was appended.
FrontAfter(o) ==
  IF sequence[o] - front[o] + 1 = ReplayCapacity THEN front[o] + 1
                                                ELSE front[o]

\* started, progress: an event that leaves the operation running.
\* completed, failed, cancelled: the event that ends it.
Emit(o, newStatus) ==
  /\ o \in operations /\ status[o] = "Running"
  /\ sequence[o] < MaxEvents
  /\ status' = [status EXCEPT ![o] = newStatus]
  /\ sequence' = [sequence EXCEPT ![o] = @ + 1]
  /\ front' = [front EXCEPT ![o] = FrontAfter(o)]
  /\ IF newStatus \in Terminal
     THEN /\ terminalOrder' = [terminalOrder EXCEPT ![o] = nextTerminalOrder]
          /\ nextTerminalOrder' = nextTerminalOrder + 1
     ELSE UNCHANGED <<terminalOrder, nextTerminalOrder>>
  /\ UNCHANGED <<operations, cancel, subVars>>

\* cancel and cancel_all.
Cancel(some) ==
  /\ cancel' = [o \in Operations |->
       IF o \in some \cap operations /\ status[o] = "Running"
       THEN "Requested" ELSE cancel[o]]
  /\ UNCHANGED <<operations, status, sequence, front, terminalOrder,
                 nextTerminalOrder, subVars>>

-----------------------------------------------------------------------------
(* Subscriptions. *)

\* validate_replay_cursor for a cursor that was given.
ValidCursor(o, requested) ==
  /\ requested <= sequence[o]
  /\ requested + 1 >= IF sequence[o] = 0 THEN sequence[o] ELSE front[o]

Larger(m, n) == IF m > n THEN m ELSE n

\* The journal's events beyond a cursor become the replay of s.
Replay(s, o, from) ==
  /\ replayFrom' = [replayFrom EXCEPT ![s] = Larger(from + 1, front[o])]
  /\ replayTo' = [replayTo EXCEPT ![s] = sequence[o]]

\* subscribe: replay and live position are taken under one state lock.
Subscribe(s, o, given, requested) ==
  /\ phase[s] = "idle"
  /\ o \in operations
  /\ \/ given = "some" /\ ValidCursor(o, requested)
     \/ given = "none" /\ requested = 0
  /\ phase' = [phase EXCEPT ![s] = "loop"]
  /\ target' = [target EXCEPT ![s] = o]
  /\ after' = [after EXCEPT ![s] = given]
  /\ Replay(s, o, requested)
  /\ live' = [live EXCEPT ![s] = sequence[o] + 1]
  /\ cursor' = [cursor EXCEPT ![s] = requested]
  /\ UNCHANGED hubVars

\* next_event pops a replayed event.
PopReplay(s) ==
  /\ phase[s] = "loop" /\ replayFrom[s] <= replayTo[s]
  /\ cursor' = [cursor EXCEPT ![s] = replayFrom[s]]
  /\ replayFrom' = [replayFrom EXCEPT ![s] = @ + 1]
  /\ UNCHANGED <<hubVars, phase, target, after, replayTo, live>>

\* The end of the stream: the operation is over and all of it was delivered.
AllDelivered_Late(s) ==
  status[target[s]] \in Terminal /\ cursor[s] > sequence[target[s]]

AllDelivered(s) ==
  status[target[s]] \in Terminal /\ cursor[s] >= sequence[target[s]]

\* With the replay used up, next_event looks at the state, then waits.
CheckState(s) ==
  /\ phase[s] = "loop" /\ replayFrom[s] > replayTo[s]
  /\ phase' = [phase EXCEPT ![s] = IF AllDelivered(s) THEN "ended" ELSE "recv"]
  /\ UNCHANGED <<hubVars, target, after, replayFrom, replayTo, live, cursor>>

\* The oldest event the broadcast channel still holds.
OldestLive(o) == Larger(1, sequence[o] - ReplayCapacity + 1)

\* recv returns an event: one already replayed is skipped.
Receive(s) ==
  /\ phase[s] = "recv"
  /\ live[s] <= sequence[target[s]]
  /\ live[s] >= OldestLive(target[s])
  /\ live' = [live EXCEPT ![s] = @ + 1]
  /\ cursor' = [cursor EXCEPT ![s] = Larger(@, live[s])]
  /\ phase' = [phase EXCEPT ![s] = "loop"]
  /\ UNCHANGED <<hubVars, target, after, replayFrom, replayTo>>

\* recv returns Lagged and moves the receiver to the oldest event.
ReceiveLagged(s) ==
  /\ phase[s] = "recv"
  /\ live[s] < OldestLive(target[s])
  /\ live' = [live EXCEPT ![s] = OldestLive(target[s])]
  /\ phase' = [phase EXCEPT ![s] = "lagged"]
  /\ UNCHANGED <<hubVars, target, after, replayFrom, replayTo, cursor>>

\* A lagged subscription goes back to the journal, if that still reaches far
\* enough; otherwise next_event returns the replay window error.
Recover_Fault(s) ==
  /\ phase[s] = "lagged"
  /\ phase' = [phase EXCEPT ![s] = "loop"]
  /\ Replay(s, target[s], cursor[s])
  /\ UNCHANGED <<hubVars, target, after, live, cursor>>

Recover(s) ==
  /\ phase[s] = "lagged"
  /\ IF ValidCursor(target[s], cursor[s])
     THEN /\ phase' = [phase EXCEPT ![s] = "loop"]
          /\ Replay(s, target[s], cursor[s])
     ELSE /\ phase' = [phase EXCEPT ![s] = "failed"]
          /\ UNCHANGED <<replayFrom, replayTo>>
  /\ UNCHANGED <<hubVars, target, after, live, cursor>>

NextEvent(s) ==
  \/ PopReplay(s) \/ CheckState(s) \/ Receive(s) \/ ReceiveLagged(s)
  \/ Recover(s)

\* The observer goes away; its place is free for another one.
Unsubscribe(s) ==
  /\ phase[s] # "idle"
  /\ phase' = [phase EXCEPT ![s] = "idle"]
  /\ UNCHANGED <<hubVars, target, after, replayFrom, replayTo, live, cursor>>

-----------------------------------------------------------------------------
Next ==
  \/ \E o \in Operations : Create(o)
  \/ \E o \in Operations, st \in {"Running"} \cup Terminal : Emit(o, st)
  \/ \E some \in {{o} : o \in Operations} \cup {Operations} : Cancel(some)
  \/ \E s \in Subscribers, o \in Operations, requested \in 0..MaxEvents,
        given \in {"none", "some"} : Subscribe(s, o, given, requested)
  \/ \E s \in Subscribers : NextEvent(s)
  \/ \E s \in Subscribers : Unsubscribe(s)

Spec == Init /\ [][Next]_vars

\* A subscription is driven by a task that awaits next_event in a loop.
FairSpec == Spec /\ \A s \in Subscribers : WF_vars(NextEvent(s))

-----------------------------------------------------------------------------
(* Properties. *)

\* The domains of the variables; a journal is never empty once an event was
\* emitted, and never longer than replay_capacity.
TypeOK ==
  /\ operations \subseteq Operations
  /\ status \in [Operations -> Statuses]
  /\ sequence \in [Operations -> Nat] /\ front \in [Operations -> Nat \ {0}]
  /\ \A o \in Operations :
       /\ front[o] <= Larger(1, sequence[o])
       /\ sequence[o] - front[o] < ReplayCapacity
  /\ terminalOrder \in [Operations -> Nat] /\ nextTerminalOrder \in Nat \ {0}
  /\ cancel \in [Operations -> {"Waiting", "Requested"}]
  /\ phase \in [Subscribers -> Phases]
  /\ target \in [Subscribers -> Operations]
  /\ after \in [Subscribers -> {"none", "some"}]
  /\ replayFrom \in [Subscribers -> Nat \ {0}]
  /\ replayTo \in [Subscribers -> Nat]
  /\ live \in [Subscribers -> Nat \ {0}] /\ cursor \in [Subscribers -> Nat]

\* The event delivered next is the successor of the one delivered last, or of
\* the cursor given to subscribe: switching from the replay to the broadcast
\* and falling back to the journal after a lag neither skip nor repeat an
\* event.  Only the first event of a subscription without a cursor may be
\* later, where the journal begins.
GapFree ==
  [][\A s \in Subscribers :
       phase[s] \in Open /\ cursor'[s] # cursor[s] =>
         \/ cursor'[s] = cursor[s] + 1
         \/ after[s] = "none" /\ cursor[s] = 0]_vars

\* next_event returns None only after the terminal event was delivered.
EndMeansDelivered ==
  \A s \in Subscribers :
    phase[s] = "ended" =>
      /\ status[target[s]] \in Terminal
      /\ cursor[s] = sequence[target[s]]

\* Making room for a new operation never drops a running one, whose task and
\* observers would lose their entry, and the table stays within its capacity.
RunningKept ==
  /\ \A o \in Operations : status[o] = "Running" => o \in operations
  /\ Cardinality(operations) <= OperationCapacity
=============================================================================
