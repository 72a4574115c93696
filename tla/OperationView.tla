---------------------------- MODULE OperationView ----------------------------
(***************************************************************************)
(* What observeOperation (frontend/src/backend/operation.ts) promises the   *)
(* caller that gave it onEvent, onSnapshot, onError and onClose, whatever   *)
(* the connection does: progress is shown in order, nothing is shown that   *)
(* the operation has not reached, and an observation that ends without an   *)
(* error and without being stopped has shown how the operation ended.       *)
(***************************************************************************)
EXTENDS Naturals

VARIABLES
  sequence, status,     \* the operation: number of its last event, and state
  shown, shownStatus,   \* what the callbacks were last told of it
  fate                  \* unborn, open, finished, failed (onError) or stopped

view == <<sequence, status, shown, shownStatus, fate>>

Ended == {"Completed", "Failed", "Cancelled"}

Init ==
  /\ sequence = 0 /\ status \in {"unborn", "Running"}
  /\ shown = 0 /\ shownStatus = "Running" /\ fate = "unborn"

\* The operation is created, or emits an event.
Progress ==
  /\ \/ status = "unborn" /\ status' = "Running" /\ UNCHANGED sequence
     \/ /\ status = "Running" /\ status' \in {"Running"} \cup Ended
        /\ sequence' = sequence + 1
  /\ UNCHANGED <<shown, shownStatus, fate>>

\* observeOperation; the caller may name the event it knows already.
Begin ==
  /\ fate = "unborn" /\ fate' = "open"
  /\ status # "unborn"
  /\ shown' \in 0..sequence
  /\ UNCHANGED <<sequence, status, shownStatus>>

\* onEvent or onSnapshot.  The end of the operation ends the observation, and
\* an error may follow what was shown.
Show ==
  /\ fate = "open"
  /\ shown' \in shown..sequence
  /\ shownStatus' = IF shown' = sequence THEN status ELSE "Running"
  /\ fate' \in IF shownStatus' \in Ended THEN {"finished"}
                                         ELSE {"open", "failed"}
  /\ UNCHANGED <<sequence, status>>

\* onError, or the caller's close.
GiveUp ==
  /\ fate = "open"
  /\ fate' \in {"failed", "stopped"}
  /\ UNCHANGED <<sequence, status, shown, shownStatus>>

Next == Progress \/ Begin \/ Show \/ GiveUp

Spec == Init /\ [][Next]_view
=============================================================================
