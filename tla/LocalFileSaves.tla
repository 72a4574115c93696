--------------------------- MODULE LocalFileSaves ---------------------------
(***************************************************************************)
(* The save queue of one local file in the Community client                *)
(* (utils/localFileSaveCoordinator.ts).  A file has at most one write in   *)
(* flight and at most one batch of later requests; a later request         *)
(* replaces the content of the batch and joins its callers, and a batch    *)
(* that ends while another is pending hands its callers on to it.  The     *)
(* requests of the callers are numbered; the numbers are used to name the  *)
(* callers and to say which content is the newest.                         *)
(***************************************************************************)
EXTENDS Integers

CONSTANTS Contents,     \* what a file may hold
          InitialContent

ASSUME ContentsAssumption == InitialContent \in Contents

VARIABLES
  asked,      \* number of save() calls so far
  inFlight,   \* the batch whose mutation is awaited
  pending,    \* FileSaveState.pending
  disk,       \* what the file holds, and which request put it there
  saved,      \* the calls whose promise was resolved
  failed      \* the calls whose promise was rejected

fileVars == <<asked, inFlight, pending, disk, saved, failed>>

\* A batch without callers stands for "no batch".
NoBatch == [text |-> InitialContent, request |-> 0, waiters |-> {}]

Draining == inFlight.waiters # {}

FileInit ==
  /\ asked = 0
  /\ inFlight = NoBatch
  /\ pending = NoBatch
  /\ disk = [text |-> InitialContent, request |-> 0]
  /\ saved = {}
  /\ failed = {}

\* LocalFileSaveCoordinator.save: the first request starts the drain, which
\* takes it at once; a later one replaces the pending content.
RequestSave(t) ==
  LET n == asked + 1 IN
  /\ asked' = n
  /\ IF Draining
     THEN /\ pending' = [text |-> t, request |-> n, waiters |-> pending.waiters \union {n}]
          /\ UNCHANGED inFlight
     ELSE /\ inFlight' = [text |-> t, request |-> n, waiters |-> {n}]
          /\ UNCHANGED pending
  /\ UNCHANGED <<disk, saved, failed>>

\* A batch that ends while another one is pending does not answer: its
\* callers wait for the pending one, which goes into flight.
HandOn_Fault ==
  /\ inFlight' = pending
  /\ pending' = NoBatch
  /\ UNCHANGED <<saved, failed>>

HandOn ==
  /\ inFlight' = [pending EXCEPT !.waiters = @ \union inFlight.waiters]
  /\ pending' = NoBatch
  /\ UNCHANGED <<saved, failed>>

\* Without a pending batch the callers are answered and the queue is idle.
Answer(ok) ==
  /\ inFlight' = NoBatch
  /\ saved' = IF ok THEN saved \union inFlight.waiters ELSE saved
  /\ failed' = IF ok THEN failed ELSE failed \union inFlight.waiters
  /\ UNCHANGED pending

\* Which of the two follows the end of a write.
AfterWrite_Fault(ok) == Answer(ok)

AfterWrite(ok) == IF pending.waiters # {} THEN HandOn ELSE Answer(ok)

\* The awaited mutation succeeds: the file holds the content.
Written ==
  /\ Draining
  /\ disk' = [text |-> inFlight.text, request |-> inFlight.request]
  /\ AfterWrite(TRUE)
  /\ UNCHANGED asked

\* The mutation throws.  The write may have happened all the same.
Refused ==
  /\ Draining
  /\ disk' \in {disk, [text |-> inFlight.text, request |-> inFlight.request]}
  /\ AfterWrite(FALSE)
  /\ UNCHANGED asked

FileNext == (\E t \in Contents : RequestSave(t)) \/ Written \/ Refused

FileSpec == FileInit /\ [][FileNext]_fileVars
-----------------------------------------------------------------------------
\* No caller of save() is forgotten or answered twice: every call is either
\* answered or waits in exactly one of the two batches, also when a batch
\* fails while another one is pending.
NoWaiterLost ==
  /\ 1 .. asked = saved \union failed \union inFlight.waiters \union pending.waiters
  /\ saved \intersect failed = {}
  /\ inFlight.waiters \intersect pending.waiters = {}
  /\ (saved \union failed) \intersect (inFlight.waiters \union pending.waiters) = {}

\* A save() is resolved only in a step after which the file holds the newest
\* content that anyone asked to write; the editor takes that content, not the
\* one it asked for, as its new baseline.
SavedIsNewest == [][saved' # saved => disk'.request = asked']_fileVars
=============================================================================
