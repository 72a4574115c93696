-------------------------- MODULE EditorTabProofs ---------------------------
(***************************************************************************)
(* The save queue of a file, for any set of contents and any number of     *)
(* save() calls: no caller is lost, and a call is resolved only when the   *)
(* file holds the newest content asked for.  Seen from its file, the       *)
(* editor tab is a user of that queue and nothing else, so what is proved  *)
(* of the queue holds of the tab.  Then the tab itself: its console's      *)
(* automatic saves never publish a removed console, and leaving the tab    *)
(* keeps the text.                                                         *)
(***************************************************************************)
EXTENDS EditorTab, TLAPS

Batches == [text : Contents, request : Nat, waiters : SUBSET Nat]

FileTypeOK ==
  /\ asked \in Nat
  /\ inFlight \in Batches
  /\ pending \in Batches
  /\ disk \in [text : Contents, request : Nat]
  /\ saved \in SUBSET Nat
  /\ failed \in SUBSET Nat

\* Only a queue that drains has a pending batch, and the last batch of the
\* queue carries the newest content.
NewestIsLast ==
  /\ pending.waiters # {} => inFlight.waiters # {} /\ pending.request = asked
  /\ pending.waiters = {} /\ inFlight.waiters # {} => inFlight.request = asked

FileInv == FileTypeOK /\ NewestIsLast /\ NoWaiterLost

\* The initial state: no call, an idle queue.
LEMMA FileInitInv == FileInit => FileInv
  <1> SUFFICES ASSUME FileInit PROVE FileInv
    OBVIOUS
  <1> USE ContentsAssumption
  <1>1. FileTypeOK
    BY DEF FileInit, FileTypeOK, Batches, NoBatch
  <1>2. NewestIsLast
    BY DEF FileInit, NewestIsLast, NoBatch
  <1>3. 1 .. asked = {}
    BY DEF FileInit
  <1>4. NoWaiterLost
    BY <1>3 DEF FileInit, NoWaiterLost, NoBatch
  <1> QED
    BY <1>1, <1>2, <1>4 DEF FileInv

\* A new call joins the last batch and makes it the newest.
LEMMA RequestSaveInv ==
  ASSUME FileInv, NEW t \in Contents, RequestSave(t)
  PROVE  FileInv'
  <1> DEFINE n == asked + 1
  <1>1. n \in Nat /\ asked' = n /\ n \notin 1 .. asked /\ 1 .. n = (1 .. asked) \union {n}
    BY DEF FileInv, FileTypeOK, RequestSave
  <1>2. CASE Draining
    <2>1. /\ pending' = [text |-> t, request |-> n, waiters |-> pending.waiters \union {n}]
          /\ inFlight' = inFlight /\ disk' = disk /\ saved' = saved /\ failed' = failed
      BY <1>2 DEF RequestSave
    <2>2. FileTypeOK'
      BY <1>1, <2>1 DEF FileInv, FileTypeOK, Batches
    <2>3. NewestIsLast'
      BY <1>1, <1>2, <2>1 DEF NewestIsLast, Draining
    <2>4. NoWaiterLost'
      BY <1>1, <2>1 DEF FileInv, NoWaiterLost
    <2> QED
      BY <2>2, <2>3, <2>4 DEF FileInv
  <1>3. CASE ~Draining
    <2>1. /\ inFlight' = [text |-> t, request |-> n, waiters |-> {n}]
          /\ pending' = pending /\ disk' = disk /\ saved' = saved /\ failed' = failed
      BY <1>3 DEF RequestSave
    <2>2. pending.waiters = {} /\ inFlight.waiters = {}
      BY <1>3 DEF FileInv, NewestIsLast, Draining
    <2>3. FileTypeOK'
      BY <1>1, <2>1 DEF FileInv, FileTypeOK, Batches
    <2>4. NewestIsLast'
      BY <1>1, <2>1, <2>2 DEF NewestIsLast
    <2>5. NoWaiterLost'
      BY <1>1, <2>1, <2>2 DEF FileInv, NoWaiterLost
    <2> QED
      BY <2>3, <2>4, <2>5 DEF FileInv
  <1> QED
    BY <1>2, <1>3

\* The end of a write, whatever its outcome, keeps every caller: they are
\* answered together or handed on together.
LEMMA AfterWriteInv ==
  ASSUME FileInv, Draining, NEW ok \in BOOLEAN, AfterWrite(ok),
         asked' = asked, disk' \in [text : Contents, request : Nat]
  PROVE  FileInv'
  <1>1. CASE pending.waiters # {}
    <2>1. /\ inFlight' = [pending EXCEPT !.waiters = @ \union inFlight.waiters]
          /\ pending' = NoBatch /\ saved' = saved /\ failed' = failed
      BY <1>1 DEF AfterWrite, HandOn
    <2>2. /\ inFlight'.waiters = pending.waiters \union inFlight.waiters
          /\ inFlight'.request = pending.request /\ pending'.waiters = {}
      BY <2>1 DEF FileInv, FileTypeOK, Batches, NoBatch
    <2>3. FileTypeOK'
      BY <2>1, ContentsAssumption DEF FileInv, FileTypeOK, Batches, NoBatch
    <2>4. NewestIsLast'
      BY <1>1, <2>2 DEF FileInv, NewestIsLast
    <2>5. NoWaiterLost'
      BY <2>1, <2>2 DEF FileInv, NoWaiterLost
    <2> QED
      BY <2>3, <2>4, <2>5 DEF FileInv
  <1>2. CASE pending.waiters = {}
    <2>1. /\ inFlight' = NoBatch /\ pending' = pending
          /\ saved' \union failed' = saved \union failed \union inFlight.waiters
          /\ \/ saved' = saved \union inFlight.waiters /\ failed' = failed
             \/ failed' = failed \union inFlight.waiters /\ saved' = saved
      BY <1>2 DEF AfterWrite, Answer
    <2>2. inFlight'.waiters = {} /\ pending'.waiters = {}
      BY <1>2, <2>1 DEF NoBatch
    <2>3. FileTypeOK'
      BY <2>1, ContentsAssumption, Zenon DEF FileInv, FileTypeOK, Batches, NoBatch
    <2>4. NewestIsLast'
      BY <2>2 DEF NewestIsLast
    <2>5. NoWaiterLost'
      BY <1>2, <2>1, <2>2 DEF FileInv, NoWaiterLost
    <2> QED
      BY <2>3, <2>4, <2>5 DEF FileInv
  <1> QED
    BY <1>1, <1>2

\* One step of the queue.
LEMMA FileNextInv == FileInv /\ [FileNext]_fileVars => FileInv'
  <1> SUFFICES ASSUME FileInv, [FileNext]_fileVars PROVE FileInv'
    OBVIOUS
  <1>1. ASSUME NEW t \in Contents, RequestSave(t) PROVE FileInv'
    BY <1>1, RequestSaveInv
  <1>2. CASE Written
    <2>1. disk' \in [text : Contents, request : Nat]
      BY <1>2 DEF Written, FileInv, FileTypeOK, Batches
    <2> QED
      BY <1>2, <2>1, AfterWriteInv, Zenon DEF Written
  <1>3. CASE Refused
    <2>1. disk' \in [text : Contents, request : Nat]
      BY <1>3 DEF Refused, FileInv, FileTypeOK, Batches
    <2> QED
      BY <1>3, <2>1, AfterWriteInv, Zenon DEF Refused
  <1>4. CASE UNCHANGED fileVars
    BY <1>4 DEF fileVars, FileInv, FileTypeOK, NewestIsLast, NoWaiterLost
  <1> QED
    BY <1>1, <1>2, <1>3, <1>4 DEF FileNext

\* Every save() call is answered or waits in exactly one batch.
THEOREM CallersKept == FileSpec => []NoWaiterLost
  <1>1. FileInv => NoWaiterLost
    BY DEF FileInv
  <1> QED
    BY <1>1, FileInitInv, FileNextInv, PTL DEF FileSpec

\* A save() is resolved only when the file holds the newest content.
THEOREM ResolvedIsNewest == FileSpec => SavedIsNewest
  <1>1. ASSUME FileInv, [FileNext]_fileVars PROVE [saved' # saved => disk'.request = asked']_fileVars
    <2> SUFFICES ASSUME saved' # saved PROVE disk'.request = asked'
      OBVIOUS
    <2>1. ASSUME NEW t \in Contents, RequestSave(t) PROVE FALSE
      BY <2>1 DEF RequestSave
    <2>2. CASE Written
      <3>1. pending.waiters = {}
        BY <2>2, Zenon DEF Written, AfterWrite, HandOn
      <3> QED
        BY <1>1, <2>2, <3>1 DEF Written, Draining, FileInv, NewestIsLast
    <2>3. CASE Refused
      BY <2>3 DEF Refused, AfterWrite, HandOn, Answer
    <2>4. CASE UNCHANGED fileVars
      BY <2>4 DEF fileVars
    <2> QED
      BY <1>1, <2>1, <2>2, <2>3, <2>4 DEF FileNext
  <1> QED
    BY <1>1, FileInitInv, FileNextInv, PTL DEF FileSpec, SavedIsNewest
-----------------------------------------------------------------------------
\* What the editor shows, and may come to show, is something a file may hold.
Showable ==
  /\ text \in Contents /\ snapshot \in Contents
  /\ loading # NoText => loading.text \in Contents

\* The texts a tab is opened with and reads, and those that are typed.
LEMMA ShowableInv == Spec => []Showable
  <1>1. Init => Showable
    <2> SUFFICES ASSUME Init PROVE Showable
      OBVIOUS
    <2>1. text \in Contents /\ snapshot \in Contents
      BY ContentsAssumption, TextsAssumption DEF Init
    <2>2. ASSUME loading # NoText PROVE loading.text \in Contents
      BY <2>1, <2>2, ContentsAssumption DEF Init
    <2> QED
      BY <2>1, <2>2 DEF Showable
  <1>2. Showable /\ [Next]_vars => Showable'
    <2> SUFFICES ASSUME Showable, [Next]_vars PROVE Showable'
      OBVIOUS
    <2>1. ASSUME NEW t \in Texts, Type(t) PROVE Showable'
      BY <2>1, TextsAssumption DEF Type, Showable
    <2>2. CASE \E g \in {"close", "exit"} : Leave(g)
      BY <2>2 DEF Leave, Showable
    <2>3. CASE DecideCancel \/ DecideDiscard \/ DecideSave
      BY <2>3 DEF DecideCancel, DecideDiscard, DecideSave, Showable
    <2>4. CASE ExitOn \/ (\E ok \in BOOLEAN : ConfirmExit(ok)) \/ FinishExit
      BY <2>4 DEF ExitOn, ConfirmExit, FinishExit, Showable
    <2>5. CASE SaveFile \/ FileSucceeds \/ FileFails
      BY <2>5 DEF SaveFile, FileSucceeds, FileFails, FileAnswered, editorVars, Showable
    <2>6. CASE AutoSave \/ ExitConsole \/ SaveConsole
      BY <2>6 DEF AutoSave, ExitConsole, SaveConsole, Showable
    <2>7. CASE ConfirmInitialSave \/ CancelInitialSave
      BY <2>7 DEF ConfirmInitialSave, CancelInitialSave, Showable
    <2>8. CASE RemoveSaved \/ SaveSucceeds \/ SaveFails
      BY <2>8, Zenon DEF RemoveSaved, SaveSucceeds, SaveFails, Showable
    <2>9. CASE UNCHANGED vars
      BY <2>9 DEF vars, editorVars, Showable
    <2>10. CASE Load
      BY <2>10 DEF Load, Showable
    <2> QED
      BY <2>1, <2>2, <2>3, <2>4, <2>5, <2>6, <2>7, <2>8, <2>9, <2>10 DEF Next
  <1> QED
    BY <1>1, <1>2, PTL DEF Spec

\* Every step of the tab is a step of the save queue or leaves it alone.
LEMMA TabStepIsQueueStep == Showable /\ [Next]_vars => [FileNext]_fileVars
  <1> SUFFICES ASSUME Showable, [Next]_vars PROVE [FileNext]_fileVars
    OBVIOUS
  <1>1. ASSUME NEW t \in Texts, Type(t) PROVE UNCHANGED fileVars
    BY <1>1 DEF Type
  <1>2. CASE \E g \in {"close", "exit"} : Leave(g)
    BY <1>2 DEF Leave
  <1>3. CASE DecideCancel \/ DecideDiscard
    BY <1>3 DEF DecideCancel, DecideDiscard
  <1>4. CASE DecideSave
    <2>1. RequestSave(text) \/ UNCHANGED fileVars
      BY <1>4 DEF DecideSave
    <2> QED
      BY <2>1 DEF Showable, FileNext
  <1>5. CASE ExitOn \/ (\E ok \in BOOLEAN : ConfirmExit(ok)) \/ FinishExit
    BY <1>5 DEF ExitOn, ConfirmExit, FinishExit
  <1>6. CASE SaveFile
    <2>1. RequestSave(text)
      BY <1>6 DEF SaveFile
    <2> QED
      BY <2>1 DEF Showable, FileNext
  <1>7. CASE FileSucceeds \/ FileFails
    BY <1>7 DEF FileSucceeds, FileFails, FileNext
  <1>8. CASE AutoSave \/ ExitConsole \/ SaveConsole
    BY <1>8 DEF AutoSave, ExitConsole, SaveConsole
  <1>9. CASE ConfirmInitialSave \/ CancelInitialSave
    BY <1>9 DEF ConfirmInitialSave, CancelInitialSave
  <1>10. CASE RemoveSaved \/ SaveSucceeds \/ SaveFails
    BY <1>10, Zenon DEF RemoveSaved, SaveSucceeds, SaveFails
  <1>11. CASE UNCHANGED vars
    BY <1>11 DEF vars
  <1>12. CASE Load
    BY <1>12 DEF Load
  <1> QED
    BY <1>1, <1>2, <1>3, <1>4, <1>5, <1>6, <1>7, <1>8, <1>9, <1>10, <1>11, <1>12 DEF Next

\* The editor tab implements the save queue of its file.
THEOREM TabUsesQueue == Spec => FileSpec
  <1>1. Init => FileInit
    BY DEF Init
  <1> QED
    BY <1>1, ShowableInv, TabStepIsQueueStep, PTL DEF Spec, FileSpec

\* No save of a tab is left without an answer by the queue, whatever the tab
\* does on its way out.
THEOREM TabKeepsCallers == Spec => []NoWaiterLost
  BY TabUsesQueue, CallersKept, PTL

\* A save of a tab is acknowledged only when the file holds the newest text.
THEOREM TabSavedIsNewest == Spec => SavedIsNewest
  BY TabUsesQueue, ResolvedIsNewest, PTL
-----------------------------------------------------------------------------
(* The tab, its console and the mutations of its console.                  *)

Coordinators == [generation : Nat, publishDesired : BOOLEAN, retainDraftBlock : BOOLEAN]

Mutations ==
  [kind : {"manual", "automatic", "keepDraft", "delete"}, ddl : Contents, generation : Nat,
   awaits : {"none", "close", "flush", "name"},
   before : [publishDesired : BOOLEAN, retainDraftBlock : BOOLEAN]]

Chains == Seq(Mutations)

Records == [status : {"DRAFT", "RELEASE", "DELETED"}, ddl : Contents]

ConsoleTypes ==
  /\ coord \in Coordinators
  /\ queue \in Chains
  /\ record \in Records

EditorTypes ==
  /\ kind \in {"console", "file"} /\ asks \in BOOLEAN
  /\ text \in Contents /\ sync \in Contents /\ snapshot \in Contents
  /\ draft \in Contents \union {NoText}
  /\ loading \in {NoText} \union [of : {"DRAFT", "RELEASE"}, text : Contents]
  /\ status \in {"DRAFT", "RELEASE"}
  /\ goal \in {"none", "close", "exit"}

Budgets == [edits : Nat, commands : Nat, faults : Nat, failing : Nat, tangled : Nat]

BudgetTypes == budget \in Budgets

TypeOK == ConsoleTypes /\ EditorTypes /\ BudgetTypes

\* A mutation joins the queue.
LEMMA Joined ==
  ASSUME NEW q \in Chains, NEW m \in Mutations
  PROVE  /\ Append(q, m) \in Chains
         /\ Len(q) \in Nat /\ Len(Append(q, m)) = Len(q) + 1
         /\ \A i \in 1 .. Len(q) : Append(q, m)[i] = q[i]
         /\ Append(q, m)[Len(q) + 1] = m
  BY DEF Chains

\* The running mutation leaves it.
LEMMA Left ==
  ASSUME NEW q \in Chains, q # <<>>
  PROVE  /\ Tail(q) \in Chains
         /\ Len(q) \in Nat /\ Len(q) # 0 /\ Len(Tail(q)) = Len(q) - 1
         /\ Head(q) = q[1] /\ q[1] \in Mutations
         /\ \A i \in 1 .. Len(Tail(q)) : Tail(q)[i] = q[i + 1]
  BY DEF Chains

\* A queue is empty when nothing is chained, and holds mutations.
LEMMA Chained ==
  ASSUME NEW q \in Chains
  PROVE  /\ Len(q) \in Nat
         /\ q = <<>> <=> Len(q) = 0
         /\ \A i \in 1 .. Len(q) : q[i] \in Mutations
  BY DEF Chains

\* Where something is chained the queue is not empty.
LEMMA Occupied ==
  ASSUME NEW n \in Nat, NEW i \in 1 .. n
  PROVE  n # 0
  OBVIOUS

\* What the three calls of the coordinator chain is a mutation.
LEMMA MutationType ==
  ASSUME ConsoleTypes, NEW k \in {"manual", "automatic", "keepDraft", "delete"},
         NEW d \in Contents, NEW g \in Nat, NEW a \in {"none", "close", "flush", "name"}
  PROVE  Mutation(k, d, g, a) \in Mutations
  <1>1. /\ coord.publishDesired \in BOOLEAN
        /\ coord.retainDraftBlock \in BOOLEAN
    BY DEF ConsoleTypes, Coordinators
  <1> QED
    BY <1>1 DEF Mutation, Mutations

\* A command, an automatic save.
LEMMA ManualType ==
  ASSUME ConsoleTypes, NEW d \in Contents, NEW a \in {"none", "close", "flush", "name"}, ManualSave(d, a)
  PROVE  ConsoleTypes'
  <1>1. coord' = Commanded(TRUE, FALSE) /\ coord' \in Coordinators /\ coord'.generation \in Nat
    BY DEF ManualSave, Commanded, ConsoleTypes, Coordinators
  <1>2. Mutation("manual", d, coord'.generation, a) \in Mutations
    BY <1>1, MutationType, Zenon
  <1>3. queue' \in Chains
    BY <1>2, Joined, Zenon DEF ManualSave, ConsoleTypes
  <1> QED
    BY <1>1, <1>3, Zenon DEF ManualSave, ConsoleTypes

LEMMA AutomaticType ==
  ASSUME ConsoleTypes, NEW d \in Contents, NEW a \in {"none", "close", "flush", "name"}, AutomaticSave(d, a)
  PROVE  ConsoleTypes'
  <1>1. coord.generation \in Nat
    BY DEF ConsoleTypes, Coordinators
  <1>2. Mutation("automatic", d, coord.generation, a) \in Mutations
    BY <1>1, MutationType
  <1>3. queue' \in Chains
    BY <1>2, Joined DEF AutomaticSave, ConsoleTypes
  <1> QED
    BY <1>3 DEF AutomaticSave, ConsoleTypes

LEMMA RemovalType ==
  ASSUME ConsoleTypes, NEW k \in {"keepDraft", "delete"}, Removal(k)
  PROVE  ConsoleTypes'
  <1>1. coord' = Commanded(FALSE, k = "keepDraft") /\ coord' \in Coordinators /\ coord'.generation \in Nat
    BY DEF Removal, Commanded, ConsoleTypes, Coordinators
  <1>2. Mutation(k, Blank, coord'.generation, "none") \in Mutations
    BY <1>1, MutationType, TextsAssumption, Zenon
  <1>3. queue' \in Chains
    BY <1>2, Joined, Zenon DEF Removal, ConsoleTypes
  <1> QED
    BY <1>1, <1>3, Zenon DEF Removal, ConsoleTypes

\* The end of the running mutation.
LEMMA EndType ==
  ASSUME ConsoleTypes, MutationSucceeds \/ MutationFails
  PROVE  ConsoleTypes'
  <1>1. queue # <<>> /\ queue' = Tail(queue)
    BY DEF MutationSucceeds, MutationFails
  <1>2. queue' \in Chains /\ Head(queue) \in Mutations
    BY <1>1, Left DEF ConsoleTypes
  <1>3. coord \in Coordinators /\ FreshState \in Coordinators
    BY DEF ConsoleTypes, FreshState, Coordinators
  <1>4. RolledBack(Head(queue)) \in Coordinators
    BY <1>2, <1>3, Zenon DEF RolledBack, Coordinators, Mutations
  <1>5. coord' \in Coordinators
    BY <1>3, <1>4 DEF MutationSucceeds, MutationFails, Finish
  <1>6. Executed(Head(queue)) \in Records
    BY <1>2, TextsAssumption DEF Executed, Publishes, Mutations, ConsoleTypes, Records
  <1>7. record' \in Records
    BY <1>6 DEF MutationSucceeds, MutationFails, ConsoleTypes
  <1> QED
    BY <1>2, <1>5, <1>7 DEF ConsoleTypes

\* What a failed mutation adds to the budget.
Blame(b, yes, n) == [b EXCEPT !.faults = @ + 1, !.tangled = IF yes THEN @ + 1 ELSE @, !.failing = n]

\* A fault, and a tangled one where it is.
LEMMA Blamed ==
  ASSUME NEW b \in Budgets, NEW yes \in BOOLEAN, NEW n \in Nat
  PROVE  /\ Blame(b, yes, n) \in Budgets
         /\ Blame(b, yes, n).failing = n
         /\ Blame(b, yes, n).tangled = IF yes THEN b.tangled + 1 ELSE b.tangled
  <1>1. PICK k \in Nat : k = IF yes THEN b.tangled + 1 ELSE b.tangled
    BY DEF Budgets
  <1>2. PICK f \in Nat : f = b.faults + 1
    BY DEF Budgets
  <1>3. Blame(b, yes, n) = [b EXCEPT !.faults = f, !.tangled = k, !.failing = n]
    BY <1>1, <1>2, Zenon DEF Blame
  <1> QED
    BY <1>1, <1>3 DEF Budgets

\* A failed mutation of the console is counted; a command whose failure is
\* not tangled left the record alone, was the first to fail, and has no
\* automatic save behind it.
LEMMA FailureCounted ==
  ASSUME TypeOK, SaveFails
  PROVE  /\ BudgetTypes'
         /\ Len(queue) # 1 /\ Head(queue).kind = "automatic" => budget'.failing = budget.failing
         /\ Len(queue) # 1 /\ Head(queue).kind # "automatic" => budget'.failing = 1
         /\ budget'.tangled = 0 =>
              /\ budget.tangled = 0
              /\ Head(queue).kind # "automatic" =>
                   record' = record /\ budget.failing = 0 /\ (Len(queue) > 1 => queue[2].kind # "automatic")
  <1> DEFINE yes == Tangled(Head(queue))
             n == IF Len(queue) = 1 THEN 0 ELSE IF Head(queue).kind # "automatic" THEN 1 ELSE budget.failing
  <1>1. budget \in Budgets
    BY DEF TypeOK, BudgetTypes
  <1>2. yes \in BOOLEAN
    BY DEF Tangled
  <1>3. n \in Nat
    BY <1>1 DEF Budgets
  <1>4. budget' = Blame(budget, yes, n)
    BY Zenon DEF SaveFails, Blame
  <1>5. ~yes /\ Head(queue).kind # "automatic" =>
          record' = record /\ budget.failing = 0 /\ (Len(queue) > 1 => queue[2].kind # "automatic")
    BY <1>1 DEF Tangled, Budgets
  <1>6. /\ Len(queue) # 1 /\ Head(queue).kind = "automatic" => n = budget.failing
        /\ Len(queue) # 1 /\ Head(queue).kind # "automatic" => n = 1
    OBVIOUS
  <1> HIDE DEF yes, n
  <1>7. /\ budget' \in Budgets
        /\ budget'.failing = n
        /\ budget'.tangled = IF yes THEN budget.tangled + 1 ELSE budget.tangled
    BY <1>1, <1>2, <1>3, <1>4, Blamed
  <1>8. budget'.tangled = 0 => budget.tangled = 0 /\ ~yes
    BY <1>1, <1>7 DEF Budgets
  <1> QED
    BY <1>5, <1>6, <1>7, <1>8 DEF BudgetTypes

\* One step of the tab: the types, with those of the file, on which the
\* baseline depends.
LEMMA TypeStep ==
  ASSUME TypeOK, FileTypeOK, [Next]_vars
  PROVE  TypeOK'
  <1> USE DEF TypeOK
  <1>1. ASSUME NEW t \in Texts, Type(t) PROVE TypeOK'
    BY <1>1, TextsAssumption DEF Type, Count, consoleVars, ConsoleTypes, EditorTypes, BudgetTypes, Budgets
  <1>2. ASSUME NEW g \in {"close", "exit"}, Leave(g) PROVE TypeOK'
    BY <1>2 DEF Leave, DraftAfter, consoleVars, ConsoleTypes, EditorTypes, BudgetTypes
  <1>3. CASE DecideCancel \/ DecideDiscard \/ CancelInitialSave
    BY <1>3 DEF DecideCancel, DecideDiscard, CancelInitialSave, DraftAfter, consoleVars, ConsoleTypes,
                EditorTypes, BudgetTypes
  <1>4. CASE DecideSave
    <2>1. ConsoleTypes'
      <3>1. ManualSave(text, "close") \/ UNCHANGED consoleVars
        BY <1>4 DEF DecideSave
      <3> QED
        BY <3>1, ManualType DEF consoleVars, ConsoleTypes, EditorTypes
    <2>2. EditorTypes'
      BY <1>4 DEF DecideSave, EditorTypes
    <2>3. BudgetTypes'
      BY <1>4 DEF DecideSave, Count, BudgetTypes, Budgets
    <2> QED
      BY <2>1, <2>2, <2>3
  <1>5. CASE ExitOn \/ (\E ok \in BOOLEAN : ConfirmExit(ok)) \/ FinishExit
    BY <1>5 DEF ExitOn, ConfirmExit, FinishExit, consoleVars, ConsoleTypes, EditorTypes, BudgetTypes
  <1>6. CASE SaveFile \/ UNCHANGED vars
    BY <1>6 DEF SaveFile, vars, editorVars, consoleVars, ConsoleTypes, EditorTypes, BudgetTypes
  <1>7. CASE FileSucceeds \/ FileFails
    <2>1. sync' \in Contents
      BY <1>7 DEF FileSucceeds, FileFails, FileAnswered, FileTypeOK, Batches, EditorTypes
    <2>2. ConsoleTypes'
      BY <1>7 DEF FileSucceeds, FileFails, FileAnswered, consoleVars, ConsoleTypes
    <2>3. EditorTypes'
      BY <1>7, <2>1 DEF FileSucceeds, FileFails, FileAnswered, EditorTypes
    <2>4. BudgetTypes'
      BY <1>7 DEF FileSucceeds, FileFails, Count, BudgetTypes, Budgets
    <2> QED
      BY <2>2, <2>3, <2>4
  <1>8. CASE AutoSave \/ ExitConsole
    <2>1. ConsoleTypes'
      <3>1. (\E a \in {"none", "flush"} : AutomaticSave(text, a)) \/ UNCHANGED consoleVars
        BY <1>8 DEF AutoSave, ExitConsole, Persist
      <3> QED
        BY <3>1, AutomaticType DEF consoleVars, ConsoleTypes, EditorTypes
    <2>2. EditorTypes' /\ BudgetTypes'
      BY <1>8 DEF AutoSave, ExitConsole, Persist, EditorTypes, BudgetTypes
    <2> QED
      BY <2>1, <2>2
  <1>9. CASE SaveConsole \/ ConfirmInitialSave
    <2>1. ConsoleTypes'
      <3>1. (\E a \in {"none", "name"} : ManualSave(text, a)) \/ UNCHANGED consoleVars
        BY <1>9 DEF SaveConsole, ConfirmInitialSave
      <3> QED
        BY <3>1, ManualType DEF consoleVars, ConsoleTypes, EditorTypes
    <2>2. EditorTypes' /\ BudgetTypes'
      BY <1>9 DEF SaveConsole, ConfirmInitialSave, Count, EditorTypes, BudgetTypes, Budgets
    <2> QED
      BY <2>1, <2>2
  <1>10. CASE RemoveSaved
    <2>1. ConsoleTypes'
      BY <1>10, RemovalType DEF RemoveSaved
    <2>2. EditorTypes' /\ BudgetTypes'
      BY <1>10 DEF RemoveSaved, Count, EditorTypes, BudgetTypes, Budgets
    <2> QED
      BY <2>1, <2>2
  <1>11. CASE SaveSucceeds
    <2>1. ConsoleTypes'
      BY <1>11, EndType DEF SaveSucceeds
    <2>2. Head(queue).ddl \in Contents
      <3>1. queue # <<>> /\ queue \in Chains
        BY <1>11 DEF SaveSucceeds, MutationSucceeds, ConsoleTypes
      <3> QED
        BY <3>1, Left DEF Mutations
    <2>3. EditorTypes'
      BY <1>11, <2>2, Zenon DEF SaveSucceeds, EditorTypes
    <2>4. BudgetTypes'
      BY <1>11 DEF SaveSucceeds, BudgetTypes, Budgets
    <2> QED
      BY <2>1, <2>3, <2>4
  <1>12. CASE SaveFails
    <2>1. ConsoleTypes'
      BY <1>12, EndType DEF SaveFails
    <2>2. EditorTypes' /\ BudgetTypes'
      BY <1>12, FailureCounted DEF SaveFails, EditorTypes
    <2> QED
      BY <2>1, <2>2
  <1>13. CASE Load
    BY <1>13 DEF Load, consoleVars, ConsoleTypes, EditorTypes, BudgetTypes
  <1> QED
    BY <1>1, <1>2, <1>3, <1>4, <1>5, <1>6, <1>7, <1>8, <1>9, <1>10, <1>11, <1>12, <1>13 DEF Next
-----------------------------------------------------------------------------
(* The order of the mutations.                                             *)

Last == queue[Len(queue)]

\* The commands are numbered in the order they were chained, and the last
\* mutation belongs to the newest one.
QueueForm ==
  /\ \A i \in 1 .. Len(queue) : queue[i].awaits # "none" => Publishes(queue[i])
  /\ \A i \in 1 .. Len(queue) : queue[i].generation <= coord.generation
  /\ \A i, j \in 1 .. Len(queue) :
       i < j /\ queue[j].kind # "automatic" => queue[i].generation < queue[j].generation
  /\ Len(queue) # 0 => Last.generation = coord.generation

\* Whether the console is a saved one once the first i mutations have ended,
\* provided that the i-th succeeds.
Released(i) == IF i = 0 THEN record.status = "RELEASE" ELSE Publishes(queue[i])

\* A state that blocks automatic saves outlives the queue.
Retained(c) == ~c.publishDesired => c.retainDraftBlock

\* As long as every command that failed could be undone: no automatic save
\* runs after a removal; the state of an open console follows the last
\* mutation; and so did the state a command goes back to, unless the mutation
\* in front of it failed.
OrderForm ==
  /\ \A i \in 1 .. Len(queue) : queue[i].kind = "automatic" => Released(i - 1)
  /\ status = "RELEASE" /\ phase # "closed" =>
       /\ coord.publishDesired <=> Released(Len(queue))
       /\ Retained(coord)
       /\ \A i \in 1 .. Len(queue) : queue[i].kind # "automatic" =>
            /\ Retained(queue[i].before)
            /\ i # 1 \/ budget.failing = 0 => (queue[i].before.publishDesired <=> Released(i - 1))

Ordered == QueueForm /\ (budget.tangled = 0 => OrderForm)

\* A console that was never saved has at most its first save pending, behind
\* removals, and the dialog that names it is open until that save has ended.
NamingForm ==
  /\ status = "DRAFT" =>
       \A i \in 1 .. Len(queue) : Publishes(queue[i]) =>
         /\ i = Len(queue) /\ queue[i].kind = "manual" /\ queue[i].awaits = "name"
         /\ phase = "naming" /\ coord.publishDesired
  /\ \A i \in 1 .. Len(queue) : queue[i].awaits = "name" => status = "DRAFT"
  /\ phase = "naming" => status = "DRAFT"

\* Only the record of a closed console is deleted.
ClosedForm ==
  /\ record.status = "DELETED" => phase = "closed"
  /\ \A i \in 1 .. Len(queue) : queue[i].kind = "delete" => phase = "closed"

\* The component the tab is not of is at rest, and only a console that was
\* saved reads its record.
KindForm ==
  /\ kind = "file" => status = "RELEASE" /\ Len(queue) = 0 /\ phase # "flushing" /\ loading = NoText
  /\ kind = "console" => ~Draining /\ phase # "waiting"
  /\ loading # NoText /\ loading.of = "RELEASE" => status = "RELEASE"

PlaceForm == NamingForm /\ ClosedForm /\ KindForm

\* What a call of the coordinator chains.
Enqueues(m) ==
  /\ m \in Mutations
  /\ queue' = Append(queue, m)
  /\ m.before.publishDesired <=> coord.publishDesired
  /\ m.before.retainDraftBlock <=> coord.retainDraftBlock
  /\ m.awaits # "none" => Publishes(m)
  /\ m.generation = coord'.generation
  /\ coord.generation <= coord'.generation
  /\ coord'.publishDesired <=> Publishes(m)
  /\ m.kind # "automatic" => coord.generation < coord'.generation /\ (coord'.retainDraftBlock <=> m.kind = "keepDraft")
  /\ m.kind = "automatic" => coord' = coord /\ status = "RELEASE" /\ phase # "closed"

\* A mutation that is chained last.
LEMMA ChainedQueue ==
  ASSUME TypeOK, NEW m, Enqueues(m)
  PROVE  /\ Len(queue) \in Nat /\ Len(queue') = Len(queue) + 1 /\ Len(queue') # 0
         /\ queue'[Len(queue) + 1] = m /\ Last' = m
         /\ \A i \in 1 .. Len(queue) : queue'[i] = queue[i] /\ queue[i] \in Mutations
         /\ \A i \in 1 .. Len(queue') : (i \in 1 .. Len(queue) /\ queue'[i] = queue[i]) \/ (i = Len(queue) + 1 /\ queue'[i] = m)
         /\ Len(queue) # 0 => Last = queue[Len(queue)] /\ Len(queue) \in 1 .. Len(queue)
  <1>1. /\ Len(queue) \in Nat /\ Len(queue') = Len(queue) + 1
        /\ \A i \in 1 .. Len(queue) : queue'[i] = queue[i]
        /\ queue'[Len(queue) + 1] = m
    BY Joined DEF Enqueues, TypeOK, ConsoleTypes
  <1>2. \A i \in 1 .. Len(queue) : queue[i] \in Mutations
    BY Chained DEF TypeOK, ConsoleTypes
  <1>3. \A i \in 1 .. Len(queue') : i \in 1 .. Len(queue) \/ i = Len(queue) + 1
    BY <1>1
  <1> QED
    BY <1>1, <1>2, <1>3 DEF Last

\* A chained mutation keeps the order.
LEMMA ChainedOrder ==
  ASSUME TypeOK, TypeOK', Ordered, NEW m, Enqueues(m), phase = "closed" => phase' = "closed",
         m.kind = "delete" => phase' = "closed",
         UNCHANGED <<record, status>>, budget'.tangled = budget.tangled, budget'.failing = budget.failing
  PROVE  Ordered'
  <1>1. /\ Len(queue) \in Nat /\ Len(queue') = Len(queue) + 1 /\ Len(queue') # 0
        /\ queue'[Len(queue) + 1] = m /\ Last' = m
        /\ \A i \in 1 .. Len(queue) : queue'[i] = queue[i] /\ queue[i] \in Mutations
        /\ \A i \in 1 .. Len(queue') : (i \in 1 .. Len(queue) /\ queue'[i] = queue[i]) \/ (i = Len(queue) + 1 /\ queue'[i] = m)
    BY ChainedQueue
  <1>2. m \in Mutations /\ coord.generation \in Nat /\ coord'.generation \in Nat
    BY DEF Enqueues, TypeOK, ConsoleTypes, Coordinators
  <1>3. QueueForm'
    <2>1. ASSUME NEW i \in 1 .. Len(queue')
          PROVE  (queue'[i].awaits # "none" => Publishes(queue'[i])) /\ queue'[i].generation <= coord'.generation
      <3>1. CASE i \in 1 .. Len(queue) /\ queue'[i] = queue[i]
        BY <1>1, <1>2, <3>1 DEF Ordered, QueueForm, Enqueues, Mutations
      <3>2. CASE queue'[i] = m
        BY <1>2, <3>2 DEF Enqueues
      <3> QED
        BY <1>1, <2>1, <3>1, <3>2
    <2>2. ASSUME NEW i \in 1 .. Len(queue'), NEW j \in 1 .. Len(queue'), i < j, queue'[j].kind # "automatic"
          PROVE  queue'[i].generation < queue'[j].generation
      <3>1. i \in 1 .. Len(queue) /\ queue'[i] = queue[i] /\ queue[i].generation <= coord.generation
            /\ queue[i].generation \in Nat
        BY <1>1, <2>2 DEF Ordered, QueueForm, Mutations
      <3>2. CASE j \in 1 .. Len(queue) /\ queue'[j] = queue[j]
        BY <2>2, <3>1, <3>2 DEF Ordered, QueueForm
      <3>3. CASE queue'[j] = m
        BY <1>2, <2>2, <3>1, <3>3 DEF Enqueues
      <3> QED
        BY <1>1, <2>2, <3>2, <3>3
    <2> QED
      BY <1>1, <2>1, <2>2 DEF QueueForm, Publishes, Enqueues
  <1>4. \A i \in 0 .. Len(queue) : Released(i)' <=> Released(i)
    BY <1>1 DEF Released, Publishes
  <1>5. ASSUME OrderForm PROVE OrderForm'
    <2>1. ASSUME NEW i \in 1 .. Len(queue'), queue'[i].kind = "automatic" PROVE Released(i - 1)'
      <3>1. i - 1 \in 0 .. Len(queue)
        BY <1>1
      <3>2. CASE i \in 1 .. Len(queue) /\ queue'[i] = queue[i]
        BY <1>4, <1>5, <2>1, <3>1, <3>2 DEF OrderForm
      <3>3. CASE i = Len(queue) + 1 /\ queue'[i] = m
        <4>1. coord.publishDesired /\ status = "RELEASE" /\ phase # "closed" /\ i - 1 = Len(queue)
          BY <1>1, <2>1, <3>3 DEF Enqueues, Publishes
        <4>2. Released(Len(queue))
          BY <1>5, <4>1 DEF OrderForm
        <4> QED
          BY <1>4, <3>1, <4>1, <4>2
      <3> QED
        BY <1>1, <2>1, <3>2, <3>3
    <2>2. ASSUME status' = "RELEASE", phase' # "closed"
          PROVE  /\ coord'.publishDesired <=> Released(Len(queue))'
                 /\ Retained(coord)'
                 /\ \A i \in 1 .. Len(queue') : queue'[i].kind # "automatic" =>
                      /\ Retained(queue'[i].before)
                      /\ i # 1 \/ budget'.failing = 0 => (queue'[i].before.publishDesired <=> Released(i - 1)')
      <3>1. status = "RELEASE" /\ phase # "closed" /\ m.kind # "delete"
        BY <2>2
      <3>2. coord'.publishDesired <=> Released(Len(queue))'
        <4>1. Released(Len(queue))' <=> Publishes(m)
          BY <1>1 DEF Released, Publishes
        <4> QED
          BY <4>1 DEF Enqueues
      <3>3. Retained(coord) /\ (coord.publishDesired <=> Released(Len(queue)))
        BY <1>5, <3>1 DEF OrderForm
      <3>4. Retained(coord)'
        <4>1. CASE Publishes(m)
          BY <4>1 DEF Enqueues, Retained
        <4>2. CASE m.kind = "keepDraft"
          BY <4>2 DEF Enqueues, Retained
        <4> QED
          BY <1>2, <3>1, <4>1, <4>2 DEF Mutations, Publishes
      <3>5. ASSUME NEW i \in 1 .. Len(queue'), queue'[i].kind # "automatic"
            PROVE  /\ Retained(queue'[i].before)
                   /\ i # 1 \/ budget'.failing = 0 => (queue'[i].before.publishDesired <=> Released(i - 1)')
        <4>1. i - 1 \in 0 .. Len(queue)
          BY <1>1
        <4>2. CASE i \in 1 .. Len(queue) /\ queue'[i] = queue[i]
          BY <1>4, <1>5, <3>1, <3>5, <4>1, <4>2 DEF OrderForm
        <4>3. CASE i = Len(queue) + 1 /\ queue'[i] = m
          <5>1. i - 1 = Len(queue)
            BY <1>1, <4>3
          <5> QED
            BY <1>4, <3>3, <4>1, <4>3, <5>1 DEF Enqueues, Retained
        <4> QED
          BY <1>1, <3>5, <4>2, <4>3
      <3> QED
        BY <3>2, <3>4, <3>5
    <2> QED
      BY <2>1, <2>2 DEF OrderForm, Released, Retained, Publishes
  <1> QED
    BY <1>3, <1>5 DEF Ordered

\* The three calls chain such a mutation.
LEMMA ManualEnqueues ==
  ASSUME TypeOK, NEW a \in {"none", "close", "flush", "name"}, ManualSave(text, a)
  PROVE  LET m == Mutation("manual", text, coord'.generation, a)
         IN  Enqueues(m) /\ m.kind = "manual" /\ m.ddl = text /\ m.awaits = a
  <1> DEFINE m == Mutation("manual", text, coord'.generation, a)
  <1>1. coord' = Commanded(TRUE, FALSE) /\ coord'.generation \in Nat /\ coord.generation < coord'.generation
        /\ coord.generation <= coord'.generation
    BY DEF ManualSave, Commanded, TypeOK, ConsoleTypes, Coordinators
  <1>2. m \in Mutations
    BY <1>1, MutationType, Zenon DEF TypeOK, EditorTypes
  <1>3. coord'.publishDesired /\ ~coord'.retainDraftBlock
    BY <1>1 DEF Commanded
  <1>4. /\ m.kind = "manual" /\ m.ddl = text /\ m.awaits = a /\ m.generation = coord'.generation
        /\ m.before.publishDesired <=> coord.publishDesired
        /\ m.before.retainDraftBlock <=> coord.retainDraftBlock
    BY Zenon DEF Mutation
  <1>5. queue' = Append(queue, m)
    BY DEF ManualSave
  <1> HIDE DEF m
  <1>6. Enqueues(m)
    BY <1>1, <1>2, <1>3, <1>4, <1>5 DEF Enqueues, Publishes
  <1> QED
    BY <1>4, <1>6 DEF m

LEMMA AutomaticEnqueues ==
  ASSUME TypeOK, NEW a \in {"none", "close", "flush", "name"}, AutomaticSave(text, a),
         status = "RELEASE", ~AutomaticBlocked, phase # "closed"
  PROVE  LET m == Mutation("automatic", text, coord.generation, a)
         IN  Enqueues(m) /\ m.kind = "automatic" /\ m.ddl = text /\ m.awaits = a
  <1> DEFINE m == Mutation("automatic", text, coord.generation, a)
  <1>1. coord' = coord /\ coord.generation \in Nat /\ coord.generation <= coord'.generation
    BY DEF AutomaticSave, TypeOK, ConsoleTypes, Coordinators
  <1>2. m \in Mutations
    BY <1>1, MutationType DEF TypeOK, EditorTypes
  <1>3. coord'.publishDesired
    BY <1>1 DEF AutomaticBlocked
  <1>4. /\ m.kind = "automatic" /\ m.ddl = text /\ m.awaits = a /\ m.generation = coord.generation
        /\ m.before.publishDesired <=> coord.publishDesired
        /\ m.before.retainDraftBlock <=> coord.retainDraftBlock
    BY Zenon DEF Mutation
  <1>5. queue' = Append(queue, m)
    BY DEF AutomaticSave
  <1> HIDE DEF m
  <1>6. Enqueues(m)
    BY <1>1, <1>2, <1>3, <1>4, <1>5 DEF Enqueues, Publishes
  <1> QED
    BY <1>4, <1>6 DEF m

LEMMA RemovalEnqueues ==
  ASSUME TypeOK, NEW k \in {"keepDraft", "delete"}, Removal(k)
  PROVE  LET m == Mutation(k, Blank, coord'.generation, "none")
         IN  Enqueues(m) /\ m.kind = k /\ m.awaits = "none"
  <1> DEFINE m == Mutation(k, Blank, coord'.generation, "none")
  <1>1. coord' = Commanded(FALSE, k = "keepDraft") /\ coord'.generation \in Nat /\ coord.generation < coord'.generation
        /\ coord.generation <= coord'.generation
    BY DEF Removal, Commanded, TypeOK, ConsoleTypes, Coordinators
  <1>2. m \in Mutations
    BY <1>1, MutationType, TextsAssumption, Zenon DEF TypeOK
  <1>3. ~coord'.publishDesired /\ (coord'.retainDraftBlock <=> k = "keepDraft")
    BY <1>1, Zenon DEF Commanded
  <1>4. /\ m.kind = k /\ m.awaits = "none" /\ m.generation = coord'.generation
        /\ m.before.publishDesired <=> coord.publishDesired
        /\ m.before.retainDraftBlock <=> coord.retainDraftBlock
    BY Zenon DEF Mutation
  <1>5. queue' = Append(queue, m)
    BY DEF Removal
  <1> HIDE DEF m
  <1>6. Enqueues(m)
    BY <1>1, <1>2, <1>3, <1>4, <1>5 DEF Enqueues, Publishes
  <1> QED
    BY <1>4, <1>6 DEF m

\* The mutations behind the one that ends.
LEMMA EndedQueue ==
  ASSUME TypeOK, MutationSucceeds \/ MutationFails
  PROVE  /\ Len(queue) \in Nat /\ Len(queue) # 0 /\ Len(queue') \in Nat /\ Len(queue') = Len(queue) - 1
         /\ Head(queue) = queue[1] /\ queue[1] \in Mutations
         /\ \A i \in 1 .. Len(queue') : i + 1 \in 2 .. Len(queue) /\ queue'[i] = queue[i + 1]
         /\ Len(queue') # 0 => Last' = Last
         /\ Len(queue') = 0 => Last = queue[1]
  <1>1. queue \in Chains /\ queue # <<>> /\ queue' = Tail(queue)
    BY DEF MutationSucceeds, MutationFails, TypeOK, ConsoleTypes
  <1>2. /\ Len(queue) \in Nat /\ Len(queue) # 0 /\ Len(queue') = Len(queue) - 1
        /\ Head(queue) = queue[1] /\ queue[1] \in Mutations
        /\ \A i \in 1 .. Len(queue') : queue'[i] = queue[i + 1]
    BY <1>1, Left
  <1> QED
    BY <1>2 DEF Last

\* The end of a mutation: a closed tab stays closed.
LEMMA EndedPhase ==
  ASSUME TypeOK, Ordered, PlaceForm, SaveSucceeds \/ SaveFails
  PROVE  phase = "closed" => phase' = "closed"
  <1>1. Len(queue) \in Nat /\ Len(queue) # 0 /\ Head(queue) = queue[1] /\ queue[1] \in Mutations
    <2>1. MutationSucceeds \/ MutationFails
      BY Zenon DEF SaveSucceeds, SaveFails
    <2> QED
      BY <2>1, EndedQueue
  <1>2. 1 \in 1 .. Len(queue)
    BY <1>1
  <1>3. queue[1].awaits = "name" => phase = "naming"
    BY <1>2 DEF Ordered, QueueForm, PlaceForm, NamingForm
  <1> QED
    BY <1>1, <1>3 DEF SaveSucceeds, SaveFails, Awaited

\* The mutations behind one that ends keep their form.
LEMMA EndedQueueForm ==
  ASSUME TypeOK, TypeOK', QueueForm, MutationSucceeds \/ MutationFails,
         Len(queue') # 0 => coord'.generation = coord.generation
  PROVE  QueueForm'
  <1>1. /\ Len(queue) \in Nat /\ Len(queue') \in Nat /\ Len(queue') = Len(queue) - 1
        /\ \A i \in 1 .. Len(queue') : i + 1 \in 1 .. Len(queue) /\ queue'[i] = queue[i + 1]
        /\ Len(queue') # 0 => Last' = Last
    BY EndedQueue
  <1>2. ASSUME NEW i \in 1 .. Len(queue')
        PROVE  (queue'[i].awaits # "none" => Publishes(queue'[i])) /\ queue'[i].generation <= coord'.generation
    <2>1. Len(queue') # 0
      BY <1>1, <1>2, Occupied
    <2> QED
      BY <1>1, <1>2, <2>1 DEF QueueForm
  <1>3. ASSUME NEW i \in 1 .. Len(queue'), NEW j \in 1 .. Len(queue'), i < j, queue'[j].kind # "automatic"
        PROVE  queue'[i].generation < queue'[j].generation
    <2>1. i + 1 \in 1 .. Len(queue) /\ j + 1 \in 1 .. Len(queue) /\ i + 1 < j + 1
      BY <1>1, <1>3
    <2> QED
      BY <1>1, <1>3, <2>1 DEF QueueForm
  <1> QED
    BY <1>1, <1>2, <1>3 DEF QueueForm, Publishes

\* The order of the mutations behind one that ends, where the record shows
\* that it did what it was to do, or where a command is next.
LEMMA EndedOrder ==
  ASSUME TypeOK, TypeOK', OrderForm, MutationSucceeds \/ MutationFails,
         Len(queue') # 0, coord' = coord, status' = status, phase = "closed" => phase' = "closed",
         \/ record'.status = "RELEASE" <=> Publishes(queue[1])
         \/ queue[2].kind # "automatic" /\ budget'.failing # 0
  PROVE  OrderForm'
  <1>1. /\ Len(queue) \in Nat /\ Len(queue') \in Nat /\ Len(queue') = Len(queue) - 1
        /\ \A i \in 1 .. Len(queue') : i + 1 \in 1 .. Len(queue) /\ queue'[i] = queue[i + 1]
    BY EndedQueue
  <1>2. ASSUME NEW i \in 1 .. Len(queue')
        PROVE  \/ Released(i - 1)' <=> Released(i)
               \/ i = 1 /\ queue'[i].kind # "automatic" /\ budget'.failing # 0
    <2>1. CASE i = 1
      BY <1>1, <1>2, <2>1 DEF Released, Publishes
    <2>2. CASE i # 1
      <3>1. i - 1 \in 1 .. Len(queue') /\ (i - 1) + 1 = i /\ i - 1 # 0 /\ i # 0
        BY <1>1, <1>2, <2>2
      <3> QED
        BY <1>1, <3>1 DEF Released, Publishes
    <2> QED
      BY <2>1, <2>2
  <1>3. ASSUME NEW i \in 1 .. Len(queue'), queue'[i].kind = "automatic" PROVE Released(i - 1)'
    <2>1. i + 1 \in 1 .. Len(queue) /\ (i + 1) - 1 = i /\ queue'[i] = queue[i + 1]
      BY <1>1, <1>3
    <2>2. Released(i)
      BY <1>3, <2>1 DEF OrderForm
    <2> QED
      BY <1>2, <1>3, <2>2
  <1>4. ASSUME status' = "RELEASE", phase' # "closed"
        PROVE  /\ coord'.publishDesired <=> Released(Len(queue))'
               /\ Retained(coord)'
               /\ \A i \in 1 .. Len(queue') : queue'[i].kind # "automatic" =>
                    /\ Retained(queue'[i].before)
                    /\ i # 1 \/ budget'.failing = 0 => (queue'[i].before.publishDesired <=> Released(i - 1)')
    <2>1. status = "RELEASE" /\ phase # "closed"
      BY <1>4
    <2>2. (coord.publishDesired <=> Released(Len(queue))) /\ Retained(coord)
      BY <2>1 DEF OrderForm
    <2>3. Released(Len(queue))' <=> Released(Len(queue))
      <3>1. Len(queue') \in 1 .. Len(queue') /\ Len(queue') + 1 = Len(queue) /\ Len(queue) # 0
        BY <1>1
      <3> QED
        BY <1>1, <3>1 DEF Released, Publishes
    <2>4. ASSUME NEW i \in 1 .. Len(queue'), queue'[i].kind # "automatic"
          PROVE  /\ Retained(queue'[i].before)
                 /\ i # 1 \/ budget'.failing = 0 => (queue'[i].before.publishDesired <=> Released(i - 1)')
      <3>1. i + 1 \in 1 .. Len(queue) /\ (i + 1) - 1 = i /\ i + 1 # 1 /\ queue'[i] = queue[i + 1]
        BY <1>1, <2>4
      <3>2. Retained(queue[i + 1].before) /\ (queue[i + 1].before.publishDesired <=> Released(i))
        BY <2>1, <2>4, <3>1 DEF OrderForm
      <3> QED
        BY <1>2, <2>4, <3>1, <3>2
    <2> QED
      BY <2>2, <2>3, <2>4 DEF Retained
  <1> QED
    BY <1>3, <1>4 DEF OrderForm, Released, Retained, Publishes

\* The order once the last mutation has ended.
LEMMA IdleOrder ==
  ASSUME TypeOK', Len(queue') = 0,
         status' = "RELEASE" /\ phase' # "closed" =>
           (coord'.publishDesired <=> record'.status = "RELEASE") /\ Retained(coord)'
  PROVE  OrderForm'
  <1>1. 1 .. Len(queue') = {}
    OBVIOUS
  <1>2. Released(Len(queue))' <=> record'.status = "RELEASE"
    BY DEF Released
  <1> QED
    BY <1>1, <1>2 DEF OrderForm, Retained

\* A mutation that succeeds keeps the order: what ran last agrees with the
\* state it leaves.
LEMMA SucceedsOrder ==
  ASSUME TypeOK, TypeOK', Ordered, PlaceForm, SaveSucceeds
  PROVE  Ordered'
  <1> DEFINE m == queue[1]
  <1>1. /\ MutationSucceeds /\ Len(queue) \in Nat /\ Len(queue) # 0 /\ Len(queue') \in Nat
        /\ Len(queue') = Len(queue) - 1 /\ Head(queue) = m /\ m \in Mutations
        /\ Len(queue') = 0 => Last = m
    BY EndedQueue DEF SaveSucceeds
  <1>2. 1 \in 1 .. Len(queue) /\ (Len(queue') = 0 <=> Len(queue) = 1)
    BY <1>1
  <1>3. record' = Executed(m) /\ coord' = Finish(coord, Len(queue')) /\ (Len(queue') # 0 => coord' = coord)
    BY <1>1 DEF MutationSucceeds, Finish
  <1>4. record'.status = "RELEASE" <=> Publishes(m)
    BY <1>1, <1>3 DEF Executed, Publishes, Mutations, TypeOK, ConsoleTypes, Records
  <1>5. phase = "closed" => phase' = "closed"
    BY EndedPhase
  <1>6. QueueForm'
    BY <1>1, <1>3, EndedQueueForm DEF Ordered
  <1>7. ASSUME OrderForm, Len(queue') # 0 PROVE OrderForm'
    <2>1. status' = status
      <3>1. status = "DRAFT" => ~Publishes(m)
        BY <1>2, <1>7 DEF PlaceForm, NamingForm
      <3> QED
        BY <1>1, <3>1 DEF SaveSucceeds, Accepted, TypeOK, EditorTypes
    <2> QED
      BY <1>1, <1>3, <1>4, <1>5, <1>7, <2>1, EndedOrder
  <1>8. ASSUME OrderForm, Len(queue') = 0 PROVE OrderForm'
    <2> SUFFICES ASSUME status' = "RELEASE", phase' # "closed"
                 PROVE  (coord'.publishDesired <=> record'.status = "RELEASE") /\ Retained(coord)'
      BY <1>8, IdleOrder
    <2>1. CASE Accepted(m)
      <3>1. Publishes(m) /\ coord.publishDesired
        BY <2>1 DEF Accepted, IsCurrent, TypeOK, ConsoleTypes, Coordinators, Publishes
      <3>2. coord' = FreshState
        BY <1>3, <1>8, <3>1 DEF Finish
      <3> QED
        BY <1>4, <3>1, <3>2 DEF FreshState, Retained
    <2>2. CASE ~Accepted(m)
      <3>1. status = "RELEASE" /\ phase # "closed"
        BY <1>1, <1>5, <2>2 DEF SaveSucceeds
      <3>2. (coord.publishDesired <=> Publishes(m)) /\ Retained(coord)
        <4>1. Released(Len(queue)) <=> Publishes(m)
          BY <1>1, <1>8 DEF Released, Last, Publishes
        <4> QED
          BY <1>8, <3>1, <4>1 DEF OrderForm
      <3>3. coord' = coord \/ (coord' = FreshState /\ coord.publishDesired)
        BY <1>3, <3>2 DEF Finish, Retained
      <3> QED
        BY <1>4, <3>2, <3>3 DEF FreshState, Retained
    <2> QED
      BY <2>1, <2>2
  <1>9. budget'.tangled = budget.tangled
    BY DEF SaveSucceeds, TypeOK, BudgetTypes, Budgets
  <1> QED
    BY <1>6, <1>7, <1>8, <1>9 DEF Ordered

\* So does one that fails: an automatic save changes nothing, a command with
\* others behind it is left to them, and the last one goes back to the state
\* it found.
LEMMA FailsOrder ==
  ASSUME TypeOK, TypeOK', Ordered, PlaceForm, SaveFails
  PROVE  Ordered'
  <1> DEFINE m == queue[1]
  <1>1. /\ MutationFails /\ Len(queue) \in Nat /\ Len(queue) # 0 /\ Len(queue') \in Nat
        /\ Len(queue') = Len(queue) - 1 /\ Head(queue) = m /\ m \in Mutations
        /\ Len(queue') = 0 => Last = m
    BY EndedQueue DEF SaveFails
  <1>2. 1 \in 1 .. Len(queue) /\ (Len(queue') = 0 <=> Len(queue) = 1)
    BY <1>1
  <1>3. /\ status' = status /\ coord' = Finish(RolledBack(m), Len(queue')) /\ (Len(queue') # 0 => coord' = RolledBack(m))
        /\ record' = record \/ record' = Executed(m)
    BY <1>1 DEF MutationFails, SaveFails, Finish
  <1>4. RolledBack(m).generation = coord.generation
    BY DEF RolledBack, TypeOK, ConsoleTypes, Coordinators
  <1>5. phase = "closed" => phase' = "closed"
    BY EndedPhase
  <1>6. QueueForm'
    BY <1>1, <1>3, <1>4, EndedQueueForm DEF Ordered
  <1>7. ASSUME OrderForm, m.kind = "automatic" PROVE OrderForm'
    <2>1. RolledBack(m) = coord /\ Publishes(m)
      BY <1>7 DEF RolledBack, Publishes
    <2>2. record.status = "RELEASE" /\ record'.status = "RELEASE"
      <3>1. record.status = "RELEASE"
        BY <1>2, <1>7 DEF OrderForm, Released
      <3> QED
        BY <1>3, <1>7, <2>1, <3>1 DEF Executed, Publishes
    <2>3. CASE Len(queue') # 0
      BY <1>1, <1>3, <1>5, <1>7, <2>1, <2>2, <2>3, EndedOrder
    <2>4. CASE Len(queue') = 0
      <3> SUFFICES ASSUME status = "RELEASE", phase # "closed"
                   PROVE  coord'.publishDesired /\ Retained(coord)'
        BY <1>3, <1>5, <2>2, <2>4, IdleOrder
      <3>1. coord.publishDesired
        <4>1. Released(Len(queue))
          BY <1>1, <2>1, <2>4 DEF Released, Last, Publishes
        <4> QED
          BY <1>7, <4>1 DEF OrderForm
      <3> QED
        BY <1>3, <2>1, <2>4, <3>1 DEF Finish, FreshState, Retained
    <2> QED
      BY <2>3, <2>4
  <1>8. ASSUME OrderForm, m.kind # "automatic", record' = record, budget.failing = 0,
               Len(queue) > 1 => queue[2].kind # "automatic"
        PROVE  OrderForm'
    <2>1. CASE Len(queue') # 0
      <3>1. 2 \in 1 .. Len(queue) /\ queue[2].kind # "automatic" /\ 1 < 2
        BY <1>1, <1>8, <2>1
      <3>2. m.generation < queue[2].generation /\ queue[2].generation <= coord.generation
        BY <1>2, <3>1 DEF Ordered, QueueForm
      <3>3. m.generation \in Nat /\ queue[2].generation \in Nat /\ coord.generation \in Nat
        BY <1>1, <3>1, Chained DEF Mutations, TypeOK, ConsoleTypes, Coordinators
      <3>4. RolledBack(m) = coord
        BY <3>2, <3>3 DEF RolledBack, IsCurrent
      <3>5. budget'.failing # 0
        BY <1>1, <1>2, <1>8, <2>1, FailureCounted
      <3> QED
        BY <1>1, <1>3, <1>5, <1>8, <2>1, <3>1, <3>4, <3>5, EndedOrder
    <2>2. CASE Len(queue') = 0
      <3> SUFFICES ASSUME status = "RELEASE", phase # "closed"
                   PROVE  (coord'.publishDesired <=> record.status = "RELEASE") /\ Retained(coord)'
        BY <1>3, <1>5, <1>8, <2>2, IdleOrder
      <3>1. Len(queue) = 1 /\ Last = m
        BY <1>1, <1>2, <2>2
      <3>2. /\ coord.publishDesired <=> Publishes(m)
            /\ Retained(m.before)
            /\ m.before.publishDesired <=> record.status = "RELEASE"
        BY <1>2, <1>8, <3>1 DEF OrderForm, Released, Publishes
      <3>3. IsCurrent(m)
        BY <1>1, <3>1, <3>2 DEF IsCurrent, Ordered, QueueForm, Publishes, TypeOK, ConsoleTypes, Coordinators
      <3>4. /\ RolledBack(m).publishDesired = m.before.publishDesired
            /\ RolledBack(m).retainDraftBlock = m.before.retainDraftBlock
        BY <1>1, <1>8, <3>3 DEF RolledBack, TypeOK, ConsoleTypes, Coordinators, Mutations
      <3> QED
        BY <1>3, <2>2, <3>2, <3>4 DEF Finish, FreshState, Retained
    <2> QED
      BY <2>1, <2>2
  <1>9. budget'.tangled = 0 =>
          /\ budget.tangled = 0
          /\ m.kind # "automatic" =>
               record' = record /\ budget.failing = 0 /\ (Len(queue) > 1 => queue[2].kind # "automatic")
    BY <1>1, FailureCounted
  <1> QED
    BY <1>6, <1>7, <1>8, <1>9 DEF Ordered

\* One step of the tab keeps the order.
LEMMA OrderStep ==
  ASSUME TypeOK, TypeOK', Ordered, PlaceForm, [Next]_vars
  PROVE  Ordered'
  <1> DEFINE Kept == status' = status /\ (phase = "closed" => phase' = "closed")
                     /\ budget'.tangled = budget.tangled /\ budget'.failing = budget.failing
  <1>1. ASSUME UNCHANGED consoleVars, Kept PROVE Ordered'
    BY <1>1, Zenon DEF consoleVars, Ordered, QueueForm, OrderForm, Last, Released, Retained
  <1>2. ASSUME NEW m, Enqueues(m), UNCHANGED record, Kept, m.kind = "delete" => phase' = "closed" PROVE Ordered'
    BY <1>2, ChainedOrder
  <1>3. ASSUME NEW what \in {"edits", "commands", "faults"}, Count(what)
        PROVE  budget'.tangled = budget.tangled /\ budget'.failing = budget.failing
    BY <1>3 DEF Count, TypeOK, BudgetTypes, Budgets
  <1>4. ASSUME NEW a \in {"none", "close", "flush", "name"}, ManualSave(text, a), Count("commands"), status' = status,
               phase = "closed" => phase' = "closed"
        PROVE  Ordered'
    <2>1. PICK m : Enqueues(m) /\ m.kind = "manual"
      BY <1>4, ManualEnqueues
    <2> QED
      BY <1>2, <1>3, <1>4, <2>1, Zenon DEF ManualSave
  <1>5. ASSUME NEW a \in {"none", "close", "flush", "name"}, AutomaticSave(text, a), status = "RELEASE",
               ~AutomaticBlocked, budget' = budget, status' = status, phase # "closed"
        PROVE  Ordered'
    <2>1. PICK m : Enqueues(m) /\ m.kind = "automatic"
      BY <1>5, AutomaticEnqueues
    <2> QED
      BY <1>2, <1>5, <2>1 DEF AutomaticSave
  <1>6. ASSUME NEW t \in Texts, Type(t) PROVE Ordered'
    BY <1>1, <1>3, <1>6, Zenon DEF Type
  <1>7. CASE Load
    BY <1>1, <1>7 DEF Load
  <1>8. ASSUME NEW g \in {"close", "exit"}, Leave(g) PROVE Ordered'
    BY <1>1, <1>8 DEF Leave
  <1>9. CASE DecideCancel \/ DecideDiscard \/ CancelInitialSave
    BY <1>1, <1>9 DEF DecideCancel, DecideDiscard, CancelInitialSave
  <1>10. CASE DecideSave
    BY <1>1, <1>4, <1>10 DEF DecideSave
  <1>11. CASE ExitOn \/ (\E ok \in BOOLEAN : ConfirmExit(ok)) \/ FinishExit
    BY <1>1, <1>11 DEF ExitOn, ConfirmExit, FinishExit
  <1>12. CASE SaveFile \/ UNCHANGED vars
    BY <1>1, <1>12 DEF SaveFile, vars, editorVars
  <1>13. CASE FileSucceeds \/ FileFails
    <2>1. UNCHANGED <<consoleVars, status>> /\ (phase = "closed" => phase' = "closed")
      BY <1>13 DEF FileSucceeds, FileFails, FileAnswered
    <2>2. budget'.tangled = budget.tangled /\ budget'.failing = budget.failing
      BY <1>3, <1>13 DEF FileSucceeds, FileFails
    <2> QED
      BY <1>1, <2>1, <2>2
  <1>14. CASE AutoSave \/ ExitConsole
    <2>1. phase # "closed" /\ UNCHANGED <<status, budget>>
      BY <1>14 DEF AutoSave, ExitConsole, Ended
    <2>2. \/ UNCHANGED consoleVars
          \/ \E a \in {"none", "flush"} : AutomaticSave(text, a) /\ status = "RELEASE" /\ ~AutomaticBlocked
      BY <1>14 DEF AutoSave, ExitConsole, Persist
    <2> QED
      BY <1>1, <1>5, <2>1, <2>2
  <1>15. CASE SaveConsole \/ ConfirmInitialSave
    BY <1>1, <1>4, <1>15 DEF SaveConsole, ConfirmInitialSave
  <1>16. CASE RemoveSaved
    <2>1. PICK k \in {"keepDraft", "delete"} : Removal(k) /\ (k = "delete" => phase = "closed")
      BY <1>16 DEF RemoveSaved
    <2>2. PICK m : Enqueues(m) /\ m.kind = k
      BY <2>1, RemovalEnqueues
    <2>3. Count("commands") /\ UNCHANGED <<status, phase, record>>
      BY <1>16, <2>1 DEF RemoveSaved, Removal
    <2> QED
      BY <1>2, <1>3, <2>1, <2>2, <2>3
  <1>17. CASE SaveSucceeds
    BY <1>17, SucceedsOrder
  <1>18. CASE SaveFails
    BY <1>18, FailsOrder
  <1> QED
    BY <1>6, <1>7, <1>8, <1>9, <1>10, <1>11, <1>12, <1>13, <1>14, <1>15, <1>16, <1>17, <1>18 DEF Next
-----------------------------------------------------------------------------
(* Where the tab is.                                                       *)

\* A chained mutation: of a saved console, the first save of one that was
\* never saved, or a removal.
LEMMA ChainedPlace ==
  ASSUME TypeOK, PlaceForm, NEW m, Enqueues(m), UNCHANGED <<record, status, kind, loading>>,
         inFlight' = inFlight, kind = "console", phase' # "waiting",
         \/ status = "RELEASE" /\ phase' # "naming" /\ m.awaits # "name"
         \/ status = "DRAFT" /\ phase' = "naming" /\ ~NameSaving /\ m.awaits = "name" /\ m.kind = "manual"
         \/ status = "DRAFT" /\ phase' = phase /\ phase # "naming" /\ ~Publishes(m) /\ m.awaits # "name",
         phase = "closed" => phase' = "closed",
         m.kind = "delete" => phase' = "closed"
  PROVE  PlaceForm'
  <1>1. /\ Len(queue) \in Nat /\ Len(queue') = Len(queue) + 1
        /\ \A i \in 1 .. Len(queue') : (i \in 1 .. Len(queue) /\ queue'[i] = queue[i]) \/ (i = Len(queue) + 1 /\ queue'[i] = m)
    BY ChainedQueue
  <1>2. NamingForm'
    <2>1. ASSUME NEW i \in 1 .. Len(queue'), queue'[i].awaits = "name" PROVE status' = "DRAFT"
      BY <1>1, <2>1 DEF PlaceForm, NamingForm
    <2>2. phase' = "naming" => status' = "DRAFT"
      BY DEF TypeOK, EditorTypes
    <2>3. ASSUME status' = "DRAFT", NEW i \in 1 .. Len(queue'), Publishes(queue'[i])
          PROVE  /\ i = Len(queue') /\ queue'[i].kind = "manual" /\ queue'[i].awaits = "name"
                 /\ phase' = "naming" /\ coord'.publishDesired
      <3>1. ASSUME i \in 1 .. Len(queue), queue'[i] = queue[i] PROVE FALSE
        BY <2>3, <3>1 DEF PlaceForm, NamingForm, NameSaving
      <3>2. i = Len(queue) + 1 /\ queue'[i] = m
        BY <1>1, <2>3, <3>1
      <3> QED
        BY <1>1, <2>3, <3>2 DEF Enqueues
    <2> QED
      BY <2>1, <2>2, <2>3 DEF NamingForm, Publishes
  <1>3. ClosedForm'
    <2>1. ASSUME NEW i \in 1 .. Len(queue'), queue'[i].kind = "delete" PROVE phase' = "closed"
      BY <1>1, <2>1 DEF PlaceForm, ClosedForm
    <2> QED
      BY <2>1 DEF PlaceForm, ClosedForm
  <1>4. KindForm'
    BY DEF PlaceForm, KindForm, Draining
  <1> QED
    BY <1>2, <1>3, <1>4 DEF PlaceForm

\* The first save of a console is current when it ends.
LEMMA NamedAccepted ==
  ASSUME TypeOK, Ordered, PlaceForm, Len(queue) # 0, status = "DRAFT", Publishes(queue[1])
  PROVE  /\ Len(queue) = 1 /\ queue[1].awaits = "name" /\ queue[1].kind = "manual" /\ phase = "naming"
         /\ Accepted(queue[1])
  <1>1. Len(queue) \in Nat /\ 1 \in 1 .. Len(queue)
    BY Chained DEF TypeOK, ConsoleTypes
  <1>2. Len(queue) = 1 /\ queue[1].awaits = "name" /\ queue[1].kind = "manual" /\ phase = "naming" /\ coord.publishDesired
    BY <1>1 DEF PlaceForm, NamingForm
  <1>3. queue[1].generation = coord.generation
    BY <1>2 DEF Ordered, QueueForm, Last
  <1> QED
    BY <1>2, <1>3 DEF Accepted, IsCurrent, Publishes, TypeOK, ConsoleTypes, Coordinators

\* The end of a mutation that was not the last one leaves the coordinator
\* alone where a first save is pending behind it.
LEMMA NamingWaits ==
  ASSUME TypeOK, Ordered, PlaceForm, SaveSucceeds \/ SaveFails, status = "DRAFT",
         NEW i \in 2 .. Len(queue), Publishes(queue[i])
  PROVE  coord' = coord
  <1>1. /\ Len(queue) \in Nat /\ Len(queue) # 0 /\ Len(queue') \in Nat
        /\ Len(queue') = Len(queue) - 1 /\ Head(queue) = queue[1] /\ queue[1] \in Mutations
    <2>1. MutationSucceeds \/ MutationFails
      BY Zenon DEF SaveSucceeds, SaveFails
    <2> QED
      BY <2>1, EndedQueue
  <1>2. i \in 1 .. Len(queue) /\ 1 \in 1 .. Len(queue) /\ 1 < i /\ Len(queue') # 0
    BY <1>1
  <1>3. queue[i].kind = "manual"
    BY <1>2 DEF PlaceForm, NamingForm
  <1>4. queue[1].generation < queue[i].generation /\ queue[i].generation <= coord.generation
    BY <1>2, <1>3 DEF Ordered, QueueForm
  <1>5. queue[1].generation \in Nat /\ queue[i].generation \in Nat /\ coord.generation \in Nat
    BY <1>1, <1>2, Chained DEF Mutations, TypeOK, ConsoleTypes, Coordinators
  <1>6. RolledBack(queue[1]) = coord
    BY <1>4, <1>5 DEF RolledBack, IsCurrent
  <1> QED
    BY <1>1, <1>2, <1>6, Zenon DEF SaveSucceeds, SaveFails, MutationSucceeds, MutationFails, Finish

\* The end of a mutation.
LEMMA EndedPlace ==
  ASSUME TypeOK, TypeOK', Ordered, PlaceForm, SaveSucceeds \/ SaveFails
  PROVE  PlaceForm'
  <1> DEFINE m == queue[1]
  <1>1. /\ Len(queue) \in Nat /\ Len(queue) # 0 /\ Len(queue') \in Nat
        /\ Len(queue') = Len(queue) - 1 /\ Head(queue) = m /\ m \in Mutations
        /\ \A i \in 1 .. Len(queue') : i + 1 \in 2 .. Len(queue) /\ i + 1 \in 1 .. Len(queue) /\ queue'[i] = queue[i + 1]
        /\ 1 \in 1 .. Len(queue)
    <2>1. MutationSucceeds \/ MutationFails
      BY Zenon DEF SaveSucceeds, SaveFails
    <2> QED
      BY <2>1, EndedQueue
  <1>2. UNCHANGED <<kind, inFlight, loading>> /\ kind = "console"
    BY <1>1, Zenon DEF SaveSucceeds, SaveFails, fileVars, PlaceForm, KindForm, TypeOK, EditorTypes
  <1>3. phase = "closed" => phase' = "closed"
    BY EndedPhase
  <1>4. ClosedForm'
    <2>1. record' = record \/ record' = Executed(m)
      BY <1>1, Zenon DEF SaveSucceeds, SaveFails, MutationSucceeds, MutationFails
    <2>2. m.kind = "delete" => phase = "closed"
      BY <1>1 DEF PlaceForm, ClosedForm
    <2>3. record'.status = "DELETED" => phase = "closed"
      BY <1>1, <2>1, <2>2 DEF Executed, Publishes, Mutations, PlaceForm, ClosedForm, TypeOK, ConsoleTypes, Records
    <2>4. ASSUME NEW i \in 1 .. Len(queue') PROVE queue'[i].kind = "delete" => phase = "closed"
      BY <1>1, <2>4 DEF PlaceForm, ClosedForm
    <2> QED
      BY <1>3, <2>3, <2>4 DEF ClosedForm
  <1>5. CASE status = "DRAFT" /\ Publishes(m)
    <2>1. Len(queue) = 1 /\ m.awaits = "name" /\ phase = "naming" /\ Accepted(m)
      BY <1>1, <1>5, NamedAccepted
    <2>2. 1 .. Len(queue') = {}
      BY <1>1, <2>1
    <2>3. \/ status' = "RELEASE" /\ phase' \in {"open", "closed"}
          \/ status' = "DRAFT" /\ phase' = "naming"
      BY <1>1, <1>5, <2>1 DEF SaveSucceeds, SaveFails, Awaited
    <2> QED
      BY <1>2, <1>4, <1>5, <2>2, <2>3 DEF PlaceForm, NamingForm, KindForm, Draining
  <1>6. CASE status = "DRAFT" /\ ~Publishes(m)
    <2>1. m.awaits = "none" /\ ~Accepted(m)
      BY <1>1, <1>6 DEF Ordered, QueueForm, Accepted
    <2>2. phase' = phase /\ status' = status
      BY <1>1, <2>1 DEF SaveSucceeds, SaveFails, Awaited
    <2>3. NamingForm'
      <3>1. ASSUME NEW i \in 1 .. Len(queue'), Publishes(queue'[i])
            PROVE  /\ i = Len(queue') /\ queue'[i].kind = "manual" /\ queue'[i].awaits = "name"
                   /\ phase' = "naming" /\ coord'.publishDesired
        <4>1. i + 1 \in 2 .. Len(queue) /\ i + 1 \in 1 .. Len(queue) /\ queue'[i] = queue[i + 1]
          BY <1>1
        <4>2. /\ i + 1 = Len(queue) /\ queue[i + 1].kind = "manual" /\ queue[i + 1].awaits = "name"
              /\ phase = "naming" /\ coord.publishDesired
          BY <1>6, <3>1, <4>1 DEF PlaceForm, NamingForm
        <4>3. coord' = coord
          BY <1>6, <3>1, <4>1, NamingWaits
        <4> QED
          BY <1>1, <2>2, <4>1, <4>2, <4>3
      <3> QED
        BY <1>6, <2>2, <3>1 DEF NamingForm, Publishes
    <2> QED
      BY <1>2, <1>4, <1>6, <2>2, <2>3 DEF PlaceForm, KindForm, Draining
  <1>7. CASE status = "RELEASE"
    <2>1. m.awaits # "name" /\ phase # "naming" /\ phase # "waiting"
      BY <1>1, <1>2, <1>7 DEF PlaceForm, NamingForm, KindForm
    <2>2. phase' \in {phase, "open", "closed", "exiting"} /\ status' = "RELEASE"
      BY <1>1, <1>7, <2>1 DEF SaveSucceeds, SaveFails, Awaited
    <2>3. ASSUME NEW i \in 1 .. Len(queue') PROVE queue'[i].awaits # "name"
      BY <1>1, <1>7, <2>3 DEF PlaceForm, NamingForm
    <2> QED
      BY <1>2, <1>4, <2>1, <2>2, <2>3 DEF PlaceForm, NamingForm, KindForm, Draining
  <1> QED
    BY <1>5, <1>6, <1>7 DEF TypeOK, EditorTypes

\* A step that leaves the console alone.
LEMMA QuietPlace ==
  ASSUME TypeOK, PlaceForm, UNCHANGED <<consoleVars, status, kind>>, loading' \in {loading, NoText},
         phase' = "naming" => status = "DRAFT",
         phase = "naming" => phase' = "naming" \/ ~NameSaving,
         phase = "closed" => phase' = "closed",
         kind = "file" => phase' # "flushing",
         kind = "console" => inFlight' = inFlight /\ phase' # "waiting"
  PROVE  PlaceForm'
  <1>1. NamingForm'
    BY DEF consoleVars, PlaceForm, NamingForm, NameSaving
  <1>2. ClosedForm'
    BY DEF consoleVars, PlaceForm, ClosedForm
  <1>3. KindForm'
    BY DEF consoleVars, PlaceForm, KindForm, Draining
  <1> QED
    BY <1>1, <1>2, <1>3 DEF PlaceForm

\* One step of the tab keeps its place in order.
LEMMA PlaceStep ==
  ASSUME TypeOK, TypeOK', Ordered, PlaceForm, [Next]_vars
  PROVE  PlaceForm'
  <1>1. ASSUME NEW t \in Texts, Type(t) PROVE PlaceForm'
    BY <1>1, QuietPlace, Zenon DEF Type, Editable, PlaceForm, KindForm, NamingForm, fileVars
  <1>2. ASSUME NEW g \in {"close", "exit"}, Leave(g) PROVE PlaceForm'
    <2>1. phase' \in {"waiting", "asking", "closed", "exiting"} /\ (phase' = "waiting" => kind = "file")
      BY <1>2 DEF Leave, LeaveWait, AfterPending, Through
    <2> QED
      BY <1>2, <2>1, QuietPlace DEF Leave, fileVars
  <1>3. CASE DecideCancel \/ DecideDiscard
    <2>1. phase' \in {"open", "closed", "exiting"}
      BY <1>3 DEF DecideCancel, DecideDiscard, Through
    <2> QED
      BY <1>3, <2>1, QuietPlace DEF DecideCancel, DecideDiscard, fileVars
  <1>4. CASE CancelInitialSave
    BY <1>4, QuietPlace DEF CancelInitialSave, fileVars
  <1>5. CASE DecideSave
    <2>1. CASE kind = "file"
      BY <1>5, <2>1, QuietPlace DEF DecideSave
    <2>2. CASE kind = "console" /\ status = "DRAFT"
      BY <1>5, <2>2, QuietPlace DEF DecideSave, fileVars
    <2>3. CASE kind = "console" /\ status = "RELEASE"
      <3>1. /\ ManualSave(text, "close") /\ phase = "asking" /\ phase' = "saving"
            /\ UNCHANGED <<kind, loading, status, record, inFlight>>
        BY <1>5, <2>3, Zenon DEF DecideSave, ManualSave, fileVars
      <3>2. PICK m : Enqueues(m) /\ m.kind = "manual" /\ m.awaits = "close"
        BY <3>1, ManualEnqueues
      <3> QED
        BY <2>3, <3>1, <3>2, ChainedPlace
    <2> QED
      BY <2>1, <2>2, <2>3 DEF TypeOK, EditorTypes
  <1>6. CASE ExitOn \/ (\E ok \in BOOLEAN : ConfirmExit(ok)) \/ FinishExit
    <2>1. phase \notin {"closed", "naming"} /\ phase' \in {"open", "confirming", "finishing", "exited"}
      BY <1>6 DEF ExitOn, ConfirmExit, FinishExit
    <2> QED
      BY <1>6, <2>1, QuietPlace DEF ExitOn, ConfirmExit, FinishExit, fileVars
  <1>7. CASE SaveFile
    BY <1>7, QuietPlace, Zenon DEF SaveFile, editorVars, PlaceForm, KindForm, NamingForm
  <1>8. CASE UNCHANGED vars
    BY <1>8, QuietPlace, Zenon DEF vars, editorVars, fileVars, PlaceForm, KindForm, NamingForm
  <1>9. CASE FileSucceeds \/ FileFails
    <2>1. Draining /\ FileAnswered
      BY <1>9, Zenon DEF FileSucceeds, FileFails, Written, Refused
    <2>2. kind = "file" /\ status = "RELEASE" /\ phase # "flushing" /\ phase # "naming"
      BY <2>1, Zenon DEF PlaceForm, KindForm, NamingForm, TypeOK, EditorTypes
    <2>3. /\ phase' \in {phase, "closed", "exiting", "open", "asking"}
          /\ phase = "closed" => phase' = "closed"
      BY <2>1 DEF FileAnswered, Through, AfterPending
    <2>4. UNCHANGED <<consoleVars, status, kind, loading>>
      BY <2>1 DEF FileAnswered
    <2> QED
      BY <2>2, <2>3, <2>4, QuietPlace
  <1>10. CASE AutoSave \/ ExitConsole
    <2>1. /\ kind = "console" /\ UNCHANGED <<kind, loading, status, record, inFlight>> /\ phase \notin {"closed", "exited"}
          /\ phase' \in {phase, "exiting", "flushing"}
          /\ ExitConsole => phase = "open"
          /\ phase' # phase => phase = "open"
      BY <1>10, Zenon DEF AutoSave, ExitConsole, Persist, Ended, fileVars, consoleVars, AutomaticSave
    <2>2. CASE UNCHANGED consoleVars
      BY <2>1, <2>2, QuietPlace, Zenon DEF PlaceForm, KindForm, NamingForm
    <2>3. CASE \E a \in {"none", "flush"} : AutomaticSave(text, a) /\ status = "RELEASE" /\ ~AutomaticBlocked
      <3>1. PICK a \in {"none", "flush"} : AutomaticSave(text, a) /\ status = "RELEASE" /\ ~AutomaticBlocked
        BY <2>3
      <3>2. PICK m : Enqueues(m) /\ m.kind = "automatic" /\ m.awaits = a
        BY <2>1, <3>1, AutomaticEnqueues
      <3>3. phase' # "naming" /\ phase' # "waiting"
        BY <2>1, <3>1 DEF PlaceForm, NamingForm, KindForm
      <3> QED
        BY <2>1, <3>1, <3>2, <3>3, ChainedPlace
    <2> QED
      BY <1>10, <2>2, <2>3 DEF AutoSave, ExitConsole, Persist
  <1>11. CASE SaveConsole
    <2>1. CASE status = "DRAFT"
      BY <1>11, <2>1, QuietPlace DEF SaveConsole, fileVars
    <2>2. CASE status = "RELEASE"
      <3>1. /\ ManualSave(text, "none") /\ kind = "console" /\ Editable
            /\ UNCHANGED <<kind, loading, status, record, inFlight, phase>>
        BY <1>11, <2>2, Zenon DEF SaveConsole, ManualSave, fileVars
      <3>2. PICK m : Enqueues(m) /\ m.kind = "manual" /\ m.awaits = "none"
        BY <3>1, ManualEnqueues
      <3>3. phase # "naming" /\ phase # "waiting"
        BY <3>1 DEF Editable, PlaceForm, KindForm
      <3> QED
        BY <2>2, <3>1, <3>2, <3>3, ChainedPlace
    <2> QED
      BY <2>1, <2>2 DEF TypeOK, EditorTypes
  <1>12. CASE ConfirmInitialSave
    <2>1. /\ ManualSave(text, "name") /\ phase = "naming"
          /\ UNCHANGED <<kind, loading, status, record, inFlight, phase>>
      BY <1>12 DEF ConfirmInitialSave, ManualSave, fileVars
    <2>2. PICK m : Enqueues(m) /\ m.kind = "manual" /\ m.awaits = "name"
      BY <2>1, ManualEnqueues
    <2>3. ~NameSaving /\ status = "DRAFT" /\ kind = "console"
      BY <1>12, <2>1, Zenon DEF ConfirmInitialSave, PlaceForm, NamingForm, KindForm, TypeOK, EditorTypes
    <2> QED
      BY <2>1, <2>2, <2>3, ChainedPlace
  <1>13. CASE RemoveSaved
    <2>1. PICK k \in {"keepDraft", "delete"} : Removal(k) /\ (k = "delete" => phase = "closed")
      BY <1>13 DEF RemoveSaved
    <2>2. PICK m : Enqueues(m) /\ m.kind = k /\ m.awaits = "none"
      BY <2>1, RemovalEnqueues
    <2>3. /\ ~Publishes(m) /\ kind = "console" /\ phase # "naming" /\ phase # "waiting"
          /\ UNCHANGED <<kind, loading, status, record, inFlight, phase>>
      BY <1>13, <2>1, <2>2, Zenon DEF RemoveSaved, Removal, Editable, Publishes, fileVars, PlaceForm, KindForm
    <2> QED
      BY <2>1, <2>2, <2>3, ChainedPlace DEF TypeOK, EditorTypes
  <1>14. CASE SaveSucceeds \/ SaveFails
    BY <1>14, EndedPlace
  <1>15. CASE Load
    BY <1>15, QuietPlace DEF Load, Ended, fileVars, PlaceForm, KindForm, NamingForm
  <1> QED
    BY <1>1, <1>2, <1>3, <1>4, <1>5, <1>6, <1>7, <1>8, <1>9, <1>10, <1>11, <1>12, <1>13, <1>14, <1>15 DEF Next
-----------------------------------------------------------------------------
(* What is stored when the tab leaves.                                     *)

\* The user was asked, threw nothing away and changed nothing afterwards.
Calm == asks /\ fate \intersect {"discarded", "typed"} = {}

Leaving == {"closed", "exiting", "confirming", "finishing", "exited"}

\* A file: a baseline that is not stale is what is on disk; the save a closing
\* tab waits for is in the queue, and the queue's newest content is the text.
BaselineOnDisk == ~stale => sync = disk.text

CloserQueued == phase = "saving" => closer \in inFlight.waiters \union pending.waiters

NewestIsText ==
  phase = "saving" /\ Calm =>
    /\ pending.waiters = {} => inFlight.text = text
    /\ pending.waiters # {} => pending.text = text

TextOnDisk ==
  phase \in Leaving /\ Calm =>
    /\ ~stale => disk.text = text
    /\ Draining => inFlight.text = text
    /\ pending.waiters # {} => pending.text = text

FileKeeps == kind = "file" => BaselineOnDisk /\ CloserQueued /\ NewestIsText /\ TextOnDisk

\* A write that ends, well or badly.
LEMMA AnsweredKeeps ==
  ASSUME TypeOK, FileInv, FileInv', PlaceForm, FileKeeps, FileSucceeds \/ FileFails
  PROVE  FileKeeps'
  <1>1. Draining /\ FileAnswered /\ UNCHANGED <<kind, asks, text, closer, fate>> /\ (Calm' <=> Calm)
    <2>1. Draining /\ FileAnswered /\ UNCHANGED <<kind, asks, text, closer, fate>>
      BY Zenon DEF FileSucceeds, FileFails, Written, Refused, FileAnswered
    <2> QED
      BY <2>1 DEF Calm
  <1>2. kind = "file" /\ status = "RELEASE"
    BY <1>1 DEF PlaceForm, KindForm, TypeOK, EditorTypes
  <1>3. BaselineOnDisk /\ CloserQueued /\ NewestIsText /\ TextOnDisk
    BY <1>2 DEF FileKeeps
  <1>4. PICK ok \in BOOLEAN : /\ AfterWrite(ok) /\ asked' = asked
                              /\ disk'.text = inFlight.text \/ (disk' = disk /\ ~ok)
                              /\ ok => disk'.text = inFlight.text
    <2>1. CASE FileSucceeds
      <3>1. AfterWrite(TRUE) /\ asked' = asked /\ disk'.text = inFlight.text
        BY <2>1 DEF FileSucceeds, Written
      <3> QED
        BY <3>1
    <2>2. CASE FileFails
      <3>1. AfterWrite(FALSE) /\ asked' = asked /\ (disk'.text = inFlight.text \/ disk' = disk)
        <4>1. AfterWrite(FALSE) /\ asked' = asked
          BY <2>2, Zenon DEF FileFails, Refused
        <4>2. disk' \in {disk, [text |-> inFlight.text, request |-> inFlight.request]}
          BY <2>2, Zenon DEF FileFails, Refused
        <4>3. disk'.text = inFlight.text \/ disk' = disk
          BY <4>2
        <4> QED
          BY <4>1, <4>3, Zenon
      <3> QED
        BY <3>1
    <2> QED
      BY <2>1, <2>2
  <1>5. saved' # saved => disk'.text = inFlight.text
    BY <1>4, Zenon DEF AfterWrite, HandOn, Answer
  <1>6. sync' = IF saved' # saved THEN inFlight.text ELSE sync
    BY <1>1 DEF FileAnswered
  <1>7. ~stale' => saved' # saved \/ (~stale /\ disk'.text = disk.text)
    <2>1. Rebased(saved' # saved, disk'.text # disk.text)
      BY <1>1 DEF FileAnswered
    <2> QED
      BY <2>1 DEF Rebased
  <1>8. BaselineOnDisk'
    BY <1>3, <1>5, <1>6, <1>7 DEF BaselineOnDisk
  <1>9. CloserQueued'
    <2> SUFFICES ASSUME phase' = "saving" PROVE closer \in inFlight'.waiters \union pending'.waiters
      BY <1>1 DEF CloserQueued
    <2>1. phase = "saving" /\ closer \notin saved' /\ closer \notin failed'
      BY <1>1 DEF FileAnswered, Through, AfterPending
    <2>2. closer \in 1 .. asked'
      BY <1>3, <1>4, <2>1, Zenon DEF CloserQueued, FileInv, NoWaiterLost
    <2>3. 1 .. asked' = saved' \union failed' \union inFlight'.waiters \union pending'.waiters
      BY DEF FileInv, NoWaiterLost
    <2> QED
      BY <2>1, <2>2, <2>3
  <1>10. phase = "saving" => closer \notin saved /\ closer \notin failed
    BY <1>3, Zenon DEF CloserQueued, FileInv, NoWaiterLost
  <1>11. CASE pending.waiters # {}
    <2>1. /\ saved' = saved /\ failed' = failed /\ inFlight'.text = pending.text /\ pending'.waiters = {}
          /\ inFlight'.waiters # {}
      BY <1>1, <1>4, <1>11 DEF AfterWrite, HandOn, NoBatch, Draining, FileInv, FileTypeOK, Batches
    <2>2. phase' = phase
      BY <1>1, <1>10, <2>1 DEF FileAnswered
    <2>3. NewestIsText'
      BY <1>1, <1>3, <1>11, <2>1, <2>2 DEF NewestIsText
    <2>4. TextOnDisk'
      <3> SUFFICES ASSUME phase \in Leaving, Calm PROVE (~stale' => disk'.text = text) /\ inFlight'.text = text
        BY <1>1, <2>1, <2>2 DEF TextOnDisk, Leaving
      <3>1. (~stale => disk.text = text) /\ inFlight.text = text /\ pending.text = text
        BY <1>1, <1>3, <1>11 DEF TextOnDisk
      <3> QED
        BY <1>7, <2>1, <3>1
    <2> QED
      BY <1>8, <1>9, <2>3, <2>4 DEF FileKeeps
  <1>12. CASE pending.waiters = {}
    <2>1. ~Draining' /\ inFlight'.waiters = {} /\ pending'.waiters = {} /\ (saved' # saved <=> ok)
      BY <1>1, <1>4, <1>12, Zenon DEF AfterWrite, Answer, NoBatch, Draining, FileInv, NoWaiterLost
    <2>2. phase' # "saving"
      BY <1>1, <1>9, <2>1 DEF CloserQueued
    <2>3. ASSUME phase' \in Leaving, Calm, ~stale' PROVE disk'.text = text
      <3>1. CASE phase = "saving"
        <4>1. closer \in saved'
          BY <1>1, <2>3, <3>1 DEF FileAnswered, Leaving
        <4>2. disk'.text = inFlight.text
          BY <1>5, <1>10, <3>1, <4>1
        <4> QED
          BY <1>3, <1>12, <2>3, <3>1, <4>2 DEF NewestIsText
      <3>2. CASE phase = "waiting"
        <4>1. phase' = AfterPending(goal, sync')
          BY <1>1, <2>1, <3>2 DEF FileAnswered
        <4>2. text = sync'
          BY <1>2, <2>3, <4>1 DEF AfterPending, Dirty, Calm, Leaving
        <4> QED
          BY <1>8, <2>3, <4>2 DEF BaselineOnDisk
      <3>3. CASE phase \notin {"saving", "waiting"}
        <4>1. phase' = phase
          BY <1>1, <3>3 DEF FileAnswered
        <4>2. (~stale => disk.text = text) /\ inFlight.text = text
          BY <1>1, <1>3, <2>3, <4>1 DEF TextOnDisk
        <4> QED
          BY <1>5, <1>7, <2>3, <4>2
      <3> QED
        BY <3>1, <3>2, <3>3
    <2> QED
      BY <1>1, <1>8, <1>9, <2>1, <2>2, <2>3, Zenon DEF FileKeeps, NewestIsText, TextOnDisk
  <1> QED
    BY <1>11, <1>12

\* A save of the text that is shown.
LEMMA RequestedKeeps ==
  ASSUME TypeOK, FileInv, FileKeeps, kind = "file", RequestSave(text),
         UNCHANGED <<kind, asks, text, sync, stale, fate>>,
         \/ phase' = phase /\ closer' = closer
         \/ phase' = "saving" /\ closer' = asked'
  PROVE  FileKeeps'
  <1>1. Draining' /\ (Calm' <=> Calm)
    BY DEF RequestSave, Draining, Calm
  <1>2. disk' = disk
    BY DEF RequestSave
  <1>3. /\ inFlight.waiters \union pending.waiters \subseteq inFlight'.waiters \union pending'.waiters
        /\ asked' \in inFlight'.waiters \union pending'.waiters
    BY DEF RequestSave, Draining
  <1>4. pending.waiters # {} => Draining
    BY DEF FileInv, NewestIsLast, Draining
  <1>5. /\ pending'.waiters = {} => inFlight'.text = text
        /\ pending'.waiters # {} => pending'.text = text
    BY <1>4 DEF RequestSave
  <1>6. Draining => inFlight' = inFlight
    BY DEF RequestSave
  <1>7. ~Draining => inFlight'.text = text
    BY DEF RequestSave
  <1>8. BaselineOnDisk'
    BY <1>2, Zenon DEF FileKeeps, BaselineOnDisk
  <1>9. CloserQueued' /\ NewestIsText'
    BY <1>1, <1>3, <1>5, Zenon DEF FileKeeps, CloserQueued, NewestIsText
  <1>10. TextOnDisk'
    BY <1>1, <1>2, <1>5, <1>6, <1>7, Zenon DEF FileKeeps, TextOnDisk, Leaving
  <1> QED
    BY <1>8, <1>9, <1>10 DEF FileKeeps

\* One step of a file's tab keeps what is stored.
LEMMA FileKeepsStep ==
  ASSUME TypeOK, FileInv, FileInv', PlaceForm, FileKeeps, [Next]_vars
  PROVE  FileKeeps'
  <1> SUFFICES ASSUME kind' = "file" PROVE FileKeeps'
    BY DEF FileKeeps
  <1>1. kind = "file"
    BY Zenon DEF Next, Type, Leave, DecideCancel, DecideDiscard, DecideSave, Load, ExitOn, ConfirmExit, FinishExit, SaveFile, FileSucceeds, FileFails,
           FileAnswered, AutoSave, ExitConsole, SaveConsole, ConfirmInitialSave, CancelInitialSave,
           RemoveSaved, SaveSucceeds, SaveFails, vars, editorVars
  <1>2. status = "RELEASE" /\ queue = <<>> /\ phase # "naming" /\ loading = NoText
    BY <1>1, Chained DEF PlaceForm, KindForm, NamingForm, TypeOK, ConsoleTypes
  <1>3. BaselineOnDisk /\ CloserQueued /\ NewestIsText /\ TextOnDisk
    BY <1>1 DEF FileKeeps
  <1>4. ASSUME UNCHANGED <<fileVars, sync, stale>>, CloserQueued', NewestIsText', TextOnDisk'
        PROVE  FileKeeps'
    BY <1>3, <1>4, Zenon DEF FileKeeps, BaselineOnDisk, fileVars
  <1>5. ASSUME NEW t \in Texts, Type(t) PROVE FileKeeps'
    <2>1. UNCHANGED <<fileVars, sync, stale, phase, closer>>
      BY <1>5 DEF Type
    <2>2. phase \in {"saving"} \union Leaving => ~Calm'
      BY <1>5 DEF Type, Touched, Editable, Leaving, Calm
    <2> QED
      BY <1>3, <1>4, <2>1, <2>2, Zenon DEF CloserQueued, NewestIsText, TextOnDisk, fileVars
  <1>6. ASSUME NEW g \in {"close", "exit"}, Leave(g) PROVE FileKeeps'
    <2>1. UNCHANGED <<fileVars, sync, stale, text, asks>>
      BY <1>6 DEF Leave
    <2>2. phase' # "saving"
      BY <1>6 DEF Leave, LeaveWait, AfterPending, Through
    <2>3. phase' \in Leaving => ~Draining /\ ~(asks /\ text # sync)
      BY <1>1, <1>2, <1>6 DEF Leave, LeaveWait, AfterPending, Dirty, Leaving
    <2>4. pending.waiters # {} => Draining
      BY DEF FileInv, NewestIsLast, Draining
    <2>5. TextOnDisk'
      BY <1>3, <2>1, <2>3, <2>4, Zenon DEF TextOnDisk, BaselineOnDisk, Calm, fileVars, Draining
    <2> QED
      BY <1>4, <2>1, <2>2, <2>5 DEF CloserQueued, NewestIsText
  <1>7. CASE DecideCancel \/ DecideDiscard
    <2>1. UNCHANGED <<fileVars, sync, stale>> /\ phase' # "saving"
      BY <1>7 DEF DecideCancel, DecideDiscard, Through
    <2>2. phase' \in Leaving => ~Calm'
      BY <1>7 DEF DecideCancel, DecideDiscard, Leaving, Calm
    <2> QED
      BY <1>4, <2>1, <2>2 DEF CloserQueued, NewestIsText, TextOnDisk
  <1>8. CASE DecideSave
    <2>1. /\ RequestSave(text) /\ closer' = asked' /\ phase' = "saving"
          /\ UNCHANGED <<kind, asks, text, sync, stale, fate>>
      BY <1>1, <1>8 DEF DecideSave
    <2> QED
      BY <1>1, <2>1, RequestedKeeps
  <1>9. CASE ExitOn \/ (\E ok \in BOOLEAN : ConfirmExit(ok)) \/ FinishExit
    <2>1. /\ UNCHANGED <<fileVars, sync, stale, asks, text, fate>>
          /\ phase \in Leaving /\ phase' \in {"open"} \union Leaving
      BY <1>9 DEF ExitOn, ConfirmExit, FinishExit, Leaving
    <2>2. phase' # "saving"
      BY <2>1 DEF Leaving
    <2>3. TextOnDisk'
      BY <1>3, <2>1 DEF TextOnDisk, Calm, Leaving, fileVars, Draining
    <2> QED
      BY <1>4, <2>1, <2>2, <2>3 DEF CloserQueued, NewestIsText
  <1>10. CASE SaveFile
    <2>1. RequestSave(text) /\ UNCHANGED <<kind, asks, text, sync, stale, fate, phase, closer>>
      BY <1>10 DEF SaveFile, editorVars
    <2> QED
      BY <1>1, <2>1, RequestedKeeps
  <1>11. CASE FileSucceeds \/ FileFails
    BY <1>11, AnsweredKeeps
  <1>12. CASE UNCHANGED vars
    BY <1>3, <1>4, <1>12, Zenon DEF vars, editorVars, fileVars, CloserQueued, NewestIsText, TextOnDisk, Calm, Draining
  <1>13. ~(AutoSave \/ ExitConsole \/ SaveConsole \/ ConfirmInitialSave \/ CancelInitialSave \/ RemoveSaved)
    BY <1>1, <1>2, Zenon DEF AutoSave, ExitConsole, SaveConsole, ConfirmInitialSave, CancelInitialSave, RemoveSaved
  <1>14. ~(SaveSucceeds \/ SaveFails)
    BY <1>2 DEF SaveSucceeds, SaveFails, MutationSucceeds, MutationFails
  <1>15. ~Load
    BY <1>2 DEF Load
  <1> QED
    BY <1>5, <1>6, <1>7, <1>8, <1>9, <1>10, <1>11, <1>12, <1>13, <1>14, <1>15 DEF Next

\* A console the client restores faithfully, on its way out.
Orderly == Calm /\ "saving" \notin fate

\* The guard has looked at the tab.
Decided == {"asking", "naming", "saving", "flushing"} \union Leaving

\* A saved console: a baseline that is not stale is the record; from the
\* question on, everything chained carries the text that is shown.
BaselineRecorded == status = "RELEASE" /\ ~stale => sync = record.ddl

ChainCarriesText ==
  Orderly /\ phase \in Decided => \A i \in 1 .. Len(queue) : Publishes(queue[i]) => queue[i].ddl = text

TextRecorded ==
  Orderly /\ ~stale /\ status = "RELEASE" /\ phase \in Leaving /\ record.status = "RELEASE" => record.ddl = text

\* A draft: a baseline that is not stale is the text in the IndexedDB.
DraftStored ==
  status = "DRAFT" =>
    /\ ~stale /\ snapshot = Blank /\ phase # "closed" => draft = sync \/ (draft = NoText /\ sync = Blank)
    /\ Orderly /\ phase = "closed" => text = Blank /\ draft = NoText
    /\ Orderly /\ phase \in Leaving \ {"closed"} => text = sync

ConsoleForm == BaselineRecorded /\ ChainCarriesText /\ TextRecorded /\ DraftStored

ConsoleKeeps == kind = "console" => ConsoleForm

\* A chained mutation carries the text, or publishes nothing.
LEMMA ChainedKeeps ==
  ASSUME TypeOK, ConsoleForm, NEW m, Enqueues(m), Publishes(m) => m.ddl = text,
         UNCHANGED <<record, status, text, sync, stale, snapshot, draft, asks>>,
         \/ phase' = phase /\ fate' = fate
         \/ phase = "asking" /\ phase' = "saving" /\ fate' = fate
         \/ phase = "open" /\ phase' = "flushing" /\ (Orderly' => Len(queue) = 0)
  PROVE  ConsoleForm'
  <1>1. /\ Len(queue) \in Nat
        /\ \A i \in 1 .. Len(queue') : (i \in 1 .. Len(queue) /\ queue'[i] = queue[i]) \/ queue'[i] = m
    BY ChainedQueue, Zenon
  <1>2. phase' = phase \/ phase = "asking" => (Orderly' <=> Orderly)
    BY DEF Orderly, Calm
  <1>3. phase' = phase \/ (phase \notin Leaving /\ phase' \notin Leaving)
    BY DEF Leaving
  <1>4. ChainCarriesText'
    <2> SUFFICES ASSUME Orderly', phase' \in Decided, NEW i \in 1 .. Len(queue'), Publishes(queue'[i])
                 PROVE  queue'[i].ddl = text
      BY DEF ChainCarriesText, Publishes, Decided, Leaving
    <2>1. CASE i \in 1 .. Len(queue) /\ queue'[i] = queue[i]
      <3>1. Len(queue) # 0
        BY <1>1, <2>1, Occupied, Zenon
      <3>2. phase \in Decided /\ Orderly
        BY <1>2, <3>1 DEF Decided
      <3> QED
        BY <2>1, <3>2, Zenon DEF ConsoleForm, ChainCarriesText
    <2>2. CASE queue'[i] = m
      BY <2>2, Zenon
    <2> QED
      BY <1>1, <2>1, <2>2
  <1>5. BaselineRecorded' /\ TextRecorded'
    BY <1>2, <1>3 DEF ConsoleForm, BaselineRecorded, TextRecorded, Leaving
  <1>6. DraftStored'
    BY <1>2, <1>3 DEF ConsoleForm, DraftStored, Leaving
  <1> QED
    BY <1>4, <1>5, <1>6 DEF ConsoleForm

\* The end of a mutation, well or badly: what moved the baseline is recorded,
\* and what is recorded is the text once the guard has looked.
LEMMA EndedKeeps ==
  ASSUME TypeOK, TypeOK', Ordered, PlaceForm, ConsoleForm, SaveSucceeds \/ SaveFails
  PROVE  ConsoleForm'
  <1> DEFINE m == queue[1]
             acc == SaveSucceeds /\ Accepted(m)
  <1>1. /\ Len(queue) \in Nat /\ Len(queue) # 0 /\ Head(queue) = m /\ m \in Mutations
        /\ \A i \in 1 .. Len(queue') : i + 1 \in 1 .. Len(queue) /\ queue'[i] = queue[i + 1]
        /\ 1 \in 1 .. Len(queue)
    <2>1. MutationSucceeds \/ MutationFails
      BY Zenon DEF SaveSucceeds, SaveFails
    <2> QED
      BY <2>1, EndedQueue
  <1>2. UNCHANGED <<text, snapshot, asks, fate>> /\ (Orderly' <=> Orderly)
    <2>1. UNCHANGED <<text, snapshot, asks, fate>>
      BY Zenon DEF SaveSucceeds, SaveFails
    <2> QED
      BY <2>1 DEF Orderly, Calm
  <1>3. record' = Executed(m) \/ (SaveFails /\ record' = record)
    BY <1>1, Zenon DEF SaveSucceeds, SaveFails, MutationSucceeds, MutationFails
  <1>4. record' = Executed(m) => IF Publishes(m) THEN record'.ddl = m.ddl ELSE record'.status # "RELEASE"
    BY <1>1 DEF Executed, Publishes, Mutations, TypeOK, ConsoleTypes, Records
  <1>5. acc => sync' = m.ddl /\ status' = "RELEASE" /\ record'.ddl = m.ddl
    <2>1. SaveSucceeds => record' = Executed(m)
      BY <1>1, Zenon DEF SaveSucceeds, MutationSucceeds
    <2>2. acc => sync' = m.ddl /\ status' = "RELEASE" /\ Publishes(m)
      BY <1>1, Zenon DEF SaveSucceeds, Accepted
    <2> QED
      BY <1>4, <2>1, <2>2
  <1>6. ~acc => /\ sync' = sync /\ status' = status
                /\ ~stale' => ~stale /\ record'.ddl = record.ddl
                /\ draft' = draft \/ (draft' = NoText /\ phase' = "closed")
    <2>1. CASE SaveSucceeds
      BY <1>1, <2>1, Zenon DEF SaveSucceeds, Rebased
    <2>2. CASE SaveFails
      BY <1>1, <2>2, Zenon DEF SaveFails, Rebased
    <2> QED
      BY <2>1, <2>2
  <1>7. \/ phase' = phase \/ phase' = "open"
        \/ SaveSucceeds /\ m.awaits # "none" /\ phase \in {"saving", "flushing", "naming"}
    <2>1. m.awaits = "name" => phase = "naming"
      BY <1>1 DEF Ordered, QueueForm, PlaceForm, NamingForm
    <2>2. CASE SaveSucceeds
      BY <1>1, <2>1, <2>2 DEF SaveSucceeds, Awaited
    <2>3. CASE SaveFails
      BY <1>1, <2>1, <2>3 DEF SaveFails, Awaited
    <2> QED
      BY <2>2, <2>3
  <1>8. m.awaits # "none" => Publishes(m)
    BY <1>1 DEF Ordered, QueueForm
  <1>9. phase' \in Decided => phase \in Decided
    BY <1>7 DEF Decided, Leaving
  <1>10. ChainCarriesText'
    <2> SUFFICES ASSUME Orderly, phase' \in Decided, NEW i \in 1 .. Len(queue'), Publishes(queue'[i])
                 PROVE  queue'[i].ddl = text
      BY <1>2 DEF ChainCarriesText, Publishes, Decided, Leaving
    <2> QED
      BY <1>1, <1>9, Zenon DEF ConsoleForm, ChainCarriesText
  <1>11. BaselineRecorded'
    BY <1>5, <1>6 DEF ConsoleForm, BaselineRecorded
  <1>12. TextRecorded'
    <2> SUFFICES ASSUME Orderly, ~stale', status' = "RELEASE", phase' \in Leaving, record'.status = "RELEASE"
                 PROVE  record'.ddl = text
      BY <1>2 DEF TextRecorded, Leaving
    <2>1. CASE record' = Executed(m)
      <3>1. Publishes(m) /\ record'.ddl = m.ddl
        BY <1>4, <2>1
      <3>2. m.ddl = text
        BY <1>1, <1>9, <3>1 DEF ConsoleForm, ChainCarriesText, Decided
      <3> QED
        BY <3>1, <3>2
    <2>2. CASE record' = record /\ SaveFails
      <3>1. ~SaveSucceeds \/ record' = Executed(m)
        BY <1>1, Zenon DEF SaveSucceeds, MutationSucceeds
      <3>2. CASE ~SaveSucceeds
        BY <1>6, <1>7, <2>2, <3>2 DEF ConsoleForm, TextRecorded, Leaving
      <3> QED
        BY <2>1, <3>1, <3>2
    <2> QED
      BY <1>3, <2>1, <2>2
  <1>13. DraftStored'
    <2> SUFFICES ASSUME status' = "DRAFT" PROVE DraftStored'
      BY DEF DraftStored
    <2>1. ~acc /\ status = "DRAFT"
      BY <1>5, <1>6
    <2>2. phase' = phase \/ phase' = "open"
      <3>1. ~(SaveSucceeds /\ Publishes(m))
        BY <1>1, <2>1, NamedAccepted
      <3> QED
        BY <1>7, <1>8, <3>1
    <2>3. phase = "closed" => phase' = "closed"
      BY EndedPhase
    <2> HIDE DEF acc
    <2> QED
      BY <1>2, <1>6, <2>1, <2>2, <2>3 DEF ConsoleForm, DraftStored, Leaving
  <1> QED
    BY <1>10, <1>11, <1>12, <1>13 DEF ConsoleForm

\* A step that leaves the mutations alone and goes nowhere near the way out.
LEMMA QuietKeeps ==
  ASSUME PlaceForm, ConsoleForm,
         UNCHANGED <<consoleVars, status, text, sync, stale, snapshot, draft, asks, fate>>,
         \/ phase' = phase
         \/ phase' = "open" /\ phase # "closed"
         \/ phase' = "naming" /\ phase \in {"open", "asking"} /\ status = "DRAFT"
         \/ phase \in Leaving \ {"closed"} /\ phase' \in Leaving \ {"closed"}
  PROVE  ConsoleForm'
  <1>1. Orderly' <=> Orderly
    BY DEF Orderly, Calm
  <1>2. BaselineRecorded' /\ TextRecorded' /\ DraftStored'
    BY <1>1 DEF ConsoleForm, BaselineRecorded, TextRecorded, DraftStored, consoleVars, Leaving
  <1>3. ChainCarriesText'
    <2>1. CASE phase' = "naming" /\ phase \in {"open", "asking"} /\ status = "DRAFT"
      BY <2>1 DEF PlaceForm, NamingForm, ChainCarriesText, consoleVars, Publishes
    <2>2. CASE phase' \in Decided => phase \in Decided
      BY <1>1, <2>2 DEF ConsoleForm, ChainCarriesText, consoleVars, Publishes
    <2> QED
      BY <2>1, <2>2 DEF Decided, Leaving
  <1> QED
    BY <1>2, <1>3 DEF ConsoleForm

\* persistAutomaticValue, by the timer and by an exit.
LEMMA PersistedKeeps ==
  ASSUME TypeOK, TypeOK', PlaceForm, ConsoleForm, AutoSave \/ ExitConsole
  PROVE  ConsoleForm'
  <1>1. UNCHANGED <<status, text, snapshot, asks>> /\ phase \notin {"closed", "exited"}
    BY DEF AutoSave, ExitConsole, Ended
  <1>2. queue = <<>> <=> Len(queue) = 0
    BY Chained DEF TypeOK, ConsoleTypes
  <1>3. ExitConsole => phase = "open" /\ (Orderly' => Len(queue) = 0)
    BY <1>2 DEF ExitConsole, Orderly
  <1>4. AutoSave => fate' = fate /\ (Orderly' <=> Orderly)
    BY <1>1, Zenon DEF AutoSave, Orderly, Calm
  <1>5. ASSUME NEW a \in {"none", "flush"}, AutomaticSave(text, a), status = "RELEASE", ~AutomaticBlocked,
               UNCHANGED <<sync, stale, draft>>,
               (AutoSave /\ phase' = phase) \/ (ExitConsole /\ phase' = "flushing")
        PROVE  ConsoleForm'
    <2>1. PICK m : Enqueues(m) /\ m.ddl = text
      BY <1>1, <1>5, AutomaticEnqueues
    <2>2. record' = record
      BY <1>5 DEF AutomaticSave
    <2> QED
      BY <1>1, <1>3, <1>4, <1>5, <2>1, <2>2, ChainedKeeps
  <1>6. ASSUME status = "DRAFT" \/ AutomaticBlocked, draft' = text, sync' = text, stale' = (status = "RELEASE"),
               UNCHANGED consoleVars,
               (AutoSave /\ phase' = phase) \/ (ExitConsole /\ phase' = "exiting")
        PROVE  ConsoleForm'
    <2>1. status = "RELEASE" => stale'
      BY <1>6
    <2>2. BaselineRecorded' /\ TextRecorded'
      BY <1>1, <2>1 DEF BaselineRecorded, TextRecorded
    <2>3. DraftStored'
      BY <1>1, <1>6 DEF DraftStored
    <2>4. ChainCarriesText'
      <3>1. CASE AutoSave /\ phase' = phase
        BY <1>1, <1>4, <1>6, <3>1 DEF ConsoleForm, ChainCarriesText, consoleVars, Publishes
      <3>2. CASE ExitConsole /\ phase' = "exiting"
        BY <1>3, <1>6, <3>2 DEF ChainCarriesText, consoleVars
      <3> QED
        BY <1>6, <3>1, <3>2
    <2> QED
      BY <2>2, <2>3, <2>4 DEF ConsoleForm
  <1>7. ASSUME ExitConsole, text = sync, phase' = "exiting", UNCHANGED <<consoleVars, sync, stale, draft>>
        PROVE  ConsoleForm'
    <2>1. ChainCarriesText'
      BY <1>3, <1>7 DEF ChainCarriesText, consoleVars
    <2>2. BaselineRecorded' /\ TextRecorded'
      BY <1>1, <1>7 DEF ConsoleForm, BaselineRecorded, TextRecorded, consoleVars
    <2>3. DraftStored'
      BY <1>1, <1>7 DEF ConsoleForm, DraftStored
    <2> QED
      BY <2>1, <2>2, <2>3 DEF ConsoleForm
  <1>8. CASE AutoSave
    <2>1. Persist("none", phase)
      BY <1>8 DEF AutoSave
    <2>2. CASE status = "RELEASE" /\ ~AutomaticBlocked
      <3>1. AutomaticSave(text, "none") /\ phase' = phase /\ UNCHANGED <<sync, stale, draft>>
        BY <2>1, <2>2 DEF Persist
      <3> QED
        BY <1>5, <1>8, <2>2, <3>1
    <2>3. CASE ~(status = "RELEASE" /\ ~AutomaticBlocked)
      <3>1. /\ status = "DRAFT" \/ AutomaticBlocked
            /\ draft' = text /\ sync' = text /\ stale' = (status = "RELEASE") /\ phase' = phase /\ UNCHANGED consoleVars
        BY <2>1, <2>3, Zenon DEF Persist
      <3> QED
        BY <1>6, <1>8, <3>1
    <2> QED
      BY <2>2, <2>3
  <1>9. CASE ExitConsole
    <2>1. CASE text = sync
      BY <1>7, <1>9, <2>1, Zenon DEF ExitConsole
    <2>2. CASE text # sync /\ status = "RELEASE" /\ ~AutomaticBlocked
      <3>1. AutomaticSave(text, "flush") /\ phase' = "flushing" /\ UNCHANGED <<sync, stale, draft>>
        BY <1>9, <2>2, Zenon DEF ExitConsole, Persist
      <3> QED
        BY <1>5, <1>9, <2>2, <3>1
    <2>3. CASE text # sync /\ ~(status = "RELEASE" /\ ~AutomaticBlocked)
      <3>1. /\ status = "DRAFT" \/ AutomaticBlocked
            /\ draft' = text /\ sync' = text /\ stale' = (status = "RELEASE") /\ phase' = "exiting" /\ UNCHANGED consoleVars
        BY <1>9, <2>3, Zenon DEF ExitConsole, Persist
      <3> QED
        BY <1>6, <1>9, <3>1
    <2> QED
      BY <2>1, <2>2, <2>3
  <1> QED
    BY <1>8, <1>9

\* One step of a console's tab keeps what is stored.
LEMMA ConsoleKeepsStep ==
  ASSUME TypeOK, TypeOK', Ordered, PlaceForm, ConsoleKeeps, [Next]_vars
  PROVE  ConsoleKeeps'
  <1> SUFFICES ASSUME kind' = "console" PROVE ConsoleForm'
    BY DEF ConsoleKeeps
  <1>1. kind = "console"
    BY Zenon DEF Next, Type, Leave, DecideCancel, DecideDiscard, DecideSave, Load, ExitOn, ConfirmExit, FinishExit, SaveFile,
           FileSucceeds, FileFails, FileAnswered, AutoSave, ExitConsole, SaveConsole, ConfirmInitialSave, CancelInitialSave,
           RemoveSaved, SaveSucceeds, SaveFails, vars, editorVars
  <1>2. ConsoleForm /\ ~Draining /\ (queue = <<>> <=> Len(queue) = 0)
    BY <1>1, Chained DEF ConsoleKeeps, PlaceForm, KindForm, TypeOK, ConsoleTypes
  <1>3. ASSUME UNCHANGED <<consoleVars, status, sync, stale, draft, phase, asks>>, fate' = Touched,
               phase # "closed", snapshot' = snapshot \/ status = "RELEASE"
        PROVE  ConsoleForm'
    <2>1. phase \in Decided => ~Orderly'
      BY <1>3 DEF Touched, Decided, Leaving, Orderly, Calm
    <2>2. BaselineRecorded' /\ ChainCarriesText'
      BY <1>2, <1>3, <2>1 DEF ConsoleForm, BaselineRecorded, ChainCarriesText, consoleVars
    <2>3. TextRecorded'
      BY <1>3, <2>1 DEF TextRecorded, Decided
    <2>4. DraftStored'
      BY <1>2, <1>3, <2>1 DEF ConsoleForm, DraftStored, Decided
    <2> QED
      BY <2>2, <2>3, <2>4 DEF ConsoleForm
  <1>4. ASSUME NEW t \in Texts, Type(t) PROVE ConsoleForm'
    BY <1>3, <1>4, Zenon DEF Type, Editable
  <1>5. CASE Load
    <2>1. snapshot' = snapshot \/ status = "RELEASE"
      BY <1>5 DEF Load, PlaceForm, KindForm
    <2> QED
      BY <1>3, <1>5, <2>1, Zenon DEF Load, Ended
  <1>6. ASSUME NEW g \in {"close", "exit"}, Leave(g) PROVE ConsoleForm'
    <2>1. /\ UNCHANGED <<consoleVars, status, sync, stale, snapshot, text, asks>>
          /\ g = "close" /\ phase' = AfterPending("close", sync) /\ phase = "open"
          /\ phase' # "closed" => draft' = draft
          /\ phase' = "closed" => draft' = NoText
      BY <1>1, <1>6 DEF Leave, LeaveWait, DraftAfter
    <2>2. phase' \in {"asking", "closed"} /\ (phase' = "closed" => ~(asks /\ Dirty(sync)))
      BY <2>1 DEF AfterPending, Through
    <2>3. Orderly' => Len(queue) = 0 /\ asks
      BY <1>2, <1>6, <2>1 DEF Leave, Orderly, Calm
    <2>4. BaselineRecorded' /\ ChainCarriesText'
      <3>1. BaselineRecorded'
        BY <1>2, <2>1 DEF ConsoleForm, BaselineRecorded, consoleVars
      <3>2. ChainCarriesText'
        BY <2>1, <2>3 DEF ChainCarriesText, consoleVars
      <3> QED
        BY <3>1, <3>2
    <2>5. TextRecorded'
      BY <1>2, <2>1, <2>2, <2>3, <2>4, Zenon DEF BaselineRecorded, TextRecorded, Dirty, consoleVars, Leaving
    <2>6. DraftStored'
      BY <1>1, <1>2, <2>1, <2>2, <2>3 DEF ConsoleForm, DraftStored, Dirty, Leaving
    <2> QED
      BY <2>4, <2>5, <2>6 DEF ConsoleForm
  <1>7. CASE DecideDiscard
    <2>1. /\ UNCHANGED <<consoleVars, status, sync, stale, snapshot>> /\ phase = "asking" /\ ~Orderly'
          /\ phase' # "closed" => draft' = draft
      BY <1>7 DEF DecideDiscard, DraftAfter, Orderly, Calm
    <2> QED
      BY <1>2, <2>1, Zenon DEF ConsoleForm, BaselineRecorded, ChainCarriesText, TextRecorded, DraftStored, consoleVars
  <1>8. CASE DecideCancel \/ CancelInitialSave \/ UNCHANGED vars
    BY <1>2, <1>8, QuietKeeps, Zenon DEF DecideCancel, CancelInitialSave, vars, editorVars
  <1>9. CASE ExitOn \/ (\E ok \in BOOLEAN : ConfirmExit(ok)) \/ FinishExit
    <2>1. /\ UNCHANGED <<consoleVars, status, text, sync, stale, snapshot, draft, asks, fate>>
          /\ phase \in Leaving \ {"closed"} /\ phase' \in {"open"} \union (Leaving \ {"closed"})
      BY <1>9 DEF ExitOn, ConfirmExit, FinishExit, Leaving
    <2> QED
      BY <1>2, <2>1, QuietKeeps
  <1>10. ASSUME NEW a \in {"none", "close", "name"}, ManualSave(text, a),
               UNCHANGED <<status, text, sync, stale, snapshot, draft, asks, fate>>,
               phase' = phase \/ (phase = "asking" /\ phase' = "saving")
        PROVE  ConsoleForm'
    <2>1. PICK m : Enqueues(m) /\ m.ddl = text
      BY <1>10, ManualEnqueues
    <2>2. record' = record
      BY <1>10 DEF ManualSave
    <2> QED
      BY <1>2, <1>10, <2>1, <2>2, ChainedKeeps, Zenon
  <1>11. CASE DecideSave
    <2>1. CASE status = "DRAFT"
      BY <1>1, <1>2, <1>11, <2>1, QuietKeeps, Zenon DEF DecideSave
    <2>2. CASE status = "RELEASE"
      BY <1>1, <1>10, <1>11, <2>2, Zenon DEF DecideSave
    <2> QED
      BY <2>1, <2>2 DEF TypeOK, EditorTypes
  <1>12. CASE SaveConsole
    <2>1. CASE status = "DRAFT"
      BY <1>2, <1>12, <2>1, QuietKeeps, Zenon DEF SaveConsole
    <2>2. CASE status = "RELEASE"
      BY <1>10, <1>12, <2>2, Zenon DEF SaveConsole
    <2> QED
      BY <2>1, <2>2 DEF TypeOK, EditorTypes
  <1>13. CASE ConfirmInitialSave
    BY <1>10, <1>13, Zenon DEF ConfirmInitialSave
  <1>14. CASE RemoveSaved
    <2>1. PICK k \in {"keepDraft", "delete"} : Removal(k)
      BY <1>14 DEF RemoveSaved
    <2>2. PICK m : Enqueues(m) /\ m.kind = k
      BY <2>1, RemovalEnqueues
    <2>3. /\ UNCHANGED <<record, status, text, sync, stale, snapshot, draft, asks, phase, fate>>
          /\ ~Publishes(m)
      BY <1>14, <2>1, <2>2, Zenon DEF RemoveSaved, Removal, Publishes
    <2> QED
      BY <1>2, <2>2, <2>3, ChainedKeeps, Zenon
  <1>15. CASE AutoSave \/ ExitConsole
    BY <1>2, <1>15, PersistedKeeps
  <1>16. CASE SaveSucceeds \/ SaveFails
    BY <1>2, <1>16, EndedKeeps
  <1>17. ~(SaveFile \/ FileSucceeds \/ FileFails)
    BY <1>1, <1>2, Zenon DEF SaveFile, FileSucceeds, FileFails, Written, Refused
  <1> QED
    BY <1>4, <1>5, <1>6, <1>7, <1>8, <1>9, <1>11, <1>12, <1>13, <1>14, <1>15, <1>16, <1>17 DEF Next
-----------------------------------------------------------------------------
\* The inductive invariant of the tab.
IInv ==
  /\ TypeOK
  /\ Ordered
  /\ PlaceForm
  /\ FileKeeps
  /\ ConsoleKeeps

\* A tab that was just opened.
LEMMA InitIInv == Init => IInv
  <1> SUFFICES ASSUME Init PROVE IInv
    OBVIOUS
  <1> USE ContentsAssumption, TextsAssumption
  <1>1. queue \in Chains /\ Len(queue) = 0 /\ 1 .. Len(queue) = {}
    <2>1. queue = <<>>
      BY Zenon DEF Init
    <2>2. queue \in Chains /\ Len(queue) = 0
      BY <2>1 DEF Chains
    <2> QED
      BY <2>2
  <1>2. record.status = status /\ status \in {"DRAFT", "RELEASE"} /\ record.ddl \in Contents /\ record \in Records
    <2>1. snapshot \in Contents
      BY Zenon DEF Init
    <2>2. \/ record = [status |-> status, ddl |-> snapshot]
          \/ record = [status |-> status, ddl |-> InitialContent]
      BY Zenon DEF Init
    <2>3. status \in {"DRAFT", "RELEASE"}
      BY Zenon DEF Init
    <2> QED
      BY <2>1, <2>2, <2>3 DEF Records
  <1>3. ConsoleTypes
    <2>1. coord \in Coordinators
      BY Zenon DEF Init, FreshState, Coordinators
    <2> QED
      BY <1>1, <1>2, <2>1 DEF ConsoleTypes
  <1>4. loading = NoText \/ (loading.of = status /\ loading \in [of : {"DRAFT", "RELEASE"}, text : Contents])
    <2>1. draft = NoText \/ draft \in Contents
      BY Zenon DEF Init
    <2>2. loading = NoText \/ loading = [of |-> status, text |-> record.ddl]
                           \/ (draft # NoText /\ loading = [of |-> status, text |-> draft])
      BY Zenon DEF Init
    <2> QED
      BY <1>2, <2>1, <2>2
  <1>5. EditorTypes /\ BudgetTypes
    <2>1. EditorTypes
      BY <1>2, <1>4, Zenon DEF Init, EditorTypes
    <2>2. budget = [edits |-> 0, commands |-> 0, faults |-> 0, failing |-> 0, tangled |-> 0]
      BY Zenon DEF Init
    <2> QED
      BY <2>1, <2>2 DEF BudgetTypes, Budgets
  <1>6. Ordered
    <2>1. QueueForm
      BY <1>1 DEF QueueForm
    <2>2. coord.publishDesired
      BY DEF Init, FreshState
    <2>3. status = "RELEASE" => (coord.publishDesired <=> Released(Len(queue))) /\ Retained(coord)
      BY <1>1, <1>2, <2>2 DEF Released, Retained
    <2>4. OrderForm
      BY <1>1, <2>3, Zenon DEF OrderForm
    <2> QED
      BY <2>1, <2>4 DEF Ordered
  <1>7. PlaceForm
    <2>1. NamingForm /\ ClosedForm
      BY <1>1, <1>2, Zenon DEF Init, NamingForm, ClosedForm
    <2>2. ~Draining
      BY Zenon DEF Init, FileInit, NoBatch, Draining
    <2>3. KindForm
      BY <1>1, <1>4, <2>2, Zenon DEF Init, KindForm
    <2> QED
      BY <2>1, <2>3 DEF PlaceForm
  <1>8. phase = "open" /\ sync = snapshot /\ stale = (Restored # snapshot)
    BY Zenon DEF Init
  <1>9. FileKeeps
    <2>1. kind = "file" => disk.text = snapshot
      BY DEF Init, FileInit
    <2> QED
      BY <1>8, <2>1, Zenon DEF FileKeeps, BaselineOnDisk, CloserQueued, NewestIsText, TextOnDisk, Leaving
  <1>10. ConsoleKeeps
    <2> SUFFICES ASSUME kind = "console" PROVE ConsoleForm
      BY DEF ConsoleKeeps
    <2>1. status = "RELEASE" /\ ~stale => sync = record.ddl
      BY <1>8 DEF Restored
    <2>2. status = "DRAFT" /\ ~stale /\ snapshot = Blank => draft = sync \/ (draft = NoText /\ sync = Blank)
      BY <1>8 DEF Restored
    <2> QED
      BY <1>1, <1>8, <2>1, <2>2
         DEF ConsoleForm, BaselineRecorded, ChainCarriesText, TextRecorded, DraftStored, Leaving, Decided
  <1> QED
    BY <1>3, <1>5, <1>6, <1>7, <1>9, <1>10 DEF IInv, TypeOK

\* One step of the tab.
LEMMA NextIInv ==
  ASSUME IInv, FileInv, FileInv', [Next]_vars
  PROVE  IInv'
  <1>1. TypeOK'
    BY TypeStep DEF IInv, FileInv
  <1>2. Ordered'
    BY <1>1, OrderStep DEF IInv
  <1>3. PlaceForm'
    BY <1>1, PlaceStep DEF IInv
  <1>4. FileKeeps'
    BY FileKeepsStep DEF IInv
  <1>5. ConsoleKeeps'
    BY <1>1, ConsoleKeepsStep DEF IInv
  <1> QED
    BY <1>1, <1>2, <1>3, <1>4, <1>5 DEF IInv

\* The tab keeps its invariant, and its file that of the queue.
THEOREM TabInvariant == Spec => [](IInv /\ FileInv)
  <1>1. FileSpec => []FileInv
    BY FileInitInv, FileNextInv, PTL DEF FileSpec
  <1> QED
    BY <1>1, TabUsesQueue, InitIInv, NextIInv, PTL DEF Spec

\* Once its mutations have ended, well or badly, the automatic saves of an open
\* console that was saved are blocked exactly if its record is a draft, as long
\* as no command failed in a way the coordinator cannot undo.
THEOREM BlockFollows == Spec => []BlockFollowsRecord
  <1>1. IInv => BlockFollowsRecord
    <2> SUFFICES ASSUME IInv, ~Ended, status = "RELEASE", queue = <<>>, budget.tangled = 0
                 PROVE  coord.publishDesired <=> record.status = "RELEASE"
      BY DEF BlockFollowsRecord
    <2>1. Len(queue) = 0
      BY Chained DEF IInv, TypeOK, ConsoleTypes
    <2>2. OrderForm /\ phase # "closed"
      BY DEF IInv, Ordered, Ended
    <2>3. coord.publishDesired <=> Released(0)
      BY <2>1, <2>2 DEF OrderForm
    <2> QED
      BY <2>3 DEF Released
  <1> QED
    BY <1>1, TabInvariant, PTL

\* Only a manual save makes a draft a released console, whether it is answered
\* or its answer is lost, as long as no command failed in a way the
\* coordinator cannot undo.
THEOREM ManualPublishes == Spec => OnlyManualPublishes
  <1>1. ASSUME IInv, [Next]_vars
        PROVE  [record.status = "DRAFT" /\ record'.status = "RELEASE" /\ budget.tangled = 0
                  => Head(queue).kind = "manual"]_vars
    <2> SUFFICES ASSUME record.status = "DRAFT", record'.status = "RELEASE", budget.tangled = 0
                 PROVE  Head(queue).kind = "manual"
      OBVIOUS
    <2>1. SaveSucceeds \/ SaveFails
      <3>1. record' # record
        OBVIOUS
      <3> QED
        BY <1>1, <3>1, Zenon DEF Next, Type, Load, Leave, DecideCancel, DecideDiscard, DecideSave, ExitOn, ConfirmExit,
                          FinishExit, SaveFile, FileSucceeds, FileFails, FileAnswered, AutoSave, ExitConsole, Persist,
                          SaveConsole, ConfirmInitialSave, CancelInitialSave, RemoveSaved, ManualSave, AutomaticSave,
                          Removal, vars, editorVars, consoleVars
    <2>2. (MutationSucceeds \/ MutationFails) /\ record' = Executed(Head(queue))
      BY <2>1 DEF SaveSucceeds, SaveFails, MutationSucceeds, MutationFails
    <2>3. Len(queue) # 0 /\ Len(queue) \in Nat /\ Head(queue) = queue[1] /\ queue[1] \in Mutations
      BY <1>1, <2>2, EndedQueue, Zenon DEF IInv
    <2>4. queue[1].kind # "automatic"
      <3>1. 1 \in 1 .. Len(queue) /\ 1 - 1 = 0
        BY <2>3
      <3>2. queue[1].kind = "automatic" => Released(0)
        BY <1>1, <3>1 DEF IInv, Ordered, OrderForm
      <3> QED
        BY <3>2 DEF Released
    <2>5. queue[1].kind \notin {"keepDraft", "delete"}
      BY <1>1, <2>2, <2>3 DEF Executed, Publishes, IInv, TypeOK, ConsoleTypes, Records
    <2> QED
      BY <2>3, <2>4, <2>5 DEF Mutations
  <1> QED
    BY <1>1, TabInvariant, PTL DEF Spec, OnlyManualPublishes

\* A tab that leaves in order, with a baseline that was taken from what is
\* stored, shows the same text when it is opened again, also after saves that
\* failed.
THEOREM LeavingKeepsText == Spec => []LeaveKeepsText
  <1>1. IInv => LeaveKeepsText
    <2> SUFFICES ASSUME IInv, LeftInOrder, kind = "console" => Restorable PROVE Restored = text
      BY DEF LeaveKeepsText
    <2>1. Calm /\ ~stale /\ phase \in {"closed", "exited"}
      BY DEF LeftInOrder, Calm, Ended
    <2>2. CASE kind = "file"
      BY <2>1, <2>2 DEF IInv, FileKeeps, TextOnDisk, Leaving, Restored
    <2>3. CASE kind = "console"
      <3>1. ConsoleForm /\ Orderly /\ Restorable
        BY <2>1, <2>3 DEF IInv, ConsoleKeeps, Restorable, Orderly
      <3>2. CASE status = "RELEASE"
        BY <2>1, <2>3, <3>1, <3>2 DEF ConsoleForm, TextRecorded, Leaving, Restorable, Restored
      <3>3. CASE status = "DRAFT"
        <4>1. snapshot = Blank
          BY <3>1, <3>3 DEF Restorable
        <4>2. CASE phase = "closed"
          BY <2>3, <3>1, <3>3, <4>1, <4>2 DEF ConsoleForm, DraftStored, Restored
        <4>3. CASE phase = "exited"
          <5>1. text = sync /\ sync # NoText /\ (draft = sync \/ (draft = NoText /\ sync = Blank))
            BY <2>1, <3>1, <3>3, <4>1, <4>3, TextsAssumption DEF ConsoleForm, DraftStored, IInv, TypeOK, EditorTypes, Leaving
          <5> QED
            BY <2>3, <3>3, <4>1, <5>1 DEF Restored
        <4> QED
          BY <2>1, <4>2, <4>3
      <3> QED
        BY <3>2, <3>3 DEF IInv, TypeOK, EditorTypes
    <2> QED
      BY <2>2, <2>3 DEF IInv, TypeOK, EditorTypes
  <1> QED
    BY <1>1, TabInvariant, PTL
=============================================================================
