---------------------------- MODULE SavedConsole ----------------------------
(***************************************************************************)
(* The mutations of one saved console (a record of the host's database     *)
(* that holds an SQL text and is a DRAFT or RELEASEd, that is listed among *)
(* the saved consoles): store/workspace/utils/savedConsoleMutation-        *)
(* Coordinator.ts, savedConsolePersistence.ts and savedConsoleLifecycle.ts.*)
(* Manual saves, automatic saves and removals run one after the other; a   *)
(* removal blocks the automatic saves that come after it, because they     *)
(* would publish the console again.                                        *)
(***************************************************************************)
EXTENDS Integers, Sequences

CONSTANTS Texts, Blank

VARIABLES
  coord,   \* SavedConsoleMutationState without its queue
  queue,   \* the mutations chained on `tail`; the first one is running
  record   \* the host's record: [status, ddl]

consoleVars == <<coord, queue, record>>

FreshState == [generation |-> 0, publishDesired |-> TRUE, retainDraftBlock |-> FALSE]

\* The state of the coordinator is dropped once nothing is pending, unless it
\* still has to block automatic saves.
Finish(state, pending) ==
  IF pending = 0 /\ (state.publishDesired \/ ~state.retainDraftBlock) THEN FreshState ELSE state

\* What a manual save and a removal do to the state.
Commanded(publish, retain) ==
  [generation |-> coord.generation + 1, publishDesired |-> publish, retainDraftBlock |-> retain]

\* A chained mutation.  `before` is the state its error handler goes back to,
\* `generation` the one it must find at its end to be current, and `awaits`
\* what goes on in the editor once it is answered.
Mutation(kind, ddl, generation, awaits) ==
  [kind |-> kind, ddl |-> ddl, generation |-> generation, awaits |-> awaits,
   before |-> [publishDesired |-> coord.publishDesired, retainDraftBlock |-> coord.retainDraftBlock]]

\* SavedConsoleMutationCoordinator.save(manual)
ManualSave(ddl, awaits) ==
  /\ coord' = Commanded(TRUE, FALSE)
  /\ queue' = Append(queue, Mutation("manual", ddl, coord'.generation, awaits))
  /\ UNCHANGED record

\* save(automatic), where the state does not block it
AutomaticSave(ddl, awaits) ==
  /\ queue' = Append(queue, Mutation("automatic", ddl, coord.generation, awaits))
  /\ UNCHANGED <<coord, record>>

\* save(automatic) resolves without executing once a removal was asked for.
AutomaticBlocked_Fault == coord.retainDraftBlock /\ queue = <<>>

AutomaticBlocked == ~coord.publishDesired

\* executeSavedConsoleRemoval: an open console stays as a draft, a closed one
\* is deleted.
Removal(action) ==
  /\ coord' = Commanded(FALSE, action = "keepDraft")
  /\ queue' = Append(queue, Mutation(action, Blank, coord'.generation, "none"))
  /\ UNCHANGED record

Publishes(m) == m.kind \in {"manual", "automatic"}

\* The coordinator's isCurrent: no later command came.
IsCurrent(m) == m.generation = coord.generation /\ coord.publishDesired = Publishes(m)

\* The record after the mutation's request (a manual save looks the record up
\* first and creates one that is gone).
Executed(m) ==
  CASE Publishes(m) -> [status |-> "RELEASE", ddl |-> m.ddl]
    [] m.kind = "keepDraft" -> [record EXCEPT !.status = "DRAFT"]
    [] m.kind = "delete" -> [status |-> "DELETED", ddl |-> Blank]

\* Only a manual save creates a record that is gone.
Executable(m) == m.kind = "automatic" => record.status # "DELETED"

\* onError: the command is undone if it is still the last one.
RolledBack_Fault(m) == coord

RolledBack(m) ==
  IF m.kind # "automatic" /\ IsCurrent(m)
  THEN [coord EXCEPT !.publishDesired = m.before.publishDesired,
                     !.retainDraftBlock = m.before.retainDraftBlock]
  ELSE coord

\* The running mutation ends and the next one starts.
MutationSucceeds ==
  /\ queue # <<>>
  /\ Executable(Head(queue))
  /\ record' = Executed(Head(queue))
  /\ queue' = Tail(queue)
  /\ coord' = Finish(coord, Len(queue'))

\* The request is refused, or its answer is lost or comes after the client's
\* timeout: the host may have executed it all the same.
MutationFails ==
  /\ queue # <<>>
  /\ \/ UNCHANGED record
     \/ Executable(Head(queue)) /\ record' = Executed(Head(queue))
  /\ queue' = Tail(queue)
  /\ coord' = Finish(RolledBack(Head(queue)), Len(queue'))
=============================================================================
