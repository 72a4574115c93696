----------------------------- MODULE EditorTab ------------------------------
(***************************************************************************)
(* One editor tab of the Community client's workspace, from the first key  *)
(* to the closed tab or the closed application: a console                  *)
(* (components/SQLEditor/hooks/useSaveEditorData.ts, a record of           *)
(* SavedConsole) or a local file (SQLEditorWithOperation, a file of        *)
(* LocalFileSaves), with the guard that a closing tab and an exiting       *)
(* application go through (utils/editorCloseGuard.ts,                      *)
(* utils/editorCloseConfirmation.tsx, layouts/init/).  The component the   *)
(* tab is not of stays in its initial state.                               *)
(***************************************************************************)
EXTENDS LocalFileSaves, SavedConsole, FiniteSets

CONSTANTS NoText,
          MaxEdits, MaxSaves, MaxQueue, MaxCommands, MaxFaults   \* bounds of the exploration

ASSUME TextsAssumption == Texts \subseteq Contents /\ Blank \in Contents /\ NoText \notin Contents

VARIABLES
  kind,      \* "console" or "file"
  asks,      \* editorSettings.confirmBeforeClose
  text,      \* what the editor shows
  sync,      \* lastSyncConsole of a console, the diff baseline of a file
  status,    \* saveStatusRef of a console
  draft,     \* the console's text in the IndexedDB, or NoText
  snapshot,  \* the text in the stored tab list, the one the tab was opened with
  loading,   \* what a console reads when it is opened, NoText once it is answered
  phase,     \* where the tab is on its way out
  goal,      \* "close" or "exit"; "none" in the dialog that names a first save
  closer,    \* the file save a closing tab waits for
  budget,    \* edits, commands and faults so far; for the properties, the
             \* commands that failed since the queue was last empty (`failing`)
             \* and those whose failure the coordinator cannot undo (`tangled`)
  fate,      \* for the properties: what happened on the way out
  stale      \* for the properties: `sync` was not taken from what is stored

editorVars == <<kind, asks, snapshot, loading, text, sync, stale, status, draft, phase, goal, closer, budget, fate>>

vars == <<fileVars, consoleVars, editorVars>>

Ended == phase \in {"closed", "exited"}

\* The dialogs cover the editor.
Editable == phase \in {"open", "waiting", "saving", "flushing", "exiting"}

Count(what) == budget' = [budget EXCEPT ![what] = @ + 1]

\* What the tab shows when it is opened again: a file what is on disk, a saved
\* console its record (createSavedConsoleLoadSQL), a draft the text of the
\* stored tab list and, only where that is blank, its text in the IndexedDB
\* (the first effect of useSaveEditorData).
Restored ==
  CASE kind = "file" -> disk.text
    [] kind = "console" /\ status = "RELEASE" -> record.ddl
    [] kind = "console" /\ status = "DRAFT" ->
         IF snapshot # Blank \/ draft = NoText THEN snapshot ELSE draft

\* A tab that was just opened: the editor shows the text of the stored tab
\* list, which is also the baseline, and a console reads what is stored.
Init ==
  /\ FileInit
  /\ kind \in {"console", "file"}
  /\ asks \in BOOLEAN
  /\ coord = FreshState
  /\ queue = <<>>
  /\ snapshot \in {Blank, InitialContent}
  /\ \/ /\ kind = "file" /\ snapshot = InitialContent
        /\ status = "RELEASE" /\ draft = NoText /\ loading = NoText
        /\ record = [status |-> status, ddl |-> snapshot]
     \/ /\ kind = "console" /\ status = "RELEASE" /\ draft = NoText
        /\ record = [status |-> status, ddl |-> InitialContent]
        /\ loading = [of |-> status, text |-> record.ddl]
     \/ /\ kind = "console" /\ status = "DRAFT" /\ draft \in {NoText, InitialContent}
        /\ record = [status |-> status, ddl |-> snapshot]
        /\ loading = IF draft = NoText THEN NoText ELSE [of |-> status, text |-> draft]
  /\ text = snapshot
  /\ sync = snapshot
  /\ stale = (Restored # snapshot)
  /\ phase = "open"
  /\ goal = "none"
  /\ closer = 0
  /\ budget = [edits |-> 0, commands |-> 0, faults |-> 0, failing |-> 0, tangled |-> 0]
  /\ fate = {}

\* A text that changes once the guard has looked at it.
Touched == IF phase \in {"open", "waiting"} THEN fate ELSE fate \union {"typed"}

\* Typing, pasting, undoing.
Type(t) ==
  /\ Editable
  /\ t # text
  /\ budget.edits < MaxEdits
  /\ Count("edits")
  /\ text' = t
  /\ fate' = Touched
  /\ UNCHANGED <<fileVars, consoleVars, kind, asks, snapshot, loading, sync, stale, status, draft, phase, goal, closer>>

\* The console gets what it reads when it is opened.  The record of a saved
\* console (the text of the tab list where it cannot be read) replaces
\* whatever the editor shows; the draft in the IndexedDB replaces a blank text
\* only.  Neither moves lastSyncConsole.
Load ==
  /\ loading # NoText /\ ~Ended
  /\ loading' = NoText
  /\ \/ /\ loading.of = "RELEASE"
        /\ text' \in {loading.text, snapshot}
        /\ snapshot' = text'
     \/ /\ loading.of = "DRAFT"
        /\ text' = IF text = Blank THEN loading.text ELSE text
        /\ UNCHANGED snapshot
  /\ fate' = Touched
  /\ UNCHANGED <<fileVars, consoleVars, kind, asks, sync, stale, status, draft, phase, goal, closer, budget>>
-----------------------------------------------------------------------------
(* The guard.                                                              *)

\* hasUnsavedChangesBeforeClose, against the baseline b: a file and a saved
\* console compare, an unsaved console is dirty unless it is blank.
Dirty(b) == IF kind = "console" /\ status = "DRAFT" THEN text # Blank ELSE text # b

Through(g) == IF g = "close" THEN "closed" ELSE "exiting"

\* confirmDirtyEditorTabsAfterPending for this tab.
AfterPending(g, b) == IF asks /\ Dirty(b) THEN "asking" ELSE Through(g)

\* closeWindowTab also deletes the console's text in the IndexedDB.
DraftAfter(p) == draft' = IF p = "closed" THEN NoText ELSE draft

\* The baseline is taken from what was stored; a write that happens without
\* moving the baseline leaves it stale.
Rebased(moved, written) == stale' = (~moved /\ (stale \/ written))

\* requestCloseWorkspaceTabs, and APP_EXIT_REQUESTED for a file: wait for the
\* saves of the file, then look whether the tab is dirty.
LeaveWait_Fault(g) == AfterPending(g, sync)

LeaveWait(g) == IF kind = "file" /\ Draining THEN "waiting" ELSE AfterPending(g, sync)

Leave(g) ==
  /\ phase = "open"
  /\ kind = "console" => g = "close"
  /\ goal' = g
  /\ phase' = LeaveWait(g)
  /\ DraftAfter(phase')
  /\ fate' = IF queue = <<>> THEN {} ELSE {"saving"}
  /\ UNCHANGED <<fileVars, consoleVars, kind, asks, snapshot, loading, text, sync, stale, status, closer, budget>>

DecideCancel ==
  /\ phase = "asking"
  /\ phase' = "open"
  /\ UNCHANGED <<fileVars, consoleVars, kind, asks, snapshot, loading, text, sync, stale, status, draft, goal, closer, budget, fate>>

DecideDiscard ==
  /\ phase = "asking"
  /\ phase' = Through(goal)
  /\ DraftAfter(phase')
  /\ fate' = fate \union {"discarded"}
  /\ UNCHANGED <<fileVars, consoleVars, kind, asks, snapshot, loading, text, sync, stale, status, goal, closer, budget>>

\* saveBeforeClose
DecideSave ==
  /\ phase = "asking"
  /\ \/ /\ kind = "file"
        /\ asked < MaxSaves
        /\ RequestSave(text)
        /\ closer' = asked'
        /\ phase' = "saving"
        /\ UNCHANGED <<consoleVars, budget>>
     \/ /\ kind = "console" /\ status = "RELEASE"
        /\ Len(queue) < MaxQueue /\ budget.commands < MaxCommands
        /\ ManualSave(text, "close")
        /\ Count("commands")
        /\ phase' = "saving"
        /\ UNCHANGED <<fileVars, closer>>
     \/ /\ kind = "console" /\ status = "DRAFT"
        /\ phase' = "naming"
        /\ UNCHANGED <<fileVars, consoleVars, closer, budget>>
  /\ UNCHANGED <<kind, asks, snapshot, loading, text, sync, stale, status, draft, goal, fate>>

\* coordinateApplicationExit, once the editors let go: the window is closed, the
\* exit is called off, or the user is asked first because tasks are active.
ExitOn ==
  /\ phase = "exiting"
  /\ phase' \in {"exited", "open", "confirming"}
  /\ UNCHANGED <<fileVars, consoleVars, kind, asks, snapshot, loading, text, sync, stale, status, draft, goal, closer, budget, fate>>

\* The user's answer in that dialog, which can still be cancelled while the
\* exit is being finished.
ConfirmExit(ok) ==
  /\ phase = "confirming" \/ (phase = "finishing" /\ ~ok)
  /\ phase' = IF ok THEN "finishing" ELSE "open"
  /\ UNCHANGED <<fileVars, consoleVars, kind, asks, snapshot, loading, text, sync, stale, status, draft, goal, closer, budget, fate>>

\* finishApplicationExit from the dialog, which stays open when that fails.
FinishExit ==
  /\ phase = "finishing"
  /\ phase' \in {"exited", "confirming"}
  /\ UNCHANGED <<fileVars, consoleVars, kind, asks, snapshot, loading, text, sync, stale, status, draft, goal, closer, budget, fate>>
-----------------------------------------------------------------------------
(* A local file.                                                           *)

\* handleSaveFile
SaveFile ==
  /\ kind = "file" /\ Editable
  /\ asked < MaxSaves
  /\ RequestSave(text)
  /\ UNCHANGED <<consoleVars, editorVars>>

\* The answer reaches handleSaveFile, which takes the written content as the
\* baseline, and then the tab that waits for it or for an idle queue.
FileAnswered ==
  LET base == IF saved' # saved THEN inFlight.text ELSE sync IN
  /\ sync' = base
  /\ Rebased(saved' # saved, disk'.text # disk.text)
  /\ phase' = CASE phase = "saving" /\ closer \in saved' -> Through(goal)
                [] phase = "saving" /\ closer \in failed' -> "open"
                [] phase = "waiting" /\ inFlight'.waiters = {} -> AfterPending(goal, base)
                [] OTHER -> phase
  /\ UNCHANGED <<consoleVars, kind, asks, snapshot, loading, text, status, draft, goal, closer>>

FileSucceeds ==
  /\ phase # "exited"
  /\ Written
  /\ FileAnswered
  /\ UNCHANGED <<budget, fate>>

FileFails ==
  /\ phase # "exited"
  /\ budget.faults < MaxFaults
  /\ Refused
  /\ FileAnswered
  /\ Count("faults")
  /\ UNCHANGED fate
-----------------------------------------------------------------------------
(* A console.                                                              *)

\* persistAutomaticValue, by the five-second timer or by a tab that becomes
\* inactive (`awaits` is "none"), and by an exit ("flush"), which goes on at
\* once when the text is in the IndexedDB.
Persist(awaits, next) ==
  \/ /\ status = "RELEASE" /\ ~AutomaticBlocked
     /\ Len(queue) < MaxQueue
     /\ AutomaticSave(text, awaits)
     /\ phase' = IF awaits = "flush" THEN "flushing" ELSE phase
     /\ UNCHANGED <<sync, stale, draft>>
  \/ /\ status = "DRAFT" \/ AutomaticBlocked
     /\ draft' = text
     /\ sync' = text
     /\ stale' = (status = "RELEASE")
     /\ phase' = next
     /\ UNCHANGED consoleVars

AutoSave ==
  /\ kind = "console" /\ ~Ended
  /\ text # sync
  /\ Persist("none", phase)
  /\ UNCHANGED <<fileVars, kind, asks, snapshot, loading, text, status, goal, closer, budget, fate>>

\* prepareEditorsForApplicationExit for a console: flush, ask nothing.
ExitConsole ==
  /\ kind = "console" /\ phase = "open"
  /\ goal' = "exit"
  /\ fate' = IF queue = <<>> THEN {} ELSE {"saving"}
  /\ \/ text = sync /\ phase' = "exiting" /\ UNCHANGED <<consoleVars, sync, stale, draft>>
     \/ text # sync /\ Persist("flush", "exiting")
  /\ UNCHANGED <<fileVars, kind, asks, snapshot, loading, text, status, closer, budget>>

\* handleSave: a first save asks for a name.
SaveConsole ==
  /\ kind = "console" /\ Editable
  /\ \/ /\ status = "RELEASE"
        /\ Len(queue) < MaxQueue /\ budget.commands < MaxCommands
        /\ ManualSave(text, "none")
        /\ Count("commands")
        /\ UNCHANGED <<phase, goal>>
     \/ /\ status = "DRAFT" /\ phase = "open"
        /\ phase' = "naming" /\ goal' = "none"
        /\ UNCHANGED <<consoleVars, budget>>
  /\ UNCHANGED <<fileVars, kind, asks, snapshot, loading, text, sync, stale, status, draft, closer, fate>>

\* initialSaveLoading
NameSaving == \E i \in 1 .. Len(queue) : queue[i].awaits = "name"

ConfirmInitialSave ==
  /\ phase = "naming" /\ ~NameSaving
  /\ Len(queue) < MaxQueue /\ budget.commands < MaxCommands
  /\ ManualSave(text, "name")
  /\ Count("commands")
  /\ UNCHANGED <<fileVars, kind, asks, snapshot, loading, text, sync, stale, status, draft, phase, goal, closer, fate>>

CancelInitialSave ==
  /\ phase = "naming" /\ ~NameSaving
  /\ phase' = "open"
  /\ UNCHANGED <<fileVars, consoleVars, kind, asks, snapshot, loading, text, sync, stale, status, draft, goal, closer, budget, fate>>

\* removeSavedConsole, of a console the list of saved consoles shows.
RemoveSaved ==
  /\ kind = "console" /\ (Editable \/ phase = "closed")
  /\ record.status = "RELEASE"
  /\ Len(queue) < MaxQueue /\ budget.commands < MaxCommands
  /\ Removal(IF phase = "closed" THEN "delete" ELSE "keepDraft")
  /\ Count("commands")
  /\ UNCHANGED <<fileVars, kind, asks, snapshot, loading, text, sync, stale, status, draft, phase, goal, closer, fate>>

\* Where the tab goes once the mutation it awaits has ended.
Awaited_Fault(m, ok) ==
  CASE m.awaits = "close" /\ phase = "saving" /\ ok -> "closed"
    [] m.awaits = "flush" /\ phase = "flushing" /\ ok -> "exiting"
    [] m.awaits = "name" /\ ok -> IF goal = "close" THEN "closed" ELSE "open"
    [] OTHER -> phase

Awaited(m, ok) ==
  CASE m.awaits = "close" /\ phase = "saving" -> IF ok THEN "closed" ELSE "open"
    [] m.awaits = "flush" /\ phase = "flushing" -> IF ok THEN "exiting" ELSE "open"
    [] m.awaits = "name" /\ ok -> IF goal = "close" THEN "closed" ELSE "open"
    [] OTHER -> phase

\* saveConsole's continuation: only a current save moves the baseline and
\* deletes the text in the IndexedDB.
Accepted(m) == Publishes(m) /\ IsCurrent(m)

SaveSucceeds ==
  LET m == Head(queue) IN
  /\ phase # "exited"
  /\ MutationSucceeds
  /\ phase' = Awaited(m, TRUE)
  /\ sync' = IF Accepted(m) THEN m.ddl ELSE sync
  /\ Rebased(Accepted(m), record'.ddl # record.ddl)
  /\ status' = IF Accepted(m) THEN "RELEASE" ELSE status
  /\ draft' = IF Accepted(m) \/ phase' = "closed" THEN NoText ELSE draft
  /\ budget' = [budget EXCEPT !.failing = IF Len(queue) = 1 THEN 0 ELSE @]
  /\ UNCHANGED <<fileVars, kind, asks, snapshot, loading, text, goal, closer, fate>>

\* For the properties: the coordinator cannot undo a command that fails though
\* the host executed it, right before an automatic save that was chained on
\* the strength of it, or after another one it was chained behind.
Tangled(m) ==
  /\ m.kind # "automatic"
  /\ record' # record \/ budget.failing > 0 \/ (Len(queue) > 1 /\ queue[2].kind = "automatic")

SaveFails ==
  LET m == Head(queue) IN
  /\ phase # "exited"
  /\ budget.faults < MaxFaults
  /\ MutationFails
  /\ phase' = Awaited(m, FALSE)
  /\ Rebased(FALSE, record'.ddl # record.ddl)
  /\ budget' = [budget EXCEPT !.faults = @ + 1,
                              !.tangled = IF Tangled(m) THEN @ + 1 ELSE @,
                              !.failing = IF Len(queue) = 1 THEN 0
                                          ELSE IF m.kind # "automatic" THEN 1 ELSE @]
  /\ UNCHANGED <<fileVars, kind, asks, snapshot, loading, text, sync, status, draft, goal, closer, fate>>
-----------------------------------------------------------------------------
Next ==
  \/ (\E t \in Texts : Type(t)) \/ Load
  \/ \E g \in {"close", "exit"} : Leave(g)
  \/ DecideCancel \/ DecideDiscard \/ DecideSave
  \/ ExitOn \/ (\E ok \in BOOLEAN : ConfirmExit(ok)) \/ FinishExit
  \/ SaveFile \/ FileSucceeds \/ FileFails
  \/ AutoSave \/ ExitConsole \/ SaveConsole
  \/ ConfirmInitialSave \/ CancelInitialSave
  \/ RemoveSaved \/ SaveSucceeds \/ SaveFails

Spec == Init /\ [][Next]_vars

\* Every write and every request of a mutation ends, and so does an exit, as
\* far as it does not wait for the user.
FairSpec ==
  /\ Spec
  /\ WF_vars(FileSucceeds \/ FileFails)
  /\ WF_vars(SaveSucceeds \/ SaveFails)
  /\ WF_vars(ExitOn)
  /\ WF_vars(FinishExit)
-----------------------------------------------------------------------------
\* The tab left with the user asked about what was not stored, nothing thrown
\* away, nothing changed once the guard had looked, and a baseline that was
\* taken from what is stored.
LeftInOrder == Ended /\ asks /\ fate \intersect {"discarded", "typed"} = {} /\ ~stale

\* The consoles the client restores faithfully: no save was under way when the
\* guard looked at them (it waits for the saves of files only), they were not
\* removed from the saved ones while open, and a draft was opened blank.
Restorable ==
  /\ "saving" \notin fate
  /\ status = "RELEASE" => record.status = "RELEASE"
  /\ status = "DRAFT" => snapshot = Blank

\* A tab that closes without a question, or after its text was saved, and an
\* application that exits, lose nothing of what the editor showed: it is what
\* the tab shows when it is opened again, also after saves that failed.
LeaveKeepsText == LeftInOrder /\ (kind = "console" => Restorable) => Restored = text

\* An automatic save publishes no console that was removed from the saved
\* ones: only a manual save makes a draft a released console, however saves,
\* removals, their failures and the timer are interleaved, as long as no
\* command failed in a way the coordinator cannot undo.
OnlyManualPublishes ==
  [][record.status = "DRAFT" /\ record'.status = "RELEASE" /\ budget.tangled = 0
       => Head(queue).kind = "manual"]_vars

\* Once the mutations of an open console that was saved have ended, its
\* automatic saves are blocked exactly if its record is a draft: a command that
\* failed is undone if it was the last one, and otherwise left to the commands
\* behind it.
BlockFollowsRecord ==
  kind = "console" /\ ~Ended /\ status = "RELEASE" /\ queue = <<>> /\ budget.tangled = 0
    => (coord.publishDesired <=> record.status = "RELEASE")

\* A tab on its way out gets there, is open again or waits for the user's
\* answer: no save and no exit it waits for stays unanswered.
LeaveEnds ==
  phase \in {"waiting", "saving", "flushing", "exiting", "finishing"}
    ~> phase \in {"open", "asking", "confirming", "closed", "exited"}
=============================================================================
