----------------------------- MODULE SqlConsole -----------------------------
(***************************************************************************)
(* A SQL console of the Community client: SQLExecute (index.tsx), the hook *)
(* useSqlExecutor with its request tracker, the results (SqlResults) and   *)
(* the execution log (SqlExecutionLog).                                    *)
(*                                                                         *)
(* In the desktop mode a request is a command to the host, answered with   *)
(* an execution id, and a stream of events; the answer and the events      *)
(* travel separately. In the web mode it is one HTTP request. Host and     *)
(* server are external: the host's forwarders decide, when an execution    *)
(* ends, which events follow, and a cancellation they are asked for when   *)
(* it has ended may be answered either way.                                *)
(*                                                                         *)
(* handleExecuteSQL starts a batch and a request together, so the n-th     *)
(* request has requestSequence n, executionSequence n and one execution id.*)
(* An action is one task of the browser's event loop: a click, a message   *)
(* of the bridge or a timer, with the promise reactions it sets off.       *)
(* A definition X_Fault is a faulty variant of the X that follows it.      *)
(***************************************************************************)
EXTENDS SqlResults, SqlExecutionLog

CONSTANTS Requests,      \* 1..n, the requests that may be made
          CancelCalls,   \* the sql-cancel commands that may be sent
          Plans,         \* what an execution may return, one kind a statement
          MaxClicks    \* how often the user acts on tabs, log and preferences, or
                         \* the source fails

VARIABLES
  mode,        \* isDesktop
  tracker,     \* SqlExecutionRequestTracker; active = 0 for undefined
  control,     \* desktopExecutionControlRef: its request, 0 for undefined
  subscribed,  \* the requests whose events have a listener on the bus
  executing,   \* the state behind the stop button
  kept,        \* the entries of the refs of SQLExecute, by request
  view,        \* the results (SqlResults)
  log,         \* the execution log (SqlExecutionLog)
  keep,        \* the preferences: keep results, keep output
  reset,       \* resetResultSessionOnNextExecution
  replaced,    \* latestResultReplacementExecutionSequenceRef
  source,      \* the data source's runtime availability and its generation
  captured,    \* availabilityGenerationByExecutionSequenceRef
  host,        \* the execution of a request in the desktop host
  script,      \* the events of an execution that are still to arrive
  answer,      \* the answer to the command that starts a request
  cancels,     \* the sql-cancel commands
  clicks,      \* tab and history clicks and source failures so far
  told,        \* the keys whose rows were delivered and not written over
  shut         \* the keys the user closed

requestVars == <<tracker, control, subscribed, executing>>
consoleVars == <<kept, view, log, keep, reset, replaced, source, captured>>
hostVars == <<host, script, answer, cancels>>
vars == <<mode, requestVars, consoleVars, hostVars, clicks, told, shut>>

ExecutionId(r) == <<"execution", r>>
StartId(r) == <<"desktop-start", r>>

\* The refs of SQLExecute: executionSequenceByRequestRef; the maps by
\* execution id; the maps by execution sequence, the snapshot registry included.
Refs == {"request", "id", "sequence"}

Init ==
  /\ mode \in {"desktop", "web"}
  /\ tracker = [generation |-> 0, active |-> 0, id |-> "unknown", cancel |-> "no"]
  /\ control = 0 /\ subscribed = {} /\ executing = "no"
  /\ kept = [r \in Requests |-> {}]
  /\ view = EmptyView /\ log = EmptyLog
  /\ keep \in [results : BOOLEAN, output : BOOLEAN] /\ reset = FALSE
  /\ replaced = 0
  /\ source = [state |-> "available", generation |-> 0]
  /\ captured = [r \in Requests |-> 0]
  /\ host = [r \in Requests |-> [kind |-> "none", state |-> "none", cancelled |-> "no"]]
  /\ script = [r \in Requests |-> <<>>]
  /\ answer = [r \in Requests |-> "none"]
  /\ cancels = [c \in CancelCalls |-> [request |-> 0, state |-> "unsent"]]
  /\ clicks = 0 /\ told = {} /\ shut = {}

----------------------------------------------------------------------------
(* The request tracker.                                                    *)

CanBegin == tracker.active = 0

Begun == [generation |-> tracker.generation + 1,
          active |-> tracker.generation + 1,
          id |-> "unknown", cancel |-> "no"]

IsCurrent(r) == tracker.generation = r /\ tracker.active = r

Finished == [tracker EXCEPT !.active = 0, !.id = "unknown", !.cancel = "no"]

----------------------------------------------------------------------------
(* The data source's availability.                                         *)

\* restoreDataSourceRuntimeAvailability with the generation captured at the
\* start: a later transition wins.
Restored(expected) ==
  IF source.generation = expected
  THEN [state |-> "available", generation |-> expected + 1] ELSE source

\* setDataSourceRuntimeAvailability, called by the tree and the editors.
SourceFails ==
  /\ clicks < MaxClicks
  /\ clicks' = clicks + 1
  /\ source' = [state |-> "unavailable", generation |-> source.generation + 1]
  /\ UNCHANGED <<mode, requestVars, kept, view, log, keep, reset, replaced,
                 captured, hostVars, told, shut>>

----------------------------------------------------------------------------
(* Starting a request.                                                     *)

\* beginExecutionBatch: buffered rows are flushed before the results may be
\* replaced.
BatchView(keepResults) ==
  LET flushed == Flush(view)
  IN IF keepResults THEN flushed ELSE SetList(flushed, NoResults)

KeepExistingResults == keep.results /\ ~reset

BeginBatch(r) ==
  /\ view' = BatchView(KeepExistingResults)
  /\ replaced' = IF KeepExistingResults THEN replaced ELSE r
  /\ reset' = FALSE
  /\ captured' = [captured EXCEPT ![r] = source.generation]

\* handleExecuteSQL up to the request in flight; a busy console does nothing.
Execute ==
  LET r == tracker.generation + 1
  IN /\ r \in Requests /\ CanBegin
     /\ BeginBatch(r)
     /\ tracker' = Begun /\ executing' = "yes"
     /\ answer' = [answer EXCEPT ![r] = "asked"]
     /\ \/ /\ mode = "desktop"
           /\ kept' = [kept EXCEPT ![r] = {"sequence", "request"}]
           /\ control' = r /\ subscribed' = subscribed \cup {r}
           /\ log' = PrepareForRequest(log, r, keep.output)
        \/ /\ mode = "web"
           /\ kept' = [kept EXCEPT ![r] = {"sequence", "id"}]
           /\ log' = BeginWeb(PrepareForExecution(log, ExecutionId(r), keep.output),
                              ExecutionId(r))
           /\ UNCHANGED <<control, subscribed>>
     /\ UNCHANGED <<mode, keep, source, host, script, cancels, clicks, told, shut>>

----------------------------------------------------------------------------
(* The desktop host.                                                       *)

Event(kind, statement, success) ==
  [kind |-> kind, statement |-> statement, success |-> success]

\* emit_legacy_sql_result_events.
ResultEvents(statement, kind) ==
  CASE kind = "table" -> << Event("resultStarted", statement, "yes"),
                            Event("rows", statement, "yes"),
                            Event("resultFinished", statement, "yes") >>
    [] kind = "update" -> << Event("updateCount", statement, "yes") >>
    [] kind = "error" -> << Event("updateCount", statement, "no") >>

StatementEvents(statement, kind) ==
  << Event("statementStarted", statement, "yes") >>
  \o ResultEvents(statement, kind)
  \o << Event("statementFinished", statement, "yes") >>

FinishedEvents(plan) ==
  FlattenSeq([i \in DOMAIN plan |-> StatementEvents(i, plan[i])])
  \o << Event("finished", 0, "yes") >>

\* forward_native_mysql_sql_execution and forward_legacy_sql_execution: the
\* first announces only the start, the second its one statement as well.
Opening(kind) ==
  << Event("started", 0, "yes") >>
  \o IF kind = "legacy" THEN << Event("statementStarted", 1, "yes") >> ELSE <<>>

Endings(h) ==
  LET finished == {FinishedEvents(p) : p \in
                     {q \in Plans : \/ h.kind = "native"
                                    \/ Len(q) = 1 /\ q[1] # "error"}}
      cancelled == {<< Event("cancelled", 0, "yes") >>}
      failed == {<< Event("failed", 1, "yes") >>}
  IN CASE h.kind = "native" /\ h.cancelled = "yes" -> cancelled
       [] h.kind = "legacy" /\ h.cancelled = "yes" -> cancelled \cup finished \cup failed
       [] OTHER -> finished \cup failed

\* sql-execute: refused, or spawned and answered.
HostAccepts(r) ==
  /\ mode = "desktop" /\ answer[r] = "asked"
  /\ \/ /\ answer' = [answer EXCEPT ![r] = "refused"]
        /\ UNCHANGED <<host, script>>
     \/ \E kind \in {"native", "legacy"} :
          /\ answer' = [answer EXCEPT ![r] = "accepted"]
          /\ host' = [host EXCEPT ![r] = [kind |-> kind, state |-> "running",
                                         cancelled |-> "no"]]
          /\ script' = [script EXCEPT ![r] = Opening(kind)]
  /\ UNCHANGED <<mode, requestVars, consoleVars, cancels, clicks, told, shut>>

HostEnds(r) ==
  /\ host[r].state = "running"
  /\ host' = [host EXCEPT ![r].state = "over"]
  /\ \E events \in Endings(host[r]) :
       script' = [script EXCEPT ![r] = @ \o events]
  /\ UNCHANGED <<mode, requestVars, consoleVars, answer, cancels, clicks, told,
                 shut>>

\* sql-cancel. The native registry accepts one cancellation, and none once the
\* forwarder has removed its entry; Core accepts any while the operation runs.
\* The bridge may fail.
CancelReplies(h) ==
  CASE h.kind = "native" /\ h.cancelled = "yes" -> {"false", "error"}
    [] h.kind = "native" /\ h.cancelled = "no" /\ h.state = "over" ->
         {"true", "false", "error"}
    [] h.kind = "legacy" /\ h.state = "over" -> {"false", "error"}
    [] OTHER -> {"true", "error"}

HostCancels(c) ==
  LET r == cancels[c].request
  IN /\ cancels[c].state = "sent"
     /\ \E reply \in CancelReplies(host[r]) :
          /\ cancels' = [cancels EXCEPT ![c].state = reply]
          /\ host' = IF reply = "true"
                     THEN [host EXCEPT ![r].cancelled = "yes"] ELSE host
     /\ UNCHANGED <<mode, requestVars, consoleVars, script, answer, clicks,
                    told, shut>>

----------------------------------------------------------------------------
(* Events of a running request.                                            *)

\* cleanupDesktopExecutionRequest, with and without an execution id.
CleanedView(v, r) ==
  [DiscardPendingOf(v, r) EXCEPT !.closed = {k \in @ : Request(k) # r}]

\* The part of handleSqlExecutionEvent that changes the results.
EventView(r, e, long) ==
  LET key == <<r, e.statement>>
  IN CASE e.kind = "resultStarted" -> ResultStarted(view, key)
       [] e.kind = "rows" -> RowsArrive(view, key, 1, long)
       [] e.kind = "resultFinished" -> ResultFinished(view, key, 0)
       [] e.kind = "updateCount" -> ResultFinished(view, key, NotTabular)
       [] e.kind \in TerminalKinds -> CleanedView(Flush(view), r)
       [] OTHER -> view

\* handleSqlExecutionEvent. After a terminal event the promise of the request
\* settles, and its reactions drop the maps by execution sequence once more.
HandleEvent(r, e, long) ==
  LET ends == e.kind \in TerminalKinds
      known == Refs \ {"id"} \subseteq kept[r]
      shown == known /\ r >= replaced     \* shouldAcceptExecutionResult
  IN /\ kept' = [kept EXCEPT ![r] = CASE ends -> {}
                                      [] ~ends /\ "request" \in @ -> @ \cup {"id"}
                                      [] OTHER -> @]
     /\ log' = IF known THEN ReduceRequestEvent(log, r, ExecutionId(r), e) ELSE log
     /\ source' = IF known /\ e.kind = "finished" THEN Restored(captured[r]) ELSE source
     /\ view' = CASE shown -> EventView(r, e, long)
                  [] ~shown /\ "request" \in kept[r] /\ ends -> CleanedView(view, r)
                  [] known /\ ~shown /\ ~ends -> DiscardPendingOf(view, r)
                  [] OTHER -> view
     /\ told' = IF e.kind = "rows" THEN told \cup {<<r, e.statement>>} ELSE told

\* finishSqlExecutionRequest and the state of the stop button.
FinishRequest(r) ==
  IF IsCurrent(r) THEN tracker' = Finished /\ executing' = "no"
                  ELSE UNCHANGED <<tracker, executing>>

\* The listener of executeSQL: a terminal event ends the request.
EventArrives(r) ==
  /\ script[r] # <<>> /\ r \in subscribed
  /\ script' = [script EXCEPT ![r] = Tail(@)]
  /\ \E long \in {"no", "yes"} :
       /\ long = "yes" => Head(script[r]).kind = "rows"
       /\ HandleEvent(r, Head(script[r]), long)
  /\ \/ /\ Head(script[r]).kind \notin TerminalKinds
        /\ UNCHANGED requestVars
     \/ /\ Head(script[r]).kind \in TerminalKinds
        /\ subscribed' = subscribed \ {r}
        /\ control' = IF control = r THEN 0 ELSE control
        /\ FinishRequest(r)
  /\ UNCHANGED <<mode, keep, reset, replaced, captured, host, answer, cancels,
                 clicks, shut>>

\* Events without a listener are dropped by the bus.
EventsDropped(r) ==
  /\ script[r] # <<>> /\ r \notin subscribed
  /\ script' = [script EXCEPT ![r] = <<>>]
  /\ UNCHANGED <<mode, requestVars, consoleVars, host, answer, cancels, clicks,
                 told, shut>>

----------------------------------------------------------------------------
(* The answer to the start, and cancellation.                              *)

Unsent == {c \in CancelCalls : cancels[c].state = "unsent"}

\* requestDesktopCancellation.
SendCancel(r) ==
  LET c == CHOOSE c \in Unsent : \A d \in Unsent : c <= d
  IN cancels' = [cancels EXCEPT ![c] = [request |-> r, state |-> "sent"]]

\* The id arrives: a cancellation asked for before is sent now.
StartAnswered_Fault(r) ==
  /\ answer[r] = "accepted"
  /\ answer' = [answer EXCEPT ![r] = "answered"]
  /\ tracker' = IF IsCurrent(r) THEN [tracker EXCEPT !.id = "known"] ELSE tracker
  /\ UNCHANGED <<mode, control, subscribed, executing, consoleVars, cancels, host,
                 script, clicks, told, shut>>

StartAnswered(r) ==
  /\ answer[r] = "accepted"
  /\ answer' = [answer EXCEPT ![r] = "answered"]
  /\ tracker' = IF IsCurrent(r) THEN [tracker EXCEPT !.id = "known"] ELSE tracker
  /\ IF IsCurrent(r) /\ tracker.cancel = "yes" THEN SendCancel(r)
                                               ELSE UNCHANGED cancels
  /\ UNCHANGED <<mode, control, subscribed, executing, consoleVars, host, script,
                 clicks, told, shut>>

\* rejectStart, and handleSqlExecutionRequestStartError when it ends the request.
StartRefused(r) ==
  /\ answer[r] = "refused"
  /\ answer' = [answer EXCEPT ![r] = "answered"]
  /\ subscribed' = subscribed \ {r}
  /\ control' = IF control = r THEN 0 ELSE control
  /\ FinishRequest(r)
  /\ IF IsCurrent(r)
     THEN /\ log' = IF Refs \ {"id"} \subseteq kept[r]
                    THEN FailWeb(log, StartId(r), FALSE) ELSE log
          /\ kept' = [kept EXCEPT ![r] = @ \ {"request", "sequence"}]
     ELSE UNCHANGED <<log, kept>>
  /\ UNCHANGED <<mode, view, keep, reset, replaced, source, captured, host, script,
                 cancels, clicks, told, shut>>

\* stopExecuteSQL on the desktop: a cancellation is noted, and sent when the id
\* is known.
Stop ==
  /\ mode = "desktop" /\ tracker.active # 0 /\ Unsent # {}
  /\ tracker' = [tracker EXCEPT !.cancel = "yes"]
  /\ IF tracker.id = "known" THEN SendCancel(tracker.active) ELSE UNCHANGED cancels
  /\ UNCHANGED <<mode, control, subscribed, executing, consoleVars, host, script,
                 answer, clicks, told, shut>>

\* cancelSqlExecutionWithReconciliation: "false" is taken for a missing
\* execution, which the client ends by itself.
CancelAnswered(c) ==
  LET r == cancels[c].request
      missing == cancels[c].state = "false" /\ control = r
  IN /\ cancels[c].state \in {"true", "false", "error"}
     /\ cancels' = [cancels EXCEPT ![c].state = IF @ = "error" THEN "reported" ELSE "done"]
     /\ \/ /\ missing
           /\ HandleEvent(r, Event("cancelled", 0, "yes"), "no")
           /\ subscribed' = subscribed \ {r}
           /\ control' = 0 /\ executing' = "no"
           /\ tracker' = IF IsCurrent(r) THEN Finished ELSE tracker
        \/ /\ ~missing
           /\ UNCHANGED <<requestVars, kept, log, source, view, told>>
     /\ UNCHANGED <<mode, keep, reset, replaced, captured, host, script, answer,
                    clicks, shut>>

----------------------------------------------------------------------------
(* The web mode.                                                           *)

\* The reactions to the promise of a web request; the busy flag goes first.
WebEnds(r, newLog, newView, newSource) ==
  /\ mode = "web" /\ answer[r] = "asked"
  /\ answer' = [answer EXCEPT ![r] = "answered"]
  /\ FinishRequest(r)
  /\ log' = newLog /\ view' = newView /\ source' = newSource
  /\ kept' = [kept EXCEPT ![r] = {}]
  /\ UNCHANGED <<mode, control, subscribed, keep, reset, replaced, captured, host,
                 script, cancels, clicks, shut>>

WebAnswers(r) ==
  \E plan \in Plans \cup {<<>>} :
    LET keys == {<<r, i>> : i \in DOMAIN plan}
        results == [k \in keys |-> IF plan[k[2]] = "table" THEN 1 ELSE NotTabular]
        outcomes == [i \in DOMAIN plan |->
                       [statement |-> i,
                        success |-> IF plan[i] = "error" THEN "no" ELSE "yes"]]
    IN /\ WebEnds(r, CompleteWeb(log, ExecutionId(r), outcomes),
                  IF plan # <<>> /\ r >= replaced THEN ResultsArrive(view, results)
                                               ELSE view,
                  Restored(captured[r]))
       /\ told' = told \cup Tabs(results)

\* The request fails, or stopExecuteSQL aborts it.
WebFails(r) ==
  /\ \E cancelled \in BOOLEAN :
       WebEnds(r, FailWeb(log, ExecutionId(r), cancelled), view, source)
  /\ UNCHANGED told

----------------------------------------------------------------------------
(* The timer of the row buffer, the tabs and the preferences.              *)

FlushTimer ==
  /\ view.timer = "on"
  /\ view' = Flush(view)
  /\ UNCHANGED <<mode, requestVars, kept, log, keep, reset, replaced, source,
                 captured, hostVars, clicks, told, shut>>

\* React renders the list, and the effect of SearchResult takes it over.
Render ==
  /\ view.fresh = "yes"
  /\ view' = Rendered(view)
  /\ UNCHANGED <<mode, requestVars, kept, log, keep, reset, replaced, source,
                 captured, hostVars, clicks, told, shut>>

\* The close button of a tab. A result of an execution with an id in
\* executionSequenceByIdRef is still streaming.
CloseTab ==
  /\ clicks < MaxClicks /\ clicks' = clicks + 1
  /\ \E k \in Tabs(view.tabs) :
       /\ view' = CloseResult(view, k, "id" \in kept[Request(k)])
       /\ shut' = shut \cup {k}
  /\ told' = told \ WrittenOver(view)
  /\ UNCHANGED <<mode, requestVars, kept, log, keep, reset, replaced, source,
                 captured, hostVars>>

PinTab ==
  /\ clicks < MaxClicks /\ clicks' = clicks + 1
  /\ \E k \in Tabs(view.tabs) : view' = PinResult(view, k)
  /\ UNCHANGED <<mode, requestVars, kept, log, keep, reset, replaced, source,
                 captured, hostVars, told, shut>>

\* reduceSqlResultHistoryMode with another preference.
ToggleKeepResults ==
  /\ clicks < MaxClicks /\ clicks' = clicks + 1
  /\ keep' = [keep EXCEPT !.results = ~@] /\ reset' = TRUE
  /\ UNCHANGED <<mode, requestVars, kept, view, log, replaced, source, captured,
                 hostVars, told, shut>>

ToggleKeepOutput ==
  /\ clicks < MaxClicks /\ clicks' = clicks + 1
  /\ keep' = [keep EXCEPT !.output = ~@]
  /\ UNCHANGED <<mode, requestVars, kept, view, log, reset, replaced, source,
                 captured, hostVars, told, shut>>

ClearExecutionLog ==
  /\ clicks < MaxClicks /\ clicks' = clicks + 1
  /\ log' = ClearLog(log)
  /\ UNCHANGED <<mode, requestVars, kept, view, keep, reset, replaced, source,
                 captured, hostVars, told, shut>>

Next ==
  \/ Execute \/ Stop \/ FlushTimer \/ Render \/ CloseTab \/ PinTab
  \/ ToggleKeepResults \/ ToggleKeepOutput \/ ClearExecutionLog \/ SourceFails
  \/ \E r \in Requests : \/ HostAccepts(r) \/ HostEnds(r)
                         \/ EventArrives(r) \/ EventsDropped(r)
                         \/ StartAnswered(r) \/ StartRefused(r)
                         \/ WebAnswers(r) \/ WebFails(r)
  \/ \E c \in CancelCalls : HostCancels(c) \/ CancelAnswered(c)

Spec == Init /\ [][Next]_vars

----------------------------------------------------------------------------
(* Properties.                                                             *)

\* Every row the host sends is shown or buffered exactly once, until the user
\* closes its result, a later batch replaces it or HISTORY_BATCH_LIMIT later
\* batches have begun; and a buffered row has a timer that will show it. A row
\* that was flushed and not yet rendered when another tab is closed is written
\* over (CloseResult), and no longer counted.
RowsAccounted ==
  LET rows(f, k) == IF k \in DOMAIN f THEN f[k] ELSE 0
      safe(k) == /\ Request(k) >= replaced
                 /\ tracker.generation - Request(k) < HistoryBatchLimit
  IN /\ \A k \in told \ shut :
          LET n == rows(view.list, k) + rows(view.pending, k)
          IN n <= 1 /\ (safe(k) => n = 1)
     /\ view.pending # NoResults => view.timer = "on"

\* A result the user closed never comes back, whatever its execution still
\* streams (closedSqlExecutionResultsRef).
ClosedStaysClosed == shut \cap (DOMAIN view.tabs \cup DOMAIN view.pending) = {}

\* A large value is handed back to the server only when no tab shows it: the
\* comment of SearchResult says anything else "would release content the user
\* can still open".
ShownNotReleased == LargeValues(view.tabs) \cap view.released = {}

\* A console without an active request has no listener, no entry in any ref,
\* no stop button, no running log record and no execution the log follows;
\* with one, nothing is left of the others.
RequestLeavesNothing ==
  /\ executing = "yes" <=> tracker.active # 0
  /\ subscribed \subseteq {tracker.active}
  /\ \A r \in Requests \ {tracker.active} :
       /\ kept[r] = {}
       /\ ExecutionId(r) \notin log.active \cup Unsettled(log.records)

\* A stop is never lost, also one asked for before the id of the execution is
\* known: until the request ends, its start is unanswered, or a sql-cancel is
\* under way or failed and was reported, or the host accepted the cancellation
\* and the console still listens for the end of the execution.
StopNotLost ==
  LET r == tracker.active
      mine == {c \in CancelCalls : cancels[c].request = r}
  IN (r # 0 /\ tracker.cancel = "yes") =>
       \/ answer[r] \in {"asked", "accepted", "refused"}
       \/ \E c \in mine : cancels[c].state \in {"sent", "false", "error", "reported"}
       \/ /\ r \in subscribed /\ host[r].cancelled = "yes"
          /\ host[r].state = "over" => script[r] # <<>>

\* The client takes a cancellation's answer for a missing execution, and ends
\* the request by itself, only when the host is no longer running it
\* (onExecutionMissing).
MissingMeansOver ==
  \A c \in CancelCalls :
    cancels[c].state = "false" => host[cancels[c].request].state # "running"
=============================================================================
