----------------------------- MODULE SqlResults -----------------------------
(***************************************************************************)
(* The results of a SQL console: the list kept by SQLExecute (list), the   *)
(* copy its tabs show (tabs, kept by SearchResult), the rows buffered for  *)
(* the next flush (pending, with its timer), the results closed while they *)
(* stream (closed), the pinned tabs (pinned) and the large values handed   *)
(* back to the server (released).                                          *)
(*                                                                         *)
(* A result has the key <<request, statement>>, which stands for its       *)
(* resultKey, its uuid and its tab. The code keeps the list sorted by      *)
(* execution, statement and result, which is the order of the keys: the    *)
(* list is the function from the keys it holds to their number of rows. A  *)
(* result with rows holds one large value, named by its key.               *)
(*                                                                         *)
(* React renders a new list, and runs the effect that copies it to the     *)
(* tabs, some time after the message or the timer that set it (fresh);     *)
(* more messages, and a click on a tab, may come first.                    *)
(***************************************************************************)
EXTENDS Integers, FiniteSets, Functions

CONSTANT HistoryBatchLimit   \* HISTORY_BATCH_LIMIT

NoResults == [k \in {} |-> 0]

\* An update count is a result without a table, and without a tab.
NotTabular == -1
Tabs(results) == {k \in DOMAIN results : results[k] # NotTabular}

EmptyView == [list |-> NoResults, fresh |-> "no", tabs |-> NoResults,
              pending |-> NoResults, timer |-> "off", closed |-> {}, pinned |-> {}, released |-> {}]

Request(key) == key[1]

\* A function with one more entry, and one with some entries removed.
Put(f, key, value) == [k \in DOMAIN f \cup {key} |-> IF k = key THEN value ELSE f[k]]
Without(f, keys) == Restrict(f, DOMAIN f \ keys)

LargeValues(results) == {k \in DOMAIN results : results[k] > 0}

----------------------------------------------------------------------------
\* retainLatestResultBatches.
RetainLatestBatches(results) ==
  LET batches == {Request(k) : k \in DOMAIN results}
      newer(b) == {c \in batches : c > b}
  IN Restrict(results, {k \in DOMAIN results :
                          Cardinality(newer(Request(k))) < HistoryBatchLimit})

\* retainPinnedResults: what the tabs show when the list arrives.
RetainPinned(incoming, shown, pinned) ==
  LET kept == (DOMAIN shown \cap pinned) \ DOMAIN incoming
  IN [k \in kept \cup DOMAIN incoming |->
        IF k \in kept THEN shown[k] ELSE incoming[k]]

\* The effect of SearchResult: the tabs take the list, and the large values
\* of the results that are gone from both are handed back.
Released_Fault(view, list, tabs) ==
  LargeValues(view.tabs) \ DOMAIN list

Released(view, list, tabs) ==
  LargeValues(view.tabs) \ DOMAIN tabs

Rendered(view) ==
  LET tabs == RetainPinned(view.list, view.tabs, view.pinned)
  IN [view EXCEPT !.fresh = "no", !.tabs = tabs,
                  !.released = @ \cup Released(view, view.list, tabs)]

\* setResultDataList of SQLExecute.
SetList(view, list) == [view EXCEPT !.list = list, !.fresh = "yes"]

----------------------------------------------------------------------------
\* mergeRows: a chunk without its result becomes one.
MergeRows(results, key, rows) ==
  Put(results, key, IF key \in DOMAIN results THEN results[key] + rows ELSE rows)

\* upsertResultStarted: an announced result starts without rows.
UpsertStarted(results, key) == Put(results, key, 0)

\* upsertResultFinished: the rows already merged are kept.
UpsertFinished_Fault(results, key, rows) == Put(results, key, rows)

UpsertFinished(results, key, rows) ==
  IF key \in DOMAIN results /\ results[key] > 0 THEN results
  ELSE Put(results, key, rows)

StopTimer(view) == [view EXCEPT !.timer = "off"]

\* flushPendingRows.
Flush(view) ==
  LET merged == [k \in DOMAIN view.list \cup DOMAIN view.pending |->
                   IF k \in DOMAIN view.pending
                   THEN MergeRows(view.list, k, view.pending[k])[k]
                   ELSE view.list[k]]
      idle == StopTimer(view)
  IN IF view.pending = NoResults THEN idle
     ELSE SetList([idle EXCEPT !.pending = NoResults], RetainLatestBatches(merged))

\* enqueueRows: a long buffer is flushed at once, another waits for the timer.
Enqueue(view, key, rows, long) ==
  LET queued == [view EXCEPT !.pending = MergeRows(@, key, rows)]
  IN IF long = "yes" THEN Flush(queued) ELSE [queued EXCEPT !.timer = "on"]

\* discardPendingRows and discardPendingResult.
DiscardPending(view, keys) ==
  LET rest == Without(view.pending, keys)
  IN [view EXCEPT !.pending = rest,
                  !.timer = IF rest = NoResults THEN "off" ELSE @]

DiscardPendingOf(view, request) ==
  DiscardPending(view, {k \in DOMAIN view.pending : Request(k) = request})

----------------------------------------------------------------------------
\* The result events of handleSqlExecutionEvent.
ResultStarted(view, key) ==
  IF key \in view.closed THEN view
  ELSE SetList(view, RetainLatestBatches(UpsertStarted(view.list, key)))

RowsArrive_Fault(view, key, rows, long) == Enqueue(view, key, rows, long)

RowsArrive(view, key, rows, long) ==
  IF key \in view.closed THEN view ELSE Enqueue(view, key, rows, long)

ResultFinished(view, key, rows) ==
  LET flushed == Flush(view)
  IN IF key \in view.closed THEN flushed
     ELSE SetList(flushed,
            RetainLatestBatches(UpsertFinished(flushed.list, key, rows)))

\* The results of a web response, all at once.
ResultsArrive(view, results) ==
  LET merged == [k \in DOMAIN view.list \cup DOMAIN results |->
                   IF k \in DOMAIN results
                   THEN UpsertFinished(view.list, k, results[k])[k]
                   ELSE view.list[k]]
  IN SetList(view, RetainLatestBatches(merged))

\* onEdit of the tabs and handleResultDataListChange: the large value is
\* handed back, a result still streaming is remembered as closed, and the
\* list becomes what the tabs still show, also where a newer list is not
\* rendered yet.  What a click sets is rendered at once.
CloseResult(view, key, streaming) ==
  LET rest == Without(view.tabs, {key})
      discarded == DiscardPending(view, {key})
  IN Rendered(SetList([discarded EXCEPT
                         !.tabs = rest,
                         !.released = @ \cup (LargeValues(view.tabs) \cap {key}),
                         !.closed = IF streaming THEN @ \cup {key} ELSE @],
                      rest))

\* The results whose rows CloseResult writes over: they are in the list and
\* not yet in the tabs.
WrittenOver(view) ==
  {k \in DOMAIN view.list : k \notin DOMAIN view.tabs \/ view.tabs[k] # view.list[k]}

\* handlePinResultTab.
PinResult(view, key) ==
  [view EXCEPT !.pinned = IF key \in @ THEN @ \ {key} ELSE @ \cup {key}]
=============================================================================
