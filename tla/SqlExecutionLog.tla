-------------------------- MODULE SqlExecutionLog --------------------------
(***************************************************************************)
(* The execution log of a SQL console, service/sqlExecutionLog.ts: pure    *)
(* functions from a log to a log, applied by the console's handlers.       *)
(*                                                                         *)
(* A log is the sequence of its records with the executions it follows     *)
(* (active), the last request that replaced the output (replacement, 0 for *)
(* none), the execution that owns a replaced web log (owner, NoId for      *)
(* none) and the executions whose late events are ignored (superseded).    *)
(* Texts, times, durations and row counts are left out; of a record's      *)
(* outputs only their kinds are kept.                                      *)
(***************************************************************************)
EXTENDS Integers, Sequences, FiniteSets, SequencesExt

CONSTANT MaxRecords   \* MAX_RECORDS

NoId == <<"none", 0>>

EmptyLog == [records |-> <<>>, active |-> {}, replacement |-> 0,
             owner |-> NoId, superseded |-> {}]

NewRecord(id, statement) ==
  [id |-> id, statement |-> statement, status |-> "running", outputs |-> {},
   temporary |-> "no"]

Unsettled(records) == {records[i].id : i \in {j \in DOMAIN records :
                                                records[j].status = "running"}}

\* setRecords: beyond MAX_RECORDS the oldest settled records go.
SetRecords(log, records) ==
  LET overflow == Len(records) - MaxRecords
      settledBefore(i) == Cardinality({j \in 1..(i - 1) :
                                         records[j].status # "running"})
      kept == {i \in DOMAIN records : \/ records[i].status = "running"
                                      \/ settledBefore(i) >= overflow}
      order == SetToSortSeq(kept, <)
  IN [log EXCEPT !.records = [i \in DOMAIN order |-> records[order[i]]]]

UpdateRecord(log, i, record) == SetRecords(log, [log.records EXCEPT ![i] = record])

IsSuperseded(log, id) ==
  \/ id \in log.superseded
  \/ log.owner # NoId /\ log.owner # id

TrackActive(log, id) == [log EXCEPT !.active = @ \cup {id}]

FinishActive_Fault(log, id) == log

FinishActive(log, id) == [log EXCEPT !.active = @ \ {id}]

\* latestRecord: the position of the last record of an execution, 0 if none.
LatestRecord(log, id) ==
  LET mine == {i \in DOMAIN log.records : log.records[i].id = id}
  IN IF mine = {} THEN 0 ELSE CHOOSE i \in mine : \A j \in mine : j <= i

----------------------------------------------------------------------------
\* clearSqlExecutionLog: running records stay, without their outputs.
ClearLog(log) ==
  LET running(r) == r.status = "running"
      kept == SelectSeq(log.records, running)
  IN [log EXCEPT !.records = [i \in DOMAIN kept |->
                                [kept[i] EXCEPT !.outputs = {}]]]

\* prepareDesktopSqlExecutionLogForRequest.
PrepareForRequest(log, request, keepHistory) ==
  CASE keepHistory -> [log EXCEPT !.owner = NoId]
    [] ~keepHistory /\ log.replacement >= request -> log
    [] OTHER ->
         [records |-> <<>>, active |-> {}, replacement |-> request,
          owner |-> NoId,
          superseded |-> log.superseded \cup log.active
                                        \cup Unsettled(log.records)]

\* prepareSqlExecutionLogForExecution.
PrepareForExecution(log, id, keepHistory) ==
  LET mine(r) == r.id = id
  IN CASE id \in log.superseded -> log
       [] id \notin log.superseded /\ keepHistory ->
            [TrackActive(log, id) EXCEPT !.owner = NoId]
       [] id \notin log.superseded /\ ~keepHistory /\ log.owner = id ->
            TrackActive(log, id)
       [] OTHER ->
            [log EXCEPT !.records = SelectSeq(log.records, mine),
                        !.active = {id},
                        !.owner = id,
                        !.superseded = @ \cup
                          ((log.active \cup Unsettled(log.records)) \ {id})]

\* beginWebSqlExecution.
BeginWeb(log, id) ==
  LET tracked == TrackActive(log, id)
  IN CASE IsSuperseded(log, id) -> log
       [] ~IsSuperseded(log, id) /\ LatestRecord(log, id) # 0 -> tracked
       [] OTHER -> SetRecords(tracked, Append(log.records,
                     [NewRecord(id, 1) EXCEPT !.temporary = "yes"]))

\* completeWebSqlExecution: results is a sequence of [statement, success];
\* the temporary record gives way to one record per statement.
CompleteWeb(log, id, results) ==
  LET standing(r) == ~(r.id = id /\ r.temporary = "yes")
      rest == SelectSeq(log.records, standing)
      temporary == {i \in DOMAIN log.records : ~standing(log.records[i])}
      statements == {results[i].statement : i \in DOMAIN results}
      order == SetToSortSeq(statements, <)
      outcomes(s) == {results[i].success : i \in {j \in DOMAIN results :
                                                    results[j].statement = s}}
      record(s) == [NewRecord(id, s) EXCEPT
                      !.status = IF "no" \in outcomes(s) THEN "failed"
                                                         ELSE "success",
                      !.outputs = {IF o = "no" THEN "failedResult" ELSE "result" :
                                     o \in outcomes(s)}]
  IN CASE IsSuperseded(log, id) -> log
       [] ~IsSuperseded(log, id) /\ results = <<>> ->
            FinishActive([log EXCEPT !.records = [i \in DOMAIN log.records |->
                            IF i \in temporary
                            THEN [log.records[i] EXCEPT !.temporary = "no",
                                                        !.status = "success"]
                            ELSE log.records[i]]], id)
       [] OTHER ->
            FinishActive(SetRecords(log,
              rest \o [i \in DOMAIN order |-> record(order[i])]), id)

\* failWebSqlExecution, of a web request and of a desktop request that could
\* not be started; a cancellation adds no error.
FailWeb(log, id, cancelled) ==
  LET latest == LatestRecord(log, id)
      failed(r) == [r EXCEPT !.temporary = "no",
                             !.status = IF cancelled THEN "cancelled" ELSE "failed",
                             !.outputs = IF cancelled THEN @ ELSE @ \cup {"error"}]
  IN CASE IsSuperseded(log, id) -> log
       [] ~IsSuperseded(log, id) /\ latest = 0 ->
            FinishActive(SetRecords(log,
              Append(log.records, failed(NewRecord(id, 1)))), id)
       [] OTHER ->
            FinishActive(UpdateRecord(log, latest,
              failed(log.records[latest])), id)

----------------------------------------------------------------------------
TerminalKinds == {"finished", "failed", "cancelled"}

\* finishTerminal. (A cancellation also drops result outputs whose text says
\* no more than that; the desktop host sends no such result.)
FinishTerminal(r, kind) ==
  [r EXCEPT !.temporary = "no",
            !.status = kind,
            !.outputs = IF kind = "failed" THEN @ \cup {"error"} ELSE @]

\* The change an event makes to the record it is about.
Recorded(r, e) ==
  CASE e.kind \in {"resultFinished", "updateCount"} ->
         IF e.success = "no"
         THEN [r EXCEPT !.outputs = @ \cup {"failedResult"}, !.status = "failed"]
         ELSE [r EXCEPT !.outputs = @ \cup {"result"}]
    [] e.kind = "statementFinished" ->
         [r EXCEPT !.status = IF @ = "failed" THEN @ ELSE "success"]
    [] e.kind \in {"failed", "cancelled"} -> FinishTerminal(r, e.kind)
    [] e.kind = "finished" ->
         [r EXCEPT !.status = IF @ = "running" THEN "success" ELSE @]
    [] OTHER -> r

\* reduceDesktopSqlExecutionEvent; statement 0 stands for an event without one.
ReduceEvent(log, id, e) ==
  LET tracked == TrackActive(log, id)
      number == IF e.statement = 0 THEN 1 ELSE e.statement
      named == {i \in DOMAIN log.records :
                  log.records[i].id = id /\ log.records[i].statement = number}
      target == IF e.statement # 0 /\ named # {}
                THEN CHOOSE i \in named : TRUE ELSE LatestRecord(log, id)
      started == CASE e.kind = "started" -> tracked
                   [] e.kind = "statementStarted" /\ named # {} -> tracked
                   [] e.kind = "statementStarted" /\ named = {} ->
                        SetRecords(tracked,
                          Append(log.records, NewRecord(id, number)))
      recorded == CASE target # 0 ->
                         UpdateRecord(tracked, target,
                                      Recorded(log.records[target], e))
                    [] target = 0 /\ e.kind \in {"failed", "cancelled"} ->
                         SetRecords(tracked, Append(log.records,
                           FinishTerminal(NewRecord(id, number), e.kind)))
                    [] OTHER -> tracked
  IN CASE IsSuperseded(log, id) -> log
       [] ~IsSuperseded(log, id) /\ e.kind \in {"started", "statementStarted"} ->
            started
       [] ~IsSuperseded(log, id) /\ e.kind \in TerminalKinds ->
            FinishActive(recorded, id)
       [] OTHER -> recorded

\* reduceDesktopSqlExecutionEventWithHistoryPreference, with the request of
\* the event always given.
ReduceRequestEvent(log, request, id, e) ==
  IF request < log.replacement THEN log ELSE ReduceEvent(log, id, e)
=============================================================================
