----------------------- MODULE OperationObserverProofs -----------------------
(***************************************************************************)
(* The client's observer over the hub implements OperationView, for every   *)
(* number of operations, events, reconnects and every replay capacity.      *)
(***************************************************************************)
EXTENDS OperationObserver, OperationHubProofs

Messages == [kind : {"event", "end"}, number : Nat]

\* Nothing on its way to the loop is ahead of the operation.
PipesBehind ==
  /\ pipe \in [Subscribers -> Seq(Messages)]
  /\ \A s \in Subscribers : \A i \in 1..Len(pipe[s]) :
       pipe[s][i].number <= sequence[O]

\* A snapshot under way was once true, and a terminal one still is.
AnswerBehind ==
  /\ answer.kind \in {"none", "asked", "error", "snapshot"}
  /\ answer.kind # "none" => run = "snapshot"
  /\ answer.kind = "snapshot" =>
       /\ answer.last \in Nat /\ answer.last <= sequence[O]
       /\ answer.status \in {"Running"} \cup Terminal
       /\ answer.last = sequence[O] => answer.status = status[O]
       /\ answer.status # "Running" => answer.last = sequence[O]

CursorBehind ==
  /\ given \in {"none", "some"}
  /\ seen \in Nat /\ seen <= sequence[O] /\ sequence[O] <= MaxEvents
  /\ given = "none" => seen = 0

LoopOpen ==
  /\ run \in {"unborn", "stream", "snapshot", "returned"}
  /\ stopped \in {"no", "yes"}
  /\ told \in [error : Nat, close : Nat]
  /\ run # "unborn" => status[O] # "unborn"
  /\ run # "returned" => told.error = 0 /\ stopped = "no"

OInv ==
  /\ IInv
  /\ \A s \in Subscribers : target[s] = O
  /\ PipesBehind
  /\ AnswerBehind
  /\ CursorBehind
  /\ LoopOpen

-----------------------------------------------------------------------------
\* To the hub, a closed subscription is an Unsubscribe or nothing at all.
LEMMA ReleasedIsHubStep ==
  ASSUME TypeOK, NEW some \in SUBSET Subscribers, Released(some),
         \A s, t \in some : s = t
  PROVE  [Next]_vars
<1>1. CASE \A s \in some : phase[s] = "idle"
  <2>1. phase' = phase
    BY <1>1 DEF Released, TypeOK
  <2> QED
    BY <2>1 DEF Released, vars, subVars
<1>2. CASE \E s \in some : phase[s] # "idle"
  <2>1. PICK s \in some : phase[s] # "idle"
    BY <1>2
  <2>2. phase' = [phase EXCEPT ![s] = "idle"]
    BY <2>1 DEF Released, TypeOK
  <2>3. Unsubscribe(s)
    BY <2>1, <2>2 DEF Released, Unsubscribe
  <2> QED
    BY <2>1, <2>3 DEF Next
<1> QED
  BY <1>1, <1>2

\* Closing a handle is a hub step, and leaves the operations alone.
LEMMA ClosedIsHubStep ==
  ASSUME TypeOK, NEW s, Closed(s)
  PROVE  [Next]_vars /\ UNCHANGED <<hubVars, target>>
<1> DEFINE some == {s} \cap {t \in Subscribers : promise[t] = "done"}
<1>1. some \in SUBSET Subscribers /\ \A r, t \in some : r = t
  OBVIOUS
<1>2. Released(some)
  BY DEF Closed
<1>3. [Next]_vars
  <2> HIDE DEF some
  <2> QED
    BY <1>1, <1>2, ReleasedIsHubStep
<1> QED
  BY <1>2, <1>3 DEF Released

\* The parts of the invariant that are not the hub's.
Own == (\A s \in Subscribers : target[s] = O) /\ PipesBehind /\ AnswerBehind
       /\ CursorBehind /\ LoopOpen

Mapped == [View!Next]_(View!view)

\* What the caller is told of is unchanged when no callback runs.
LEMMA Silent ==
  ASSUME UNCHANGED <<sequence, status, seen, seenStatus, run, stopped, told>>
  PROVE  Mapped
BY DEF Mapped, View!view, Fate

\* finally and fail count the calls of onError and onClose.
LEMMA Telling ==
  ASSUME told \in [error : Nat, close : Nat]
  PROVE  /\ Return => /\ told' \in [error : Nat, close : Nat]
                      /\ told'.error = told.error
                      /\ run' = "returned"
         /\ Fail => /\ told' \in [error : Nat, close : Nat]
                    /\ told'.error = told.error + 1
                    /\ run' = "returned" /\ stopped' = "yes"
         /\ Stop => /\ told' \in [error : Nat, close : Nat]
                    /\ told'.error = told.error
<1>1. /\ [told EXCEPT !.close = @ + 1] \in [error : Nat, close : Nat]
      /\ [told EXCEPT !.close = @ + 1].error = told.error
      /\ [told EXCEPT !.close = @] = told
  OBVIOUS
<1>2. Return => told' = told \/ told' = [told EXCEPT !.close = @ + 1]
  BY <1>1 DEF Return
<1>3. Fail => /\ told' \in [error : Nat, close : Nat]
              /\ told'.error = told.error + 1
  BY DEF Fail
<1> QED
  BY <1>1, <1>2, <1>3 DEF Return, Fail, Stop

\* A message taken from a pipe leaves shorter pipes.
LEMMA MessageTaken ==
  ASSUME OInv, NEW s \in Subscribers, NEW kind, Message(s, kind),
         UNCHANGED sequence
  PROVE  /\ PipesBehind'
         /\ Head(pipe[s]).number \in Nat
         /\ Head(pipe[s]).number <= sequence[O]
<1>1. /\ pipe[s] \in Seq(Messages) /\ pipe[s] # <<>>
      /\ \A i \in 1..Len(pipe[s]) : pipe[s][i].number <= sequence[O]
  BY DEF OInv, PipesBehind, Message
<1>2. /\ Head(pipe[s]) \in Messages /\ Head(pipe[s]).number <= sequence[O]
  BY <1>1
<1>3. /\ Tail(pipe[s]) \in Seq(Messages)
      /\ \A i \in 1..Len(Tail(pipe[s])) :
           Tail(pipe[s])[i].number <= sequence[O]
  BY <1>1
<1>4. \A t \in Subscribers :
        pipe'[t] = pipe[t] \/ pipe'[t] = Tail(pipe[s])
  BY DEF Message, OInv, PipesBehind
<1>5. PipesBehind'
  BY <1>3, <1>4 DEF PipesBehind, OInv, Message
<1> QED
  BY <1>2, <1>5 DEF Messages

\* The operation is created or emits; it outgrows a running snapshot.
LEMMA HubMoves ==
  ASSUME OInv, HubStep
  PROVE  [Next]_vars /\ Own' /\ Mapped
<1> USE HubAssumption, ObserverAssumption
<1>1. ASSUME NEW o \in Operations, Create(o), UNCHANGED obsVars
      PROVE  [Next]_vars /\ Own' /\ Mapped
  <2>1. [Next]_vars
    BY <1>1 DEF Next
  <2>2. UNCHANGED <<sequence, target, pipe, answer, given, seen, seenStatus,
                    run, stopped, told>>
    BY <1>1 DEF Create, subVars, obsVars, loopVars
  <2>3. \/ status'[O] = status[O]
        \/ status[O] = "unborn" /\ status'[O] = "Running" /\ run = "unborn"
    BY <1>1 DEF Create, OInv, IInv, TypeOK, LoopOpen
  <2>4. Own'
    BY <2>2, <2>3 DEF OInv, Own, PipesBehind, AnswerBehind, CursorBehind,
       LoopOpen
  <2>5. Mapped
    BY <2>2, <2>3 DEF Mapped, View!view, View!Next, View!Progress, Fate
  <2> QED
    BY <2>1, <2>4, <2>5
<1>2. ASSUME NEW st \in {"Running"} \cup Terminal, Emit(O, st),
             UNCHANGED obsVars
      PROVE  [Next]_vars /\ Own' /\ Mapped
  <2>1. [Next]_vars
    BY <1>2 DEF Next
  <2>2. UNCHANGED <<target, pipe, answer, given, seen, seenStatus, run,
                    stopped, told>>
    BY <1>2 DEF Emit, subVars, obsVars, loopVars
  <2>3. /\ status[O] = "Running" /\ status'[O] = st
        /\ sequence[O] \in Nat /\ sequence'[O] = sequence[O] + 1
        /\ sequence'[O] <= MaxEvents
    BY SMTT(30), <1>2 DEF Emit, OInv, IInv, TypeOK
  <2>4. PipesBehind'
    <3> SUFFICES ASSUME NEW s \in Subscribers, NEW i \in 1..Len(pipe[s])
                 PROVE  pipe[s][i].number <= sequence'[O]
      BY <2>2 DEF OInv, PipesBehind
    <3>1. pipe[s] \in Seq(Messages) /\ pipe[s][i].number <= sequence[O]
      BY DEF OInv, PipesBehind
    <3>2. pipe[s][i] \in Messages
      BY <3>1
    <3> QED
      BY <2>3, <3>1, <3>2 DEF Messages
  <2>5. AnswerBehind'
    BY <2>2, <2>3 DEF OInv, AnswerBehind
  <2>6. CursorBehind' /\ LoopOpen' /\ \A s \in Subscribers : target'[s] = O
    BY <2>2, <2>3 DEF OInv, CursorBehind, LoopOpen, Terminal
  <2>7. Mapped
    BY <2>2, <2>3 DEF Mapped, View!view, View!Next, View!Progress, View!Ended,
       Fate, Terminal
  <2> QED
    BY <2>1, <2>4, <2>5, <2>6, <2>7 DEF Own
<1> QED
  BY <1>1, <1>2 DEF HubStep

\* The server's side of a stream: what it sends is not ahead of the operation.
LEMMA ServerMoves ==
  ASSUME OInv, ServerStep
  PROVE  [Next]_vars /\ Own' /\ Mapped
<1> USE HubAssumption, ObserverAssumption
<1>1. ASSUME NEW s \in Subscribers, ServerAccepts(s)
      PROVE  [Next]_vars /\ Own' /\ Mapped
  <2>1. Subscribe(s, O, given, seen) /\ seen \in 0..MaxEvents
        /\ given \in {"none", "some"}
    BY SMTT(30), <1>1 DEF ServerAccepts, OInv, CursorBehind, IInv, TypeOK
  <2>2. [Next]_vars
    BY <2>1 DEF Next
  <2>3. UNCHANGED <<hubVars, loopVars, pipe, answer, told>>
        /\ \A t \in Subscribers : target'[t] = O
    BY <1>1, <2>1 DEF ServerAccepts, Subscribe, OInv, IInv, TypeOK
  <2>4. Own' /\ Mapped
    BY <2>3, Silent DEF hubVars, loopVars, OInv, Own, PipesBehind,
       AnswerBehind, CursorBehind, LoopOpen
  <2> QED
    BY <2>2, <2>4
<1>2. ASSUME NEW s \in Subscribers, ServerRefuses(s)
      PROVE  [Next]_vars /\ Own' /\ Mapped
  <2>1. UNCHANGED <<vars, loopVars, pipe, answer, told>>
    BY <1>2 DEF ServerRefuses
  <2>2. UNCHANGED <<hubVars, target>>
    BY <2>1 DEF vars, subVars
  <2> QED
    BY <2>1, <2>2, Silent DEF hubVars, loopVars, OInv, Own, PipesBehind,
       AnswerBehind, CursorBehind, LoopOpen
<1>3. ASSUME NEW s \in Subscribers, ServerSends(s)
      PROVE  [Next]_vars /\ Own' /\ Mapped
  <2>1. [Next]_vars
    BY <1>3 DEF ServerSends, Next
  <2>2. UNCHANGED <<hubVars, target, loopVars, answer, told>>
    BY <1>3 DEF ServerSends, NextEvent, PopReplay, CheckState, Receive,
       ReceiveLagged, Recover
  <2>3. cursor'[s] # cursor[s] =>
          cursor'[s] \in Nat /\ cursor'[s] <= sequence[O]
    <3>1. /\ cursor[s] \in Nat /\ live[s] \in Nat /\ replayFrom[s] \in Nat
          /\ replayTo[s] \in Nat /\ sequence[O] \in Nat /\ target[s] = O
          /\ cursor \in [Subscribers -> Nat]
      BY DEF OInv, IInv, TypeOK
    <3>2. phase[s] \in Open => replayTo[s] <= sequence[O]
      BY <3>1 DEF OInv, IInv, SubscriptionsJoin, Behind
    <3>3. CASE PopReplay(s)
      BY SMTT(30), <3>1, <3>2, <3>3 DEF PopReplay, Open
    <3>4. CASE Receive(s)
      BY <3>1, <3>4 DEF Receive, Larger
    <3>5. CASE CheckState(s) \/ ReceiveLagged(s) \/ Recover(s)
      BY <3>5 DEF CheckState, ReceiveLagged, Recover
    <3> QED
      BY <1>3, <3>3, <3>4, <3>5 DEF ServerSends, NextEvent
  <2>4. PICK m \in {Event(cursor'[s]), End} :
          /\ \/ pipe' = pipe
             \/ pipe' = [pipe EXCEPT ![s] = Append(@, m)]
          /\ m \in Messages /\ m.number <= sequence[O]
    <3>1. End \in Messages /\ End.number <= sequence[O]
      BY SMTT(30) DEF End, Messages, OInv, IInv, TypeOK
    <3>2. CASE cursor'[s] # cursor[s]
      <4>1. /\ Event(cursor'[s]) \in Messages
            /\ Event(cursor'[s]).number <= sequence[O]
        BY <2>3, <3>2 DEF Event, Messages
      <4>2. pipe' = [pipe EXCEPT ![s] = Append(@, Event(cursor'[s]))]
        <5>1. phase'[s] \notin {"ended", "failed"}
          BY <1>3, <3>2 DEF ServerSends, NextEvent, PopReplay, CheckState,
             Receive, ReceiveLagged, Recover, OInv, IInv, TypeOK
        <5> QED
          BY <1>3, <3>2, <5>1 DEF ServerSends
      <4> QED
        BY <4>1, <4>2
    <3>3. CASE cursor'[s] = cursor[s] /\ phase'[s] \in {"ended", "failed"}
      <4>1. pipe' = [pipe EXCEPT ![s] = Append(@, End)]
        BY <1>3, <3>3 DEF ServerSends
      <4> QED
        BY <3>1, <4>1
    <3>4. CASE cursor'[s] = cursor[s] /\ phase'[s] \notin {"ended", "failed"}
      <4>1. pipe' = pipe
        BY <1>3, <3>4 DEF ServerSends, OInv, PipesBehind
      <4> QED
        BY <3>1, <4>1
    <3> QED
      BY <3>2, <3>3, <3>4
  <2>5. PipesBehind'
    <3>1. UNCHANGED sequence
      BY <2>2 DEF hubVars
    <3>0. pipe' \in [Subscribers -> Seq(Messages)]
      <4>1. Append(pipe[s], m) \in Seq(Messages)
        BY <2>4 DEF OInv, PipesBehind
      <4> QED
        BY <2>4, <4>1 DEF OInv, PipesBehind
    <3> SUFFICES ASSUME NEW t \in Subscribers
                 PROVE  \A i \in 1..Len(pipe'[t]) :
                          pipe'[t][i].number <= sequence[O]
      BY <3>0, <3>1 DEF PipesBehind
    <3>2. /\ pipe[t] \in Seq(Messages)
          /\ \A i \in 1..Len(pipe[t]) : pipe[t][i].number <= sequence[O]
      BY DEF OInv, PipesBehind
    <3>3. CASE pipe'[t] = pipe[t]
      BY <3>2, <3>3
    <3>4. CASE pipe'[t] = Append(pipe[t], m)
      <4>1. /\ Len(pipe'[t]) = Len(pipe[t]) + 1
            /\ \A i \in 1..Len(pipe[t]) : pipe'[t][i] = pipe[t][i]
            /\ pipe'[t][Len(pipe[t]) + 1] = m /\ Len(pipe[t]) \in Nat
        BY SMTT(30), <2>4, <3>2, <3>4
      <4> SUFFICES ASSUME NEW i \in 1..Len(pipe'[t])
                   PROVE  pipe'[t][i].number <= sequence[O]
        OBVIOUS
      <4>2. i \in 1..Len(pipe[t]) \/ i = Len(pipe[t]) + 1
        BY <4>1
      <4> QED
        BY <2>4, <3>2, <4>1, <4>2
    <3> QED
      BY <2>4, <3>3, <3>4 DEF OInv, PipesBehind
  <2>6. Own' /\ Mapped
    BY <2>2, <2>5, Silent DEF hubVars, loopVars, OInv, Own, AnswerBehind,
       CursorBehind, LoopOpen
  <2> QED
    BY <2>1, <2>6
<1>4. ASSUME ServeSnapshot
      PROVE  [Next]_vars /\ Own' /\ Mapped
  <2>1. UNCHANGED <<vars, loopVars, pipe, told>>
    BY <1>4 DEF ServeSnapshot
  <2>2. UNCHANGED <<hubVars, target>>
    BY <2>1 DEF vars, subVars
  <2>3. AnswerBehind'
    <3>1. run' = "snapshot" /\ status[O] \in {"Running"} \cup Terminal
          /\ sequence[O] \in Nat /\ UNCHANGED <<sequence, status>>
      BY <1>4, <2>1, <2>2 DEF ServeSnapshot, loopVars, hubVars, OInv,
         AnswerBehind, LoopOpen, IInv, TypeOK, Statuses
    <3> QED
      BY <1>4, <3>1 DEF ServeSnapshot, AnswerBehind, NoAnswer
  <2> QED
    BY <2>1, <2>2, <2>3, Silent DEF hubVars, loopVars, OInv, Own, PipesBehind,
       CursorBehind, LoopOpen
<1> QED
  BY <1>1, <1>2, <1>3, <1>4 DEF ServerStep

\* The steps of the loop and of the transport that call no callback but
\* onClose, and the beginning of the observation.
LEMMA LoopMoves ==
  ASSUME OInv,
         \/ \E s \in Subscribers :
              Accepted(s) \/ Refused(s) \/ DeliverEnd(s) \/ Disconnect(s)
         \/ SnapshotFails \/ Stop
         \/ \E option \in {"none", "some"}, n \in 0..MaxEvents :
              Observe(option, n)
  PROVE  [Next]_vars /\ Own' /\ Mapped
<1> USE HubAssumption, ObserverAssumption
<1>0. TypeOK /\ Own
  BY DEF OInv, IInv, Own
<1>1. ASSUME NEW s \in Subscribers, Accepted(s)
      PROVE  [Next]_vars /\ Own' /\ Mapped
  <2>1. [Next]_vars /\ UNCHANGED <<hubVars, target>>
    <3>1. CASE Released({s})
      BY <1>0, <3>1, ReleasedIsHubStep DEF Released
    <3>2. CASE UNCHANGED vars
      BY <3>2 DEF vars, subVars
    <3> QED
      BY <1>1, <3>1, <3>2 DEF Accepted
  <2>2. UNCHANGED <<run, stopped, given, seen, seenStatus, pipe, answer, told>>
    BY <1>1 DEF Accepted
  <2> QED
    BY <1>0, <2>1, <2>2, Silent DEF hubVars, Own, PipesBehind, AnswerBehind,
       CursorBehind, LoopOpen
<1>2. ASSUME NEW s \in Subscribers, Refused(s)
      PROVE  [Next]_vars /\ Own' /\ Mapped
  <2>1. UNCHANGED <<vars, stopped, given, seen, seenStatus, pipe, told>>
    BY <1>2 DEF Refused
  <2>2. UNCHANGED <<hubVars, target>>
    BY <2>1 DEF vars, subVars
  <2>3. \/ UNCHANGED <<run, answer>>
        \/ run = "stream" /\ run' = "snapshot" /\ answer'.kind = "asked"
    BY <1>2 DEF Refused, AskSnapshot, Listening, NoAnswer
  <2>4. Own'
    BY <1>0, <2>1, <2>2, <2>3 DEF hubVars, Own, PipesBehind, AnswerBehind,
       CursorBehind, LoopOpen
  <2>5. Mapped
    BY <1>0, <2>1, <2>2, <2>3 DEF Mapped, View!view, Fate, hubVars, Own,
       LoopOpen
  <2> QED
    BY <2>1, <2>4, <2>5
<1>3. ASSUME NEW s \in Subscribers, DeliverEnd(s)
      PROVE  [Next]_vars /\ Own' /\ Mapped
  <2>1. [Next]_vars /\ UNCHANGED <<hubVars, target>>
    BY <1>0, <1>3, ClosedIsHubStep DEF DeliverEnd
  <2>2. UNCHANGED <<stopped, given, seen, seenStatus, told>>
    BY <1>3 DEF DeliverEnd
  <2>3. \/ UNCHANGED <<run, answer>>
        \/ run = "stream" /\ run' = "snapshot" /\ answer'.kind = "asked"
    BY <1>3 DEF DeliverEnd, AskSnapshot, Listening, NoAnswer
  <2>4. PipesBehind'
    BY <1>3, <2>1, MessageTaken DEF DeliverEnd, hubVars
  <2>5. Own'
    BY <1>0, <2>1, <2>2, <2>3, <2>4 DEF hubVars, Own, AnswerBehind,
       CursorBehind, LoopOpen
  <2>6. Mapped
    BY <1>0, <2>1, <2>2, <2>3 DEF Mapped, View!view, Fate, hubVars, Own,
       LoopOpen
  <2> QED
    BY <2>1, <2>5, <2>6
<1>4. ASSUME NEW s \in Subscribers, Disconnect(s)
      PROVE  [Next]_vars /\ Own' /\ Mapped
  <2>1. [Next]_vars /\ UNCHANGED <<hubVars, target, loopVars, answer, told>>
    BY <1>0, <1>4, ReleasedIsHubStep DEF Disconnect, Released
  <2> DEFINE last == <<End>>
  <2>2. last \in Seq(Messages) /\ Len(last) = 1
        /\ last[1].number <= sequence[O]
    BY SMTT(30), <1>0 DEF End, Messages, TypeOK
  <2>3. PipesBehind'
    <3>1. pipe' = [pipe EXCEPT ![s] = last]
      BY <1>4 DEF Disconnect
    <3> HIDE DEF last
    <3>2. pipe \in [Subscribers -> Seq(Messages)]
      BY <1>0 DEF Own, PipesBehind
    <3>3. pipe' \in [Subscribers -> Seq(Messages)]
      BY <2>2, <3>1, <3>2
    <3>4. ASSUME NEW t \in Subscribers, NEW i \in 1..Len(pipe'[t])
          PROVE  pipe'[t][i].number <= sequence[O]
      <4>1. CASE t = s
        <5>1. pipe'[t] = last
          BY <3>1, <3>2, <4>1
        <5>2. Len(pipe'[t]) = 1 /\ pipe'[t][1].number <= sequence[O]
          BY <2>2, <5>1
        <5>3. i \in 1..1
          BY <3>4, <5>2
        <5>4. i = 1
          BY <5>3
        <5> QED
          BY <5>2, <5>4
      <4>2. CASE t # s
        <5>1. pipe'[t] = pipe[t]
          BY <3>1, <3>2, <4>2
        <5> QED
          BY <1>0, <3>4, <5>1 DEF Own, PipesBehind
      <4> QED
        BY <4>1, <4>2
    <3>5. sequence' = sequence
      BY <2>1 DEF hubVars
    <3> QED
      BY <3>3, <3>4, <3>5 DEF PipesBehind
  <2> QED
    BY <1>0, <2>1, <2>3, Silent DEF hubVars, loopVars, Own, AnswerBehind,
       CursorBehind, LoopOpen
<1>5. ASSUME SnapshotFails
      PROVE  [Next]_vars /\ Own' /\ Mapped
  <2>1. UNCHANGED <<vars, given, seen, seenStatus, pipe>> /\ answer' = NoAnswer
        /\ run = "snapshot" /\ run' = "returned" /\ stopped' = "yes"
        /\ told'.error = told.error + 1
        /\ told' \in [error : Nat, close : Nat]
    BY <1>0, <1>5, Telling DEF SnapshotFails, Own, LoopOpen
  <2>2. UNCHANGED <<hubVars, target>>
    BY <2>1 DEF vars, subVars
  <2>3. Own'
    <3>1. answer'.kind = "none"
      BY <2>1 DEF NoAnswer
    <3> QED
      BY <1>0, <2>1, <2>2, <3>1 DEF hubVars, Own, PipesBehind,
         AnswerBehind, CursorBehind, LoopOpen
  <2>4. Fate = "open" /\ Fate' = "failed"
    BY <1>0, <2>1 DEF Fate, Own, LoopOpen
  <2>5. Mapped
    BY <2>1, <2>2, <2>4 DEF Mapped, View!view, View!Next, View!GiveUp, hubVars
  <2> QED
    BY <2>1, <2>3, <2>5
<1>6. ASSUME Stop
      PROVE  [Next]_vars /\ Own' /\ Mapped
  <2>1. [Next]_vars /\ UNCHANGED <<hubVars, target>>
    BY <1>0, <1>6, ClosedIsHubStep DEF Stop
  <2>2. UNCHANGED <<given, seen, seenStatus, pipe>> /\ answer' = NoAnswer
        /\ run \in {"stream", "snapshot"} /\ run' = "returned"
        /\ stopped' = "yes" /\ told'.error = told.error
        /\ told' \in [error : Nat, close : Nat]
    BY <1>0, <1>6, Telling DEF Stop, Own, LoopOpen
  <2>3. Own'
    BY <1>0, <2>1, <2>2 DEF hubVars, Own, PipesBehind, AnswerBehind,
       CursorBehind, LoopOpen, NoAnswer
  <2>4. Fate = "open" /\ Fate' = "stopped"
    BY <1>0, <2>2 DEF Fate, Own, LoopOpen
  <2>5. Mapped
    BY <2>1, <2>2, <2>4 DEF Mapped, View!view, View!Next, View!GiveUp, hubVars
  <2> QED
    BY <2>1, <2>3, <2>5
<1>7. ASSUME NEW option \in {"none", "some"}, NEW n \in 0..MaxEvents,
             Observe(option, n)
      PROVE  [Next]_vars /\ Own' /\ Mapped
  <2>1. /\ UNCHANGED <<vars, stopped, seenStatus, pipe, answer, told>>
        /\ run = "unborn" /\ run' = "stream" /\ given' = option /\ seen' = n
        /\ status[O] # "unborn" /\ n <= sequence[O]
        /\ option = "none" => n = 0
    BY <1>7 DEF Observe
  <2>2. UNCHANGED <<hubVars, target>>
    BY <2>1 DEF vars, subVars
  <2>3. Own'
    <3>1. sequence' = sequence /\ status' = status /\ target' = target
      BY <2>2 DEF hubVars
    <3>2. (\A s \in Subscribers : target[s] = O)' /\ PipesBehind'
      BY <1>0, <2>1, <3>1 DEF Own, PipesBehind
    <3>3. AnswerBehind'
      BY <1>0, <2>1, <3>1 DEF Own, AnswerBehind
    <3>4. CursorBehind'
      <4>1. sequence[O] <= MaxEvents
        BY <1>0 DEF Own, CursorBehind
      <4>2. /\ given' = option /\ seen' = n /\ n <= sequence[O]
            /\ option = "none" => n = 0
        BY <2>1
      <4>3. option \in {"none", "some"} /\ n \in Nat
        BY <1>7
      <4> QED
        BY <3>1, <4>1, <4>2, <4>3 DEF CursorBehind
    <3>5. LoopOpen'
      BY <1>0, <2>1, <3>1 DEF Own, LoopOpen
    <3> QED
      BY <3>2, <3>3, <3>4, <3>5 DEF Own
  <2>4. Fate = "unborn" /\ Fate' = "open"
    BY <1>0, <2>1 DEF Fate, Own, LoopOpen
  <2>5. sequence[O] \in Nat
    BY <1>0 DEF TypeOK
  <2>6. View!Begin
    <3>1. sequence' = sequence /\ status' = status
      BY <2>2 DEF hubVars
    <3>2. seen' \in 0..sequence[O]
      BY SMTT(30), <2>1, <2>5
    <3> QED
      BY <2>1, <2>4, <3>1, <3>2 DEF View!Begin
  <2> QED
    BY <2>1, <2>3, <2>6 DEF Mapped, View!Next
<1> QED
  BY <1>1, <1>2, <1>3, <1>4, <1>5, <1>6, <1>7

\* onEvent: the event is beyond the cursor and not beyond the operation.
LEMMA EventMoves ==
  ASSUME OInv, NEW s \in Subscribers, DeliverEvent(s)
  PROVE  [Next]_vars /\ Own' /\ Mapped
<1> USE HubAssumption, ObserverAssumption
<1> DEFINE n == Head(pipe[s]).number
<1>0. TypeOK /\ Own
  BY DEF OInv, IInv, Own
<1>1. Message(s, "event") /\ UNCHANGED <<stopped, answer>>
  BY DEF DeliverEvent
<1>2. CASE UNCHANGED <<vars, run, told, seen, given, seenStatus>>
  <2>1. UNCHANGED <<hubVars, target>>
    BY <1>2 DEF vars, subVars
  <2>2. PipesBehind'
    BY <1>1, <2>1, MessageTaken DEF hubVars
  <2> QED
    BY <1>0, <1>1, <1>2, <2>1, <2>2, Silent DEF hubVars, Own, AnswerBehind,
       CursorBehind, LoopOpen
<1>3. CASE run = "stream" /\ (given = "none" \/ n > seen) /\ ShowEvent(s, n)
  <2>1. [Next]_vars /\ UNCHANGED <<hubVars, target>>
    <3>1. CASE Closed(s)
      BY <1>0, <3>1, ClosedIsHubStep
    <3>2. CASE UNCHANGED vars
      BY <3>2 DEF vars, subVars
    <3> QED
      BY <1>3, <3>1, <3>2 DEF ShowEvent
  <2>2. PipesBehind' /\ n \in Nat /\ n <= sequence[O]
    BY <1>1, <2>1, MessageTaken DEF hubVars
  <2> HIDE DEF n
  <2>3. /\ seen' = n /\ given' = "some" /\ told'.error = told.error
        /\ told' \in [error : Nat, close : Nat]
        /\ \/ /\ IsTerminalEvent(n) /\ seenStatus' = status[O]
              /\ run' = "returned"
           \/ ~ IsTerminalEvent(n) /\ seenStatus' = "Running" /\ run' = run
    BY <1>0, <1>3, Telling DEF ShowEvent, Own, LoopOpen
  <2>4. /\ seen \in Nat /\ sequence[O] \in Nat /\ seen <= n
        /\ told.error = 0 /\ stopped = "no"
        /\ status[O] \in {"Running"} \cup Terminal
    <3>1. /\ seen \in Nat /\ sequence[O] \in Nat
          /\ given = "none" => seen = 0
      BY <1>0 DEF Own, CursorBehind, TypeOK
    <3>2. seen <= n
      BY <1>3, <2>2, <3>1
    <3>3. /\ told.error = 0 /\ stopped = "no" /\ status[O] # "unborn"
      BY <1>0, <1>3 DEF Own, LoopOpen
    <3>4. status[O] \in Statuses
      BY <1>0 DEF TypeOK
    <3> QED
      BY <3>1, <3>2, <3>3, <3>4 DEF Statuses
  <2>5. Own'
    <3>1. sequence' = sequence /\ status' = status /\ target' = target
      BY <2>1 DEF hubVars
    <3>2. (\A t \in Subscribers : target[t] = O)'
      BY <1>0, <3>1 DEF Own
    <3>3. AnswerBehind'
      BY <1>0, <1>1, <1>3, <2>1, <2>3, <3>1 DEF Own, AnswerBehind
    <3>4. sequence[O] <= MaxEvents
      BY <1>0 DEF Own, CursorBehind
    <3>5. CursorBehind'
      BY <2>2, <2>3, <3>1, <3>4 DEF CursorBehind
    <3>6. LoopOpen'
      BY <1>0, <1>1, <1>3, <2>1, <2>3, <2>4, <3>1 DEF Own, LoopOpen
    <3> QED
      BY <2>2, <3>2, <3>3, <3>5, <3>6 DEF Own
  <2>6. /\ Fate = "open"
        /\ IsTerminalEvent(n) => Fate' = "finished"
        /\ ~ IsTerminalEvent(n) => Fate' = "open"
    BY <1>1, <1>3, <2>3, <2>4 DEF Fate
  <2>7. seenStatus' = IF seen' = sequence[O] THEN status[O] ELSE "Running"
    BY <2>3, <2>4 DEF IsTerminalEvent
  <2>8. View!Show
    <3>1. seen' \in seen..sequence[O]
      <4>1. seen' = n
        BY <2>3
      <4> QED
        BY <2>2, <2>4, <4>1
    <3>2. IsTerminalEvent(n) <=> seenStatus' \in View!Ended
      BY <2>3, <2>4 DEF View!Ended, IsTerminalEvent, Terminal
    <3>3. Fate' \in IF seenStatus' \in View!Ended THEN {"finished"}
                                                  ELSE {"open", "failed"}
      BY <2>6, <3>2
    <3>4. sequence' = sequence /\ status' = status
      BY <2>1 DEF hubVars
    <3> QED
      BY <2>6, <2>7, <3>1, <3>3, <3>4 DEF View!Show
  <2> QED
    BY <2>1, <2>5, <2>8 DEF Mapped, View!Next
<1> QED
  BY <1>2, <1>3 DEF DeliverEvent, Listening

\* onSnapshot: the cursor moves forward to a state the operation was in.
LEMMA SnapshotMoves ==
  ASSUME OInv, SnapshotArrives
  PROVE  [Next]_vars /\ Own' /\ Mapped
<1> USE HubAssumption, ObserverAssumption
<1>0. TypeOK /\ Own
  BY DEF OInv, IInv, Own
<1>1. /\ UNCHANGED <<vars, pipe>> /\ answer' = NoAnswer /\ run = "snapshot"
      /\ answer.kind = "snapshot" /\ ~ StaleSnapshot
      /\ seen' = answer.last /\ given' = "some"
      /\ seenStatus' = answer.status
  BY DEF SnapshotArrives
<1>2. UNCHANGED <<hubVars, target>>
  BY <1>1 DEF vars, subVars
<1>3. /\ seen \in Nat /\ answer.last \in Nat /\ sequence[O] \in Nat
      /\ seen <= answer.last /\ answer.last <= sequence[O]
      /\ told.error = 0 /\ stopped = "no" /\ status[O] # "unborn"
  <2>1. sequence[O] \in Nat
    BY <1>0 DEF TypeOK
  <2>2. seen \in Nat /\ (given = "none" => seen = 0)
    BY <1>0 DEF Own, CursorBehind
  <2>3. answer.last \in Nat /\ answer.last <= sequence[O]
    BY <1>0, <1>1 DEF Own, AnswerBehind
  <2>4. told.error = 0 /\ stopped = "no" /\ status[O] # "unborn"
    BY <1>0, <1>1 DEF Own, LoopOpen
  <2>5. seen <= answer.last
    BY SMTT(30), <1>0, <1>1, <2>2, <2>3 DEF StaleSnapshot, Own, CursorBehind
  <2> QED
    BY <2>1, <2>2, <2>3, <2>4, <2>5
<1>4. /\ answer.status \in {"Running"} \cup Terminal
      /\ answer.last = sequence[O] => answer.status = status[O]
      /\ answer.status # "Running" => answer.last = sequence[O]
  BY <1>0, <1>1 DEF Own, AnswerBehind
<1>5. /\ told' \in [error : Nat, close : Nat]
      /\ \/ /\ answer.status # "Running" /\ run' = "returned"
            /\ told'.error = 0 /\ stopped' = "no"
         \/ /\ answer.status = "Running" /\ run' = "returned"
            /\ told'.error = 1 /\ stopped' = "yes"
         \/ /\ answer.status = "Running" /\ run' = "stream"
            /\ told'.error = 0 /\ stopped' = "no"
  <2>0. told \in [error : Nat, close : Nat]
    BY <1>0 DEF Own, LoopOpen
  <2>1. CASE answer.status # "Running"
    BY <1>3, <2>0, <2>1, Telling DEF SnapshotArrives
  <2>2. CASE answer.status = "Running" /\ attempts >= MaxReconnects
    BY <1>3, <2>0, <2>2, Telling DEF SnapshotArrives
  <2>3. CASE answer.status = "Running" /\ ~ (attempts >= MaxReconnects)
    BY <1>3, <2>0, <2>3 DEF SnapshotArrives
  <2> QED
    BY <2>1, <2>2, <2>3
<1>6. Own'
  <2>1. answer'.kind = "none"
    BY <1>1 DEF NoAnswer
  <2>2. sequence' = sequence /\ status' = status /\ target' = target
    BY <1>2 DEF hubVars
  <2>3. (\A s \in Subscribers : target[s] = O)' /\ PipesBehind'
    BY <1>0, <1>1, <2>2 DEF Own, PipesBehind
  <2>4. AnswerBehind'
    BY <2>1 DEF AnswerBehind
  <2>5. sequence[O] <= MaxEvents
    BY <1>0 DEF Own, CursorBehind
  <2>6. CursorBehind'
    BY <1>1, <1>3, <2>2, <2>5 DEF CursorBehind
  <2>7. LoopOpen'
    BY <1>3, <1>5, <2>2 DEF LoopOpen
  <2> QED
    BY <2>3, <2>4, <2>6, <2>7 DEF Own
<1>7. /\ Fate = "open"
      /\ answer.status # "Running" => Fate' = "finished"
      /\ answer.status = "Running" => Fate' \in {"open", "failed"}
  BY <1>1, <1>3, <1>5 DEF Fate
<1>8. View!Show
  <2>1. seen' \in seen..sequence[O]
    <3>1. seen' = answer.last
      BY <1>1
    <3>2. answer.last \in seen..sequence[O]
      BY <1>3
    <3> QED
      BY <3>1, <3>2
  <2>2. seenStatus' = IF seen' = sequence[O] THEN status[O] ELSE "Running"
    BY <1>1, <1>4
  <2>3. seenStatus' \in View!Ended <=> answer.status # "Running"
    BY <1>1, <1>4 DEF View!Ended, Terminal
  <2>4. Fate' \in IF seenStatus' \in View!Ended THEN {"finished"}
                                                ELSE {"open", "failed"}
    BY <1>7, <2>3
  <2>5. sequence' = sequence /\ status' = status
    BY <1>2 DEF hubVars
  <2> QED
    BY <1>7, <2>1, <2>2, <2>4, <2>5 DEF View!Show
<1> QED
  BY <1>1, <1>6, <1>8 DEF Mapped, View!Next

-----------------------------------------------------------------------------
\* Every step keeps the invariant and is a step of OperationView or hidden.
LEMMA ObserverStep ==
  ASSUME OInv, [ObserverNext]_allVars
  PROVE  OInv' /\ Mapped
<1>1. [Next]_vars /\ Own' /\ Mapped
  <2>1. CASE ObserverNext
    BY <2>1, HubMoves, ServerMoves, LoopMoves, EventMoves, SnapshotMoves
       DEF ObserverNext, LoopStep
  <2>2. CASE UNCHANGED allVars
    <3>1. UNCHANGED <<vars, hubVars, target, pipe, answer, told, loopVars>>
      BY <2>2 DEF allVars, obsVars, vars, subVars
    <3> QED
      BY <3>1, Silent DEF OInv, Own, PipesBehind, AnswerBehind, CursorBehind,
         LoopOpen, hubVars, loopVars
  <2> QED
    BY <2>1, <2>2
<1>2. IInv'
  BY <1>1, TypeStep, TableStep, JoinStep DEF OInv, IInv
<1> QED
  BY <1>1, <1>2 DEF OInv, Own

\* The observer of operation.ts over the hub and a transport that loses
\* connections shows its caller what OperationView promises: progress in
\* order and never ahead of the operation, and a silent end only with the end
\* of the operation itself.
THEOREM ObserverRefinesView == ObserverSpec => ViewRefined
<1>1. ObserverInit => OInv /\ View!Init
  <2> SUFFICES ASSUME ObserverInit PROVE OInv /\ View!Init
    OBVIOUS
  <2> USE HubAssumption, ObserverAssumption
  <2>1. IInv
    BY InitIInv DEF ObserverInit
  <2>2. sequence[O] = 0 /\ status[O] = "unborn"
    BY DEF ObserverInit, Init
  <2>3. Own
    <3>1. (\A s \in Subscribers : target[s] = O) /\ PipesBehind
      <4>1. /\ \A s \in Subscribers : target[s] = O
            /\ pipe = [s \in Subscribers |-> <<>>]
        BY DEF ObserverInit
      <4> QED
        BY SMTT(30), <4>1 DEF PipesBehind
    <3>2. AnswerBehind
      BY DEF ObserverInit, AnswerBehind, NoAnswer
    <3>3. given = "none" /\ seen = 0
      BY DEF ObserverInit
    <3>4. CursorBehind
      BY <2>2, <3>3 DEF CursorBehind
    <3>5. LoopOpen
      BY DEF ObserverInit, LoopOpen
    <3> QED
      BY <3>1, <3>2, <3>4, <3>5 DEF Own
  <2>4. Fate = "unborn"
    BY DEF ObserverInit, Fate
  <2> QED
    BY <2>1, <2>2, <2>3, <2>4 DEF OInv, Own, View!Init, ObserverInit
<1>2. OInv /\ [ObserverNext]_allVars => OInv' /\ [View!Next]_(View!view)
  BY ObserverStep DEF Mapped
<1> QED
  BY <1>1, <1>2, PTL DEF ObserverSpec, ViewRefined, View!Spec
=============================================================================
