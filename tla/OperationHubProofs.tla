------------------------- MODULE OperationHubProofs -------------------------
(***************************************************************************)
(* Proofs about OperationHub: its types, that subscriptions deliver without *)
(* gap or repetition, that they end only when all was delivered, and that   *)
(* running operations are never evicted.                                    *)
(***************************************************************************)
EXTENDS OperationHub, FiniteSetTheorems, TLAPS

\* An entry with a terminal order is terminal, so eviction spares the others.
OrderedIsTerminal ==
  \A o \in Operations : terminalOrder[o] # 0 => status[o] \in Terminal

RunningListed ==
  \A o \in Operations : status[o] = "Running" => o \in operations

\* Nothing a subscription holds is ahead of its operation.
Behind(s) ==
  /\ cursor[s] <= sequence[target[s]]
  /\ live[s] <= sequence[target[s]] + 1
  /\ replayTo[s] <= sequence[target[s]]

\* A pending replay continues at the cursor and reaches up to the receiver.
ReplayJoins(s) ==
  phase[s] = "loop" /\ replayFrom[s] <= replayTo[s] =>
    /\ live[s] <= replayTo[s] + 1
    /\ \/ replayFrom[s] = cursor[s] + 1
       \/ after[s] = "none" /\ cursor[s] = 0

\* Without a replay the receiver continues at the cursor, or before it.
LiveJoins(s) ==
  /\ phase[s] = "recv" => replayFrom[s] > replayTo[s]
  /\ phase[s] \in {"loop", "recv"} /\ replayFrom[s] > replayTo[s] =>
       live[s] <= cursor[s] + 1

SubscriptionsJoin ==
  \A s \in Subscribers :
    phase[s] \in Open => Behind(s) /\ ReplayJoins(s) /\ LiveJoins(s)

IInv ==
  /\ TypeOK
  /\ OrderedIsTerminal
  /\ RunningListed
  /\ SubscriptionsJoin
  /\ EndMeansDelivered

-----------------------------------------------------------------------------
\* A fresh hub satisfies the invariant: it lists no operation and has no
\* subscription (OperationHub::new).
LEMMA InitIInv == Init => IInv
  BY HubAssumption DEF Init, IInv, TypeOK, OrderedIsTerminal, RunningListed,
     SubscriptionsJoin, EndMeansDelivered, Statuses, Terminal, Phases, Open,
     Larger

\* Types are preserved.
LEMMA TypeStep == TypeOK /\ [Next]_vars => TypeOK'
<1> SUFFICES ASSUME TypeOK, [Next]_vars PROVE TypeOK'
  OBVIOUS
<1> USE HubAssumption DEF TypeOK, Statuses, Terminal, Phases, Open
<1>1. ASSUME NEW o \in Operations, Create(o) PROVE TypeOK'
  BY <1>1 DEF Create, subVars
<1>2. ASSUME NEW o \in Operations, NEW st \in {"Running"} \cup Terminal,
             Emit(o, st)
      PROVE TypeOK'
  <2>1. /\ FrontAfter(o) \in Nat \ {0}
        /\ FrontAfter(o) <= sequence[o] + 1
        /\ sequence[o] + 1 - FrontAfter(o) < ReplayCapacity
    BY DEF FrontAfter, Larger
  <2>2. /\ sequence' \in [Operations -> Nat]
        /\ front' \in [Operations -> Nat \ {0}]
        /\ \A p \in Operations :
             /\ front'[p] <= Larger(1, sequence'[p])
             /\ sequence'[p] - front'[p] < ReplayCapacity
    BY <1>2, <2>1 DEF Emit, Larger
  <2>3. /\ status' \in [Operations -> Statuses]
        /\ terminalOrder' \in [Operations -> Nat]
        /\ nextTerminalOrder' \in Nat \ {0}
    BY <1>2 DEF Emit
  <2>4. UNCHANGED <<operations, cancel, subVars>>
    BY <1>2 DEF Emit
  <2> QED
    BY <2>2, <2>3, <2>4 DEF subVars
<1>3. ASSUME NEW some \in SUBSET Operations, Cancel(some) PROVE TypeOK'
  BY <1>3 DEF Cancel, subVars
<1>4. ASSUME NEW s \in Subscribers, NEW o \in Operations,
             NEW requested \in 0..MaxEvents, NEW given \in {"none", "some"},
             Subscribe(s, o, given, requested)
      PROVE TypeOK'
  BY <1>4 DEF Subscribe, Replay, Larger, hubVars
<1>5. ASSUME NEW s \in Subscribers, PopReplay(s) PROVE TypeOK'
  BY <1>5 DEF PopReplay, hubVars
<1>6. ASSUME NEW s \in Subscribers, CheckState(s) PROVE TypeOK'
  BY <1>6 DEF CheckState, hubVars
<1>7. ASSUME NEW s \in Subscribers, Receive(s) PROVE TypeOK'
  BY <1>7 DEF Receive, Larger, hubVars
<1>8. ASSUME NEW s \in Subscribers, ReceiveLagged(s) PROVE TypeOK'
  BY <1>8 DEF ReceiveLagged, OldestLive, Larger, hubVars
<1>9. ASSUME NEW s \in Subscribers, Recover(s) PROVE TypeOK'
  BY <1>9 DEF Recover, Replay, Larger, hubVars
<1>10. ASSUME NEW s \in Subscribers, Unsubscribe(s) PROVE TypeOK'
  BY <1>10 DEF Unsubscribe, hubVars
<1>11. ASSUME UNCHANGED vars PROVE TypeOK'
  BY <1>11 DEF vars, hubVars, subVars
<1>12. ASSUME NEW some \in {{o} : o \in Operations} \cup {Operations},
              Cancel(some)
       PROVE TypeOK'
  <2>1. some \in SUBSET Operations
    OBVIOUS
  <2> QED
    BY <1>3, <1>12, <2>1
<1> HIDE DEF TypeOK
<1>13. ASSUME NEW s \in Subscribers, NextEvent(s) PROVE TypeOK'
  BY <1>5, <1>6, <1>7, <1>8, <1>9, <1>13 DEF NextEvent
<1> QED
  BY <1>1, <1>2, <1>4, <1>10, <1>11, <1>12, <1>13 DEF Next

\* A step that leaves the operations alone keeps what concerns only them.
LEMMA TableStep ==
  ASSUME TypeOK, OrderedIsTerminal, RunningListed, [Next]_vars
  PROVE  OrderedIsTerminal' /\ RunningListed'
<1> USE HubAssumption DEF TypeOK, OrderedIsTerminal, RunningListed
<1>1. ASSUME NEW o \in Operations, Create(o)
      PROVE OrderedIsTerminal' /\ RunningListed'
  BY <1>1 DEF Create, OldestTerminal, Terminal
<1>2. ASSUME NEW o \in Operations, NEW st \in {"Running"} \cup Terminal,
             Emit(o, st)
      PROVE OrderedIsTerminal' /\ RunningListed'
  BY <1>2 DEF Emit, Terminal
<1>3. ASSUME NEW some \in SUBSET Operations, Cancel(some)
      PROVE OrderedIsTerminal' /\ RunningListed'
  BY <1>3 DEF Cancel
<1>4. ASSUME UNCHANGED hubVars
      PROVE OrderedIsTerminal' /\ RunningListed'
  BY <1>4 DEF hubVars
<1> QED
  BY <1>1, <1>2, <1>3, <1>4
     DEF Next, NextEvent, Subscribe, PopReplay, CheckState, Receive,
         ReceiveLagged, Recover, Unsubscribe, vars

\* Subscriptions join the journal and the broadcast without a gap.
LEMMA JoinStep ==
  ASSUME IInv, [Next]_vars
  PROVE  SubscriptionsJoin' /\ EndMeansDelivered'
<1> DEFINE Joins(s) == phase[s] \in Open =>
                         Behind(s) /\ ReplayJoins(s) /\ LiveJoins(s)
           Ends(s) == phase[s] = "ended" =>
                        /\ status[target[s]] \in Terminal
                        /\ cursor[s] = sequence[target[s]]
<1> SUFFICES ASSUME NEW r \in Subscribers
             PROVE  Joins(r)' /\ Ends(r)'
  BY DEF SubscriptionsJoin, EndMeansDelivered
<1> USE HubAssumption
<1>0. TypeOK /\ TypeOK' /\ Joins(r) /\ Ends(r)
  BY TypeStep DEF IInv, SubscriptionsJoin, EndMeansDelivered
<1> HIDE DEF Joins, Ends
<1>1. ASSUME NEW o \in Operations, Create(o) PROVE Joins(r)' /\ Ends(r)'
  BY <1>0, <1>1 DEF Create, subVars, TypeOK, Joins, Ends, Behind, ReplayJoins,
     LiveJoins, Open, Terminal
<1>2. ASSUME NEW o \in Operations, NEW st \in {"Running"} \cup Terminal,
             Emit(o, st)
      PROVE Joins(r)' /\ Ends(r)'
  BY SMTT(30), <1>0, <1>2 DEF Emit, subVars, TypeOK, Joins, Ends, Behind, ReplayJoins,
     LiveJoins, Open, Terminal
<1>3. ASSUME NEW some \in SUBSET Operations, Cancel(some)
      PROVE Joins(r)' /\ Ends(r)'
  BY <1>0, <1>3 DEF Cancel, subVars, TypeOK, Joins, Ends, Behind, ReplayJoins,
     LiveJoins, Open, Terminal
<1>4. ASSUME NEW s \in Subscribers, NEW o \in Operations,
             NEW requested \in 0..MaxEvents, NEW given \in {"none", "some"},
             Subscribe(s, o, given, requested)
      PROVE Joins(r)' /\ Ends(r)'
  <2>1. CASE r = s
    <3>1. /\ sequence[o] \in Nat /\ front[o] \in Nat \ {0} /\ requested \in Nat
          /\ front[o] <= Larger(1, sequence[o])
      BY <1>0 DEF TypeOK
    <3>2. /\ phase'[r] = "loop" /\ target'[r] = o /\ after'[r] = given
          /\ replayFrom'[r] = Larger(requested + 1, front[o])
          /\ replayTo'[r] = sequence[o] /\ live'[r] = sequence[o] + 1
          /\ cursor'[r] = requested /\ sequence' = sequence
      BY <1>0, <1>4, <2>1 DEF Subscribe, Replay, hubVars, TypeOK
    <3>3. \/ given = "some" /\ ValidCursor(o, requested)
          \/ given = "none" /\ requested = 0
      BY <1>4 DEF Subscribe
    <3>4. Behind(r)'
      BY <3>1, <3>2, <3>3 DEF Behind, ValidCursor
    <3>5. ReplayJoins(r)' /\ LiveJoins(r)'
      BY <3>1, <3>2, <3>3 DEF ReplayJoins, LiveJoins, ValidCursor, Larger
    <3> QED
      BY <3>2, <3>4, <3>5 DEF Joins, Ends
  <2>2. CASE r # s
    BY <1>0, <1>4, <2>2 DEF Subscribe, Replay, hubVars, TypeOK, Joins, Ends,
       Behind, ReplayJoins, LiveJoins
  <2> QED
    BY <2>1, <2>2
<1>5. ASSUME NEW s \in Subscribers, PopReplay(s) PROVE Joins(r)' /\ Ends(r)'
  BY SMTT(30), <1>0, <1>5 DEF PopReplay, hubVars, TypeOK, Joins, Ends, Behind,
     ReplayJoins, LiveJoins, Open, Terminal
<1>6. ASSUME NEW s \in Subscribers, CheckState(s) PROVE Joins(r)' /\ Ends(r)'
  BY SMTT(30), <1>0, <1>6 DEF CheckState, AllDelivered, hubVars, TypeOK, Joins, Ends,
     Behind, ReplayJoins, LiveJoins, Open, Terminal
<1>7. ASSUME NEW s \in Subscribers, Receive(s) PROVE Joins(r)' /\ Ends(r)'
  BY SMTT(30), <1>0, <1>7 DEF Receive, Larger, hubVars, TypeOK, Joins, Ends, Behind,
     ReplayJoins, LiveJoins, Open, Terminal
<1>8. ASSUME NEW s \in Subscribers, ReceiveLagged(s)
      PROVE Joins(r)' /\ Ends(r)'
  BY SMTT(30), <1>0, <1>8 DEF ReceiveLagged, OldestLive, Larger, hubVars, TypeOK, Joins,
     Ends, Behind, ReplayJoins, LiveJoins, Open, Terminal
<1>9. ASSUME NEW s \in Subscribers, Recover(s) PROVE Joins(r)' /\ Ends(r)'
  BY SMTT(30), <1>0, <1>9 DEF Recover, Replay, ValidCursor, Larger, hubVars, TypeOK,
     Joins, Ends, Behind, ReplayJoins, LiveJoins, Open, Terminal
<1>10. ASSUME NEW s \in Subscribers, Unsubscribe(s)
       PROVE Joins(r)' /\ Ends(r)'
  BY <1>0, <1>10 DEF Unsubscribe, hubVars, TypeOK, Joins, Ends, Behind,
     ReplayJoins, LiveJoins, Open, Terminal
<1>11. ASSUME UNCHANGED vars PROVE Joins(r)' /\ Ends(r)'
  BY <1>0, <1>11 DEF vars, hubVars, subVars, Joins, Ends, Behind,
     ReplayJoins, LiveJoins
<1> QED
  BY <1>1, <1>2, <1>3, <1>4, <1>5, <1>6, <1>7, <1>8, <1>9, <1>10, <1>11
     DEF Next, NextEvent

\* The inductive invariant holds in every reachable state.
THEOREM Invariant == Spec => []IInv
<1>1. Init => IInv
  BY InitIInv
<1>2. IInv /\ [Next]_vars => IInv'
  BY TypeStep, TableStep, JoinStep DEF IInv
<1> QED
  BY <1>1, <1>2, PTL DEF Spec

\* TypeOK holds for every set of operations and subscribers and every
\* capacity: in particular the journal stays within replay_capacity.
THEOREM TypeCorrect == Spec => []TypeOK
  BY Invariant, PTL DEF IInv

\* next_event returns None only after the terminal event was delivered.
THEOREM EndsDelivered == Spec => []EndMeansDelivered
  BY Invariant, PTL DEF IInv

\* Replay, broadcast and lag recovery together deliver every event once and
\* in order.
THEOREM NoGap == Spec => GapFree
<1>1. ASSUME IInv, [Next]_vars, NEW s \in Subscribers,
             phase[s] \in Open, cursor'[s] # cursor[s]
      PROVE  \/ cursor'[s] = cursor[s] + 1
             \/ after[s] = "none" /\ cursor[s] = 0
  <2> USE <1>1, HubAssumption
  <2>0. TypeOK /\ Behind(s) /\ ReplayJoins(s) /\ LiveJoins(s)
    BY DEF IInv, SubscriptionsJoin
  <2>1. ASSUME NEW r \in Subscribers, PopReplay(r)
        PROVE  \/ cursor'[s] = cursor[s] + 1
               \/ after[s] = "none" /\ cursor[s] = 0
    BY <2>0, <2>1 DEF PopReplay, TypeOK, ReplayJoins
  <2>2. ASSUME NEW r \in Subscribers, Receive(r)
        PROVE  cursor'[s] = cursor[s] + 1
    BY <2>0, <2>2 DEF Receive, Larger, TypeOK, LiveJoins
  <2>3. ASSUME NEW r \in Subscribers, NEW o \in Operations,
               NEW requested \in 0..MaxEvents, NEW given \in {"none", "some"},
               Subscribe(r, o, given, requested)
        PROVE  FALSE
    BY <2>0, <2>3 DEF Subscribe, TypeOK, Open
  <2>4. ASSUME UNCHANGED cursor PROVE FALSE
    BY <2>4
  <2> QED
    BY <2>1, <2>2, <2>3, <2>4
       DEF Next, NextEvent, Create, Emit, Cancel, CheckState, ReceiveLagged,
           Recover, Unsubscribe, vars, subVars
<1>2. IInv /\ [Next]_vars =>
        [\A s \in Subscribers :
           phase[s] \in Open /\ cursor'[s] # cursor[s] =>
             \/ cursor'[s] = cursor[s] + 1
             \/ after[s] = "none" /\ cursor[s] = 0]_vars
  BY <1>1
<1> QED
  BY <1>2, Invariant, PTL DEF Spec, GapFree

-----------------------------------------------------------------------------
\* The table is finite and within its capacity.
WithinCapacity ==
  IsFiniteSet(operations) /\ Cardinality(operations) <= OperationCapacity

\* Insertion adds at most one element.
LEMMA Added ==
  ASSUME NEW S, NEW x, IsFiniteSet(S)
  PROVE  /\ IsFiniteSet(S \cup {x})
         /\ Cardinality(S \cup {x}) \in Nat
         /\ Cardinality(S \cup {x}) <= Cardinality(S) + 1
<1>1. /\ IsFiniteSet(S \cup {x})
      /\ \/ Cardinality(S \cup {x}) = Cardinality(S)
         \/ Cardinality(S \cup {x}) = Cardinality(S) + 1
  BY FS_AddElement, Zenon
<1>2. Cardinality(S) \in Nat
  BY FS_CardinalityType
<1> QED
  BY <1>1, <1>2

\* A running operation is never evicted, and the table is bounded.
THEOREM NeverEvicted == Spec => []RunningKept
<1>1. Init => WithinCapacity
  BY FS_EmptySet, HubAssumption DEF Init, WithinCapacity
<1>2. WithinCapacity /\ IInv /\ [Next]_vars => WithinCapacity'
  <2> SUFFICES ASSUME WithinCapacity, IInv, [Next]_vars PROVE WithinCapacity'
    OBVIOUS
  <2>1. ASSUME NEW o \in Operations, Create(o) PROVE WithinCapacity'
    <3>1. IsFiniteSet(operations) /\ Cardinality(operations) \in Nat
      BY FS_CardinalityType DEF WithinCapacity
    <3>2. CASE /\ Cardinality(operations) < OperationCapacity
               /\ operations' = operations \cup {o}
      <4>1. /\ IsFiniteSet(operations')
            /\ Cardinality(operations') <= Cardinality(operations) + 1
            /\ Cardinality(operations') \in Nat
        BY <3>1, <3>2, Added
      <4> QED
        BY <3>1, <3>2, <4>1, HubAssumption DEF WithinCapacity
    <3>3. ASSUME NEW old \in operations,
                 operations' = (operations \ {old}) \cup {o}
          PROVE  WithinCapacity'
      <4>1. /\ IsFiniteSet(operations \ {old})
            /\ Cardinality(operations \ {old}) = Cardinality(operations) - 1
        BY <3>1, FS_RemoveElement
      <4>2. /\ IsFiniteSet(operations')
            /\ Cardinality(operations') \in Nat
            /\ Cardinality(operations') <= Cardinality(operations \ {old}) + 1
        BY <3>3, <4>1, Added
      <4> QED
        BY <4>1, <4>2, <3>1, HubAssumption DEF WithinCapacity
    <3> QED
      BY <2>1, <3>2, <3>3 DEF Create
  <2>2. ASSUME UNCHANGED operations PROVE WithinCapacity'
    BY <2>2 DEF WithinCapacity
  <2> QED
    BY <2>1, <2>2
       DEF Next, NextEvent, Emit, Cancel, Subscribe, PopReplay, CheckState,
           Receive, ReceiveLagged, Recover, Unsubscribe, vars, hubVars
<1>3. IInv /\ WithinCapacity => RunningKept
  BY DEF IInv, RunningListed, WithinCapacity, RunningKept
<1> QED
  BY <1>1, <1>2, <1>3, Invariant, PTL DEF Spec
=============================================================================
