------------------------- MODULE EngineManagerTypes -------------------------
(***************************************************************************)
(* Type correctness of EngineManager, for every finite set of callers, every *)
(* set of shutdown calls and every bound: one lemma per action or group of   *)
(* actions, above lemmas about the helpers the actions share.                *)
(***************************************************************************)
EXTENDS EngineManager, FiniteSetTheorems, TLAPS

-----------------------------------------------------------------------------
\* What spawn_idle_timer, spawn_start, spawn_stop and the others create is a
\* command of the channel.
LEMMA TaskType ==
  /\ \A k \in TaskKinds, g \in Nat, e \in Nat : Task(k, g, e) \in Tasks
  /\ \A g \in Nat, r \in Reasons, o \in SUBSET Results : StopTask(g, r, o) \in Tasks
BY DEF Tasks, Task, StopTask

\* A manager that was just spawned is well typed.
LEMMA TypeInit == Init => TypeOK
<1> SUFFICES ASSUME Init PROVE TypeOK
  OBVIOUS
<1> QED
  BY DEF Init, TypeOK, Modes, Reasons, Statuses, Tasks

\* acquire, its cancellation, dropping a lease and asking for a shutdown keep
\* the types.
LEMMA CallerTypes == TypeOK /\ CallerNext => TypeOK'
<1> SUFFICES ASSUME TypeOK, CallerNext PROVE TypeOK'
  OBVIOUS
<1>1. ASSUME NEW c \in Clients, Acquire(c) PROVE TypeOK'
  BY <1>1 DEF TypeOK, Acquire, mgrVars, clientVars, hostVars, startVars, procVars
<1>2. ASSUME NEW c \in Clients, Abandon(c) PROVE TypeOK'
  BY <1>2 DEF TypeOK, Abandon, mgrVars, clientVars, hostVars, startVars, procVars
<1>3. ASSUME NEW c \in Clients, DropLease(c) PROVE TypeOK'
  BY <1>3 DEF TypeOK, DropLease, mgrVars, clientVars, hostVars, startVars, procVars
<1>4. ASSUME NEW s \in ShutdownCalls, CallShutdown(s) PROVE TypeOK'
  BY <1>4 DEF TypeOK, CallShutdown, Answers, mgrVars, clientVars, hostVars,
              startVars, procVars
<1>5. CASE DropOwner
  BY <1>5 DEF TypeOK, DropOwner, mgrVars, clientVars, hostVars, startVars, procVars
<1> QED
  BY <1>1, <1>2, <1>3, <1>4, <1>5 DEF CallerNext

\* What the engine process and a start task do keeps the types.
LEMMA EngineTypes == TypeOK /\ EngineNext => TypeOK'
<1> SUFFICES ASSUME TypeOK, EngineNext PROVE TypeOK'
  OBVIOUS
<1> USE DEF TypeOK, mgrVars, clientVars, hostVars, startVars, procVars
<1>1. ASSUME NEW g \in live, Crash(g) PROVE TypeOK'
  BY <1>1 DEF Crash
<1>2. ASSUME NEW m \in tasks, StartReady(m) \/ StartFails(m) PROVE TypeOK'
  <2>1. m.gen \in Nat
    BY DEF Tasks
  <2>2. Task("StartOk", m.gen, 0) \in Tasks /\ Task("StartErr", m.gen, 0) \in Tasks
    BY <2>1, TaskType DEF TaskKinds, StartKinds
  <2> QED
    BY <1>2, <2>2 DEF StartReady, StartFails
<1> QED
  BY <1>1, <1>2 DEF EngineNext

\* Sets of callers are finite, so that leases can be counted.
LEMMA CallersFinite ==
  ASSUME NEW S, S \subseteq Clients
  PROVE  IsFiniteSet(S) /\ Cardinality(S) \in Nat
BY ClientsAssumption, FS_Subset, FS_CardinalityType

\* The types of what a caller sees.
CallerTypeOK ==
  /\ pc \in [Clients -> {"idle", "acquiring", "waiting", "leased", "releasing"}]
  /\ closed \subseteq Clients
  /\ lease \in [Clients -> Nat]

\* fail_waiters keeps the types of the callers' state.
LEMMA DismissTypes ==
  ASSUME TypeOK, NEW S, Dismiss(S)
  PROVE  CallerTypeOK'
BY DEF TypeOK, CallerTypeOK, Dismiss

\* issue_lease keeps the lease count and the idle epoch natural numbers.
LEMMA IssueTypes ==
  ASSUME TypeOK, NEW S, S \subseteq Clients, IssueLeases(S)
  PROVE  CallerTypeOK' /\ leases' \in Nat /\ EpochAfterIssue(S) \in Nat
<1>1. Cardinality(S \ closed) \in Nat
  BY CallersFinite
<1> QED
  BY <1>1 DEF TypeOK, CallerTypeOK, IssueLeases, EpochAfterIssue

\* schedule_idle_cycle starts timers that carry a command of the channel.
LEMMA IdleCycleTypes ==
  ASSUME TypeOK, NEW e \in Nat
  PROVE  IdleCycle(e) \subseteq Tasks
BY TaskType DEF IdleCycle, TypeOK, TaskKinds

\* Answering all waiters of a start or a resume keeps the types.
LEMMA ServeTypes ==
  ASSUME TypeOK, NEW S, S \subseteq Clients, NEW rest, rest \subseteq Tasks,
         Serve(S, rest)
  PROVE  /\ CallerTypeOK' /\ leases' \in Nat /\ idleEpoch' \in Nat
         /\ mode' \in Modes /\ status' \in Statuses /\ tasks' \subseteq Tasks
<1>1. CallerTypeOK' /\ leases' \in Nat /\ EpochAfterIssue(S) \in Nat
  BY IssueTypes DEF Serve
<1>2. mode' \in Modes /\ status' \in Statuses
  BY DEF Serve, Modes, Statuses
<1>3. idleEpoch' \in Nat
  BY <1>1 DEF Serve
<1>4. tasks' \subseteq Tasks
  BY <1>3, IdleCycleTypes DEF Serve
<1> QED
  BY <1>1, <1>2, <1>3, <1>4

\* Handing the generation to a stop task keeps the types.
LEMMA StopTypes ==
  ASSUME TypeOK, NEW why \in Reasons, NEW rest, rest \subseteq Tasks,
         BeginStop(why, rest)
  PROVE  /\ mode' \in Modes /\ status' \in Statuses /\ reason' \in Reasons
         /\ leases' \in Nat /\ idleEpoch' \in Nat /\ parkEpoch' \in Nat
         /\ gen' \in Nat /\ tasks' \subseteq Tasks
<1> DEFINE r == IF gen \in crashed /\ why = "Idle" THEN "Crashed" ELSE why
<1> DEFINE possible == IF gen \in crashed THEN {"ok"} ELSE Results
<1>1. r \in Reasons
  BY DEF Reasons
<1>2. StopTask(gen, r, possible) \in Tasks
  <2>1. possible \in SUBSET Results
    BY DEF Results
  <2> HIDE DEF r, possible
  <2> QED
    BY <1>1, <2>1, TaskType DEF TypeOK
<1>3. tasks' = rest \cup {StopTask(gen, r, possible)} /\ reason' = r
  BY DEF BeginStop
<1> HIDE DEF r, possible
<1> QED
  BY <1>1, <1>2, <1>3 DEF BeginStop, TypeOK, Modes, Statuses

\* finish_shutdown keeps the types.
LEMMA ExitTypes ==
  ASSUME TypeOK, NEW answer \in Answers, NEW callsNow,
         callsNow \in [ShutdownCalls -> {"unused", "queued", "pending"} \cup Answers],
         Exit(answer, callsNow)
  PROVE  /\ CallerTypeOK' /\ tasks' \subseteq Tasks
         /\ mode' \in Modes /\ status' \in Statuses
         /\ calls' \in [ShutdownCalls -> {"unused", "queued", "pending"} \cup Answers]
         /\ gen' \in Nat /\ leases' \in Nat /\ idleEpoch' \in Nat
         /\ parkEpoch' \in Nat /\ reason' \in Reasons
BY DEF Exit, TypeOK, CallerTypeOK, Modes, Statuses, Answers

\* ManagerCommand::Acquire keeps the types, in every state of the manager.
LEMMA AcquireTypes ==
  ASSUME TypeOK, NEW c \in Clients, HandleAcquire(c)
  PROVE  TypeOK'
<1> USE DEF TypeOK, CallerTypeOK, mgrVars, clientVars, hostVars, startVars, procVars
<1>1. UNCHANGED <<hostVars, acquires>>
  BY DEF HandleAcquire
<1>2. ASSUME Dismiss({c}), UNCHANGED <<mgrVars, startVars, procVars, status, tasks>>
      PROVE  TypeOK'
  BY <1>1, <1>2, DismissTypes
<1>3. ASSUME SpawnStart(tasks, live), pc' = [pc EXCEPT ![c] = "waiting"],
             UNCHANGED <<closed, lease, crashed>>
      PROVE  TypeOK'
  <2>1. Task("Start", nextAttempt, 0) \in Tasks
    BY TaskType DEF TaskKinds, StartKinds
  <2>2. mode' \in Modes /\ status' \in Statuses
    BY <1>3 DEF SpawnStart, Modes, Statuses
  <2> QED
    BY <1>1, <1>3, <2>1, <2>2 DEF SpawnStart
<1>4. ASSUME pc' = [pc EXCEPT ![c] = "waiting"],
             UNCHANGED <<mgrVars, closed, lease, startVars, procVars, status, tasks>>
      PROVE  TypeOK'
  BY <1>1, <1>4
<1>5. ASSUME IssueLeases({c}), idleEpoch' = EpochAfterIssue({c}),
             UNCHANGED <<mode, gen, parkEpoch, reason, startVars, procVars,
                         status, tasks>>
      PROVE  TypeOK'
  <2>1. CallerTypeOK' /\ leases' \in Nat /\ EpochAfterIssue({c}) \in Nat
    BY <1>5, IssueTypes
  <2> QED
    BY <1>1, <1>5, <2>1
<1>6. ASSUME idleEpoch' = idleEpoch + 1, pc' = [pc EXCEPT ![c] = "waiting"],
             UNCHANGED <<mode, gen, leases, parkEpoch, reason, closed, lease,
                         startVars, procVars, status, tasks>>
      PROVE  TypeOK'
  BY <1>1, <1>6
<1>7. ASSUME idleEpoch' = idleEpoch + 1, BeginResume(tasks),
             pc' = [pc EXCEPT ![c] = "waiting"],
             UNCHANGED <<closed, lease, startVars, procVars>>
      PROVE  TypeOK'
  <2>1. Task("Resume", gen, parkEpoch) \in Tasks
    BY TaskType DEF TaskKinds
  <2>2. mode' \in Modes /\ status' \in Statuses
    BY <1>7 DEF BeginResume, Modes, Standby, Statuses
  <2> QED
    BY <1>1, <1>7, <2>1, <2>2 DEF BeginResume
<1> QED
  BY <1>2, <1>3, <1>4, <1>5, <1>6, <1>7 DEF HandleAcquire

\* ManagerCommand::Release keeps the types: a counted release finds a positive
\* lease count.
LEMMA ReleaseTypes ==
  ASSUME TypeOK, NEW c \in Clients, HandleRelease(c)
  PROVE  TypeOK'
<1>1. CallerTypeOK'
  BY DismissTypes DEF HandleRelease
<1> USE DEF TypeOK, CallerTypeOK, mgrVars, clientVars, hostVars, startVars, procVars
<1>2. CASE ReleaseCounts(c) /\ leases = 1 /\ ShuttingDown
  BY SMTT(30), <1>1, <1>2, StopTypes DEF HandleRelease, Reasons
<1>3. CASE ReleaseCounts(c) /\ leases = 1 /\ ~ShuttingDown
  <2>1. IdleCycle(idleEpoch + 1) \subseteq Tasks
    BY IdleCycleTypes
  <2> QED
    BY <1>1, <1>3, <2>1 DEF HandleRelease
<1>4. CASE ~ReleaseCounts(c) \/ leases # 1
  BY SMTT(30), <1>1, <1>4 DEF HandleRelease, ReleaseCounts
<1> QED
  BY <1>2, <1>3, <1>4

\* A command the manager drops changes nothing.
LEMMA IgnoreTypes ==
  ASSUME TypeOK, NEW m, Ignore(m), acquires' = acquires
  PROVE  TypeOK'
BY DEF TypeOK, Ignore, mgrVars, clientVars, hostVars, startVars, procVars

\* ManagerCommand::StartFinished keeps the types.
LEMMA StartFinishedTypes ==
  ASSUME TypeOK, NEW m \in tasks, StartFinished(m)
  PROVE  TypeOK'
<1> USE DEF TypeOK, CallerTypeOK, mgrVars, clientVars, hostVars, startVars, procVars
<1>1. CASE m.kind = "StartOk" /\ ShuttingDown
  <2>1. StopTask(gen, "HostShutdown", Results) \in Tasks
    BY TaskType DEF Reasons
  <2> QED
    BY <1>1, <2>1, DismissTypes DEF StartFinished, Modes, Reasons, Statuses
<1>2. CASE m.kind = "StartOk" /\ ~ShuttingDown
  <2>1. Task("Watch", gen, 0) \in Tasks
    BY TaskType DEF TaskKinds
  <2>2. Serve(Waiters, (tasks \ {m}) \cup {Task("Watch", gen, 0)})
    BY <1>2 DEF StartFinished
  <2>3. (tasks \ {m}) \cup {Task("Watch", gen, 0)} \subseteq Tasks
    BY <2>1
  <2>4. Waiters \subseteq Clients
    BY DEF Waiters
  <2> QED
    BY <1>2, <2>2, <2>3, <2>4, ServeTypes DEF StartFinished
<1>3. CASE m.kind = "StartErr" /\ ShuttingDown
  <2>1. Exit("ok", calls) /\ "ok" \in Answers
    BY <1>3 DEF StartFinished, Answers
  <2> QED
    BY <1>3, <2>1, ExitTypes DEF StartFinished
<1>4. CASE m.kind = "StartErr" /\ ~ShuttingDown
  BY <1>4, DismissTypes DEF StartFinished, Modes, Statuses
<1> QED
  BY <1>1, <1>2, <1>3, <1>4 DEF StartFinished

\* The timers and the state watcher keep the types.
LEMMA TimerTypes ==
  ASSUME TypeOK, NEW m \in tasks,
         \/ HotIdleExpired(m) \/ IdleExpired(m)
         \/ DrainExpired(m) \/ GenerationTerminal(m)
  PROVE  TypeOK'
<1> USE DEF TypeOK, mgrVars, clientVars, hostVars, startVars, procVars
<1>1. tasks \ {m} \subseteq Tasks
  OBVIOUS
<1>2. ASSUME NEW why \in Reasons, BeginStop(why, tasks \ {m}), acquires' = acquires,
             UNCHANGED <<clientVars, hostVars, startVars, procVars>>
      PROVE  TypeOK'
  BY <1>1, <1>2, StopTypes
<1>3. ASSUME BeginQuiesce(tasks \ {m}), acquires' = acquires,
             UNCHANGED <<clientVars, hostVars, startVars, procVars>>
      PROVE  TypeOK'
  <2>1. parkEpoch + 1 \in Nat
    OBVIOUS
  <2>2. Task("Quiesce", gen, parkEpoch + 1) \in Tasks
    BY <2>1, TaskType DEF TaskKinds
  <2>3. mode' \in Modes /\ status' \in Statuses
    BY <1>3 DEF BeginQuiesce, Modes, Standby, Statuses
  <2> QED
    BY <1>3, <2>1, <2>2, <2>3 DEF BeginQuiesce
<1>4. CASE Ignore(m) /\ acquires' = acquires
  BY <1>4, IgnoreTypes
<1> QED
  BY <1>2, <1>3, <1>4 DEF HotIdleExpired, IdleExpired, DrainExpired,
                          GenerationTerminal, Reasons

\* A failed quiesce or resume keeps the types.
LEMMA LifecycleFailedTypes ==
  ASSUME TypeOK, NEW open, NEW rest, rest \subseteq Tasks,
         LifecycleFailed(open, rest), acquires' = acquires,
         UNCHANGED <<hostVars, startVars, procVars>>
  PROVE  TypeOK'
<1> DEFINE why == IF open = {} THEN "Idle" ELSE "LifecycleFailure"
<1>1. why \in Reasons
  BY DEF Reasons
<1>2. Dismiss(Waiters \ open) /\ BeginStop(why, rest)
  BY DEF LifecycleFailed
<1> HIDE DEF why
<1> QED
  BY <1>1, <1>2, DismissTypes, StopTypes
  DEF TypeOK, CallerTypeOK, hostVars, startVars, procVars

\* QuiesceFinished and ResumeFinished keep the types.
LEMMA ParkTypes ==
  ASSUME TypeOK, NEW m \in tasks, NEW res \in Results,
         QuiesceFinished(m, res) \/ ResumeFinished(m, res)
  PROVE  TypeOK'
<1> USE DEF TypeOK, CallerTypeOK, mgrVars, clientVars, hostVars, startVars, procVars
<1>1. tasks \ {m} \subseteq Tasks /\ acquires' = acquires /\ Waiters \subseteq Clients
  BY DEF QuiesceFinished, ResumeFinished, Waiters
<1>2. CASE Ignore(m)
  BY <1>1, <1>2, IgnoreTypes
<1>3. ASSUME Dismiss(Waiters), mode' = "Parked", status' = "Parked",
             tasks' = tasks \ {m},
             UNCHANGED <<gen, leases, idleEpoch, parkEpoch, reason>>,
             UNCHANGED <<hostVars, startVars, procVars>>
      PROVE  TypeOK'
  BY <1>1, <1>3, DismissTypes DEF Modes, Standby, Statuses
<1>4. ASSUME NEW S, Dismiss(S), BeginResume(tasks \ {m}), UNCHANGED idleEpoch,
             UNCHANGED <<hostVars, startVars, procVars>>
      PROVE  TypeOK'
  <2>1. Task("Resume", gen, parkEpoch) \in Tasks
    BY TaskType DEF TaskKinds
  <2>2. mode' \in Modes /\ status' \in Statuses
    BY <1>4 DEF BeginResume, Modes, Standby, Statuses
  <2> QED
    BY <1>1, <1>4, <2>1, <2>2, DismissTypes DEF BeginResume
<1>5. ASSUME NEW open, LifecycleFailed(open, tasks \ {m}),
             UNCHANGED <<hostVars, startVars, procVars>>
      PROVE  TypeOK'
  BY <1>1, <1>5, LifecycleFailedTypes
<1>6. ASSUME Serve(Waiters, tasks \ {m}), UNCHANGED <<gen, parkEpoch, reason>>,
             UNCHANGED <<hostVars, startVars, procVars>>
      PROVE  TypeOK'
  BY <1>1, <1>6, ServeTypes
<1>7. CASE QuiesceFinished(m, res)
  BY <1>7, <1>2, <1>3, <1>4, <1>5 DEF QuiesceFinished
<1>8. CASE ResumeFinished(m, res)
  BY <1>8, <1>2, <1>5, <1>6 DEF ResumeFinished
<1> QED
  BY <1>7, <1>8

\* ManagerCommand::StopFinished keeps the types.
LEMMA StopFinishedTypes ==
  ASSUME TypeOK, NEW m \in tasks, NEW res \in Results, StopFinished(m, res)
  PROVE  TypeOK'
<1> USE DEF TypeOK, CallerTypeOK, mgrVars, clientVars, hostVars, startVars, procVars
<1>1. UNCHANGED <<crashed, acquires>>
  BY DEF StopFinished
<1>2. ASSUME NEW answer \in Answers, Exit(answer, calls), live' = live \ {gen},
             UNCHANGED <<host, drainEpoch, forced, startVars>>
      PROVE  TypeOK'
  BY <1>1, <1>2, ExitTypes
<1>3. ASSUME Dismiss(Waiters), mode' = "Cold", status' = StatusAfterStop(reason, res),
             tasks' = tasks \ {m}, live' = live \ {gen},
             UNCHANGED <<gen, leases, idleEpoch, parkEpoch, reason, hostVars, startVars>>
      PROVE  TypeOK'
  BY <1>1, <1>3, DismissTypes DEF Modes, Statuses, StatusAfterStop
<1>4. ASSUME NEW S, Dismiss(S), SpawnStart(tasks \ {m}, live \ {gen}), UNCHANGED hostVars
      PROVE  TypeOK'
  <2>1. Task("Start", nextAttempt, 0) \in Tasks
    BY TaskType DEF TaskKinds, StartKinds
  <2>2. mode' \in Modes /\ status' \in Statuses
    BY <1>4 DEF SpawnStart, Modes, Statuses
  <2> QED
    BY SMTT(30), <1>1, <1>4, <2>1, <2>2, DismissTypes DEF SpawnStart
<1> QED
  BY <1>2, <1>3, <1>4 DEF StopFinished, Answers

\* start_host_shutdown keeps the types, in every state of the manager.
LEMMA HostShutdownTypes ==
  ASSUME TypeOK, NEW force, NEW callsNow,
         callsNow \in [ShutdownCalls -> {"unused", "queued", "pending"} \cup Answers],
         StartHostShutdown(force, callsNow), forced' \in {"no", "queued", "done"},
         UNCHANGED <<nextAttempt, procVars, acquires>>
  PROVE  TypeOK'
<1> USE DEF TypeOK, CallerTypeOK, mgrVars, clientVars, hostVars, startVars, procVars
<1>1. host' \in {"serving", "stopping"}
  BY DEF StartHostShutdown
<1>2. ASSUME Exit("ok", callsNow), UNCHANGED <<drainEpoch, cancelled>>
      PROVE  TypeOK'
  BY <1>1, <1>2, ExitTypes DEF Answers
<1>3. ASSUME Dismiss(Waiters), cancelled' \in {cancelled, cancelled \cup {gen}},
             status' = "ShuttingDown", calls' = callsNow,
             UNCHANGED <<mgrVars, drainEpoch, tasks>>
      PROVE  TypeOK'
  BY <1>1, <1>3, DismissTypes DEF Statuses
<1>4. ASSUME drainEpoch' = drainEpoch + 1,
             tasks' = tasks \cup {Task("DrainExpired", gen, drainEpoch')},
             status' = "ShuttingDown", calls' = callsNow,
             UNCHANGED <<mgrVars, clientVars, cancelled>>
      PROVE  TypeOK'
  <2>1. drainEpoch' \in Nat
    BY <1>4
  <2>2. Task("DrainExpired", gen, drainEpoch') \in Tasks
    BY <2>1, TaskType DEF TaskKinds
  <2> QED
    BY <1>1, <1>4, <2>1, <2>2 DEF Statuses
<1>5. ASSUME Dismiss(Waiters), BeginStop("HostShutdown", tasks), calls' = callsNow,
             UNCHANGED <<drainEpoch, cancelled>>
      PROVE  TypeOK'
  BY <1>1, <1>5, DismissTypes, StopTypes DEF Reasons
<1> QED
  BY <1>2, <1>3, <1>4, <1>5 DEF StartHostShutdown

\* Shutdown and ForceShutdown keep the types.
LEMMA ShutdownTypes ==
  ASSUME TypeOK, (\E s \in ShutdownCalls : HandleShutdown(s)) \/ HandleForceShutdown
  PROVE  TypeOK'
<1>1. ASSUME NEW s \in ShutdownCalls, HandleShutdown(s) PROVE TypeOK'
  <2> DEFINE callsNow == [calls EXCEPT ![s] = "pending"]
  <2>1. callsNow \in [ShutdownCalls -> {"unused", "queued", "pending"} \cup Answers]
    BY DEF TypeOK
  <2>2. UNCHANGED <<forced, nextAttempt, procVars, acquires>>
    BY <1>1 DEF HandleShutdown
  <2>3. \/ /\ calls' = callsNow
           /\ UNCHANGED <<mgrVars, clientVars, host, drainEpoch, cancelled, status, tasks>>
        \/ StartHostShutdown(FALSE, callsNow)
    BY <1>1 DEF HandleShutdown
  <2>4. forced' \in {"no", "queued", "done"}
    BY <2>2 DEF TypeOK
  <2> HIDE DEF callsNow
  <2>5. CASE StartHostShutdown(FALSE, callsNow)
    BY <2>1, <2>2, <2>4, <2>5, HostShutdownTypes
  <2>6. CASE /\ calls' = callsNow
             /\ UNCHANGED <<mgrVars, clientVars, host, drainEpoch, cancelled, status, tasks>>
    BY <2>1, <2>2, <2>6 DEF TypeOK, mgrVars, clientVars, procVars
  <2> QED
    BY <2>3, <2>5, <2>6
<1>2. ASSUME HandleForceShutdown PROVE TypeOK'
  <2>1. StartHostShutdown(TRUE, calls) /\ forced' \in {"no", "queued", "done"}
    BY <1>2 DEF HandleForceShutdown
  <2>2. calls \in [ShutdownCalls -> {"unused", "queued", "pending"} \cup Answers]
    BY DEF TypeOK
  <2>3. UNCHANGED <<nextAttempt, procVars, acquires>>
    BY <1>2 DEF HandleForceShutdown
  <2> QED
    BY <2>1, <2>2, <2>3, HostShutdownTypes
<1> QED
  BY <1>1, <1>2

\* Every step keeps the types.
LEMMA TypeStep == TypeOK /\ [Next]_vars => TypeOK'
<1> SUFFICES ASSUME TypeOK, [Next]_vars PROVE TypeOK'
  OBVIOUS
<1>1. CASE CallerNext \/ EngineNext
  BY <1>1, CallerTypes, EngineTypes
<1>2. CASE ManagerNext
  BY <1>2, AcquireTypes, ReleaseTypes, StartFinishedTypes, TimerTypes, ParkTypes,
     StopFinishedTypes, ShutdownTypes DEF ManagerNext
<1>3. CASE UNCHANGED vars
  BY <1>3 DEF vars, TypeOK, mgrVars, clientVars, hostVars, startVars, procVars
<1> QED
  BY <1>1, <1>2, <1>3 DEF Next

\* Every value the manager and its tasks pass around has its type, whatever
\* the order in which commands reach run_manager.
THEOREM TypeCorrect == Spec => []TypeOK
<1> QED
  BY TypeInit, TypeStep, PTL DEF Spec
=============================================================================
