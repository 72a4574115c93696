------------------------ MODULE EngineManagerProofs ------------------------
(***************************************************************************)
(* The safety theorems of EngineManager.                                    *)
(***************************************************************************)
EXTENDS EngineManagerTypes

\* Attempt numbers are fresh: nothing refers to a generation that was not
\* started yet.
Fresh ==
  /\ gen < nextAttempt
  /\ \A c \in Clients : lease[c] <= gen
  /\ \A g \in live \cup crashed : g <= gen

\* LeaseAccounting, with what it needs to survive a start: a generation that
\* is not running has no lease yet.
Counted ==
  /\ mode = "Running" => leases = Cardinality(Claims(gen))
  /\ mode \in Standby \cup {"Starting"} => Claims(gen) = {}
  /\ mode \notin {"Running", "Closed"} => leases = 0

\* The inductive invariant.
IInv ==
  /\ TypeOK /\ Fresh /\ Counted /\ LeaseKeepsGeneration
  /\ SingleProcess /\ CompletionsOwned /\ WaitersOwned

-----------------------------------------------------------------------------
(* Leases.                                                                  *)

\* A running generation whose lease count is zero is claimed by nobody.
LEMMA NoClaims ==
  ASSUME Counted, mode = "Running", leases = 0
  PROVE  Claims(gen) = {}
<1>1. IsFiniteSet(Claims(gen))
  BY CallersFinite DEF Claims
<1> QED
  BY <1>1, FS_EmptySet DEF Counted

\* issue_lease adds to the count what it adds to the claims, when none of the
\* callers it answers held a lease.
LEMMA IssueCounts ==
  ASSUME TypeOK, NEW S, S \subseteq Clients, S \cap Claims(gen) = {},
         leases = Cardinality(Claims(gen)), IssueLeases(S), gen' = gen
  PROVE  leases' = Cardinality(Claims(gen)')
<1>1. Claims(gen)' = Claims(gen) \cup (S \ closed)
  BY DEF Claims, IssueLeases, TypeOK
<1>2. Claims(gen) \subseteq Clients /\ S \ closed \subseteq Clients
  BY DEF Claims
<1>3. /\ IsFiniteSet(Claims(gen)) /\ Cardinality(Claims(gen)) \in Nat
      /\ IsFiniteSet(S \ closed) /\ Cardinality(S \ closed) \in Nat
  BY <1>2, CallersFinite
<1>4. Claims(gen) \cap (S \ closed) = {}
  OBVIOUS
<1>5. Cardinality(Claims(gen) \cup (S \ closed))
        = Cardinality(Claims(gen)) + Cardinality(S \ closed)
  <2>1. Cardinality(Claims(gen) \cap (S \ closed)) = 0
    BY <1>4, FS_EmptySet
  <2>2. Cardinality(Claims(gen) \cup (S \ closed))
          = Cardinality(Claims(gen)) + Cardinality(S \ closed)
            - Cardinality(Claims(gen) \cap (S \ closed))
    BY <1>3, FS_Union, Zenon
  <2> QED
    BY <1>3, <2>1, <2>2
<1> QED
  BY <1>1, <1>5 DEF IssueLeases

\* Nobody is claimed by a generation that was not claimed before unless a
\* lease was issued.
LEMMA DismissClaims ==
  ASSUME TypeOK, NEW S, Dismiss(S), gen' = gen
  PROVE  Claims(gen)' = Claims(gen) \ S
BY DEF Claims, Dismiss, TypeOK

\* A caller whose release is pending leaves the claims, and the count goes down
\* by one exactly when it claimed the running generation.
LEMMA ReleaseCounted ==
  ASSUME IInv, NEW c \in Clients, pc[c] = "releasing", Dismiss({c}), gen' = gen,
         mode = "Running"
  PROVE  /\ ReleaseCounts(c) <=> lease[c] = gen
         /\ ReleaseCounts(c) => Cardinality(Claims(gen)') = leases - 1
         /\ ~ReleaseCounts(c) => Claims(gen)' = Claims(gen)
<1>1. Claims(gen)' = Claims(gen) \ {c}
  BY DismissClaims DEF IInv
<1>2. IsFiniteSet(Claims(gen)) /\ Cardinality(Claims(gen)) \in Nat
  BY CallersFinite DEF Claims
<1>3. c \in Claims(gen) <=> lease[c] = gen
  BY DEF Claims
<1>4. leases = Cardinality(Claims(gen))
  BY DEF IInv, Counted
<1>5. c \in Claims(gen) => leases > 0
  BY <1>2, <1>4, FS_EmptySet
<1>6. ReleaseCounts(c) <=> c \in Claims(gen)
  BY <1>3, <1>5 DEF ReleaseCounts
<1>7. c \in Claims(gen) => Cardinality(Claims(gen) \ {c}) = leases - 1
  BY <1>2, <1>4, FS_RemoveElement
<1> QED
  BY <1>1, <1>3, <1>6, <1>7

\* No caller ends up with a lease on a generation later than the current one.
LEMMA LeasesFresh ==
  ASSUME TypeOK, Fresh, NEW S, Dismiss(S) \/ IssueLeases(S)
  PROVE  \A c \in Clients : lease'[c] <= gen
BY DEF TypeOK, Fresh, Dismiss, IssueLeases

-----------------------------------------------------------------------------
(* Start and stop tasks.                                                    *)

\* None of the tasks of T ends a start or a stop.
NoCompletion(T) == \A m \in T : m.kind \notin StartKinds \cup {"Stop"}

\* The fields of the tasks the manager spawns.
LEMMA TaskFields ==
  /\ \A k, g, e : Task(k, g, e).kind = k /\ Task(k, g, e).gen = g
  /\ \A g, r, o : /\ StopTask(g, r, o).kind = "Stop" /\ StopTask(g, r, o).gen = g
                  /\ StopTask(g, r, o).reason = r
BY DEF Task, StopTask

\* Timers and watchers complete no start and no stop.
LEMMA IdleCycleNoCompletion ==
  ASSUME NEW e
  PROVE  NoCompletion(IdleCycle(e))
BY TaskFields DEF NoCompletion, IdleCycle, StartKinds

\* A task of another kind adds no completion.
LEMMA OtherTask ==
  ASSUME NEW T, NoCompletion(T), NEW k, k \notin StartKinds \cup {"Stop"},
         NEW g, NEW e
  PROVE  NoCompletion(T \cup {Task(k, g, e)})
BY TaskFields DEF NoCompletion

\* A manager that neither starts nor stops waits for no completion, and the one
\* it waits for otherwise is the only one.
LEMMA CompletionsLeft ==
  ASSUME CompletionsOwned
  PROVE  /\ mode \notin {"Starting", "Stopping"} => NoCompletion(tasks)
         /\ \A m \in tasks : m.kind \in StartKinds \cup {"Stop"} => NoCompletion(tasks \ {m})
BY DEF CompletionsOwned, NoCompletion

\* A step to a state that waits for nothing, and leaves no completion behind,
\* keeps the start and stop tasks in order.
LEMMA NoneAwaited ==
  ASSUME mode' \notin {"Starting", "Stopping"}, NoCompletion(tasks')
  PROVE  CompletionsOwned'
BY DEF CompletionsOwned, NoCompletion

\* After spawn_start the manager waits for the one start it spawned.
LEMMA StartAwaited ==
  ASSUME mode' = "Starting", NEW rest, NoCompletion(rest), NEW k \in StartKinds,
         tasks' = rest \cup {Task(k, gen', 0)}
  PROVE  CompletionsOwned'
BY TaskFields DEF CompletionsOwned, NoCompletion, StartKinds

\* After spawn_stop the manager waits for the one stop it spawned.
LEMMA StopAwaited ==
  ASSUME mode' = "Stopping", NEW rest, NoCompletion(rest), NEW o,
         tasks' = rest \cup {StopTask(gen', reason', o)}
  PROVE  CompletionsOwned'
BY TaskFields DEF CompletionsOwned, NoCompletion, StartKinds

\* Timers and watchers that come and go do not disturb a start or a stop.
LEMMA StillAwaited ==
  ASSUME CompletionsOwned, UNCHANGED <<mode, gen, reason>>,
         NEW gone, NoCompletion(gone), NEW new, NoCompletion(new),
         tasks' = (tasks \ gone) \cup new
  PROVE  CompletionsOwned'
BY DEF CompletionsOwned, NoCompletion

\* A stale command is dropped without disturbing a start or a stop.
LEMMA IgnoreAwaited ==
  ASSUME CompletionsOwned, NEW m, m.kind \notin StartKinds \cup {"Stop"}, Ignore(m)
  PROVE  CompletionsOwned'
<1>1. tasks' = (tasks \ {m}) \cup {} /\ UNCHANGED <<mode, gen, reason>>
  BY DEF Ignore, mgrVars
<1>2. NoCompletion({m}) /\ NoCompletion({})
  BY DEF NoCompletion
<1> QED
  BY <1>1, <1>2, StillAwaited

-----------------------------------------------------------------------------
(* Every action keeps the invariant.                                        *)

\* acquire() keeps the invariant.
LEMMA AcquireKeeps ==
  ASSUME IInv, NEW c \in Clients, Acquire(c)
  PROVE  IInv'
<1>1. TypeOK'
  BY CallerTypes DEF CallerNext, IInv
<1> USE DEF IInv, TypeOK, mgrVars, clientVars, hostVars, startVars, procVars, ShuttingDown,
           Waiters, Standby
<1>2. Fresh'
  BY DEF Acquire, Fresh
<1>3. LeaseKeepsGeneration'
  BY DEF Acquire, Claims, Counted, LeaseKeepsGeneration, SingleProcess
<1>4. SingleProcess'
  BY DEF Acquire, CompletionsOwned, Fresh, SingleProcess, StartKinds, Task
<1>5. CompletionsOwned'
  BY DEF Acquire, CompletionsOwned, Fresh, StartKinds, Task, Tasks
<1>6. WaitersOwned'
  BY DEF Acquire, WaitersOwned
<1>7. Counted'
  BY DEF Acquire, Claims, Counted, Fresh
<1> QED
  BY <1>1, <1>2, <1>3, <1>4, <1>5, <1>6, <1>7

\* A caller that gives up keeps the invariant: the manager learns of it only from
\* the closed reply.
LEMMA AbandonKeeps ==
  ASSUME IInv, NEW c \in Clients, Abandon(c)
  PROVE  IInv'
<1>1. TypeOK'
  BY CallerTypes DEF CallerNext, IInv
<1> USE DEF IInv, TypeOK, mgrVars, clientVars, hostVars, startVars, procVars, ShuttingDown,
           Waiters, Standby
<1>2. Fresh'
  BY DEF Abandon, Fresh
<1>3. LeaseKeepsGeneration'
  BY DEF Abandon, Claims, Counted, LeaseKeepsGeneration, SingleProcess
<1>4. SingleProcess'
  BY DEF Abandon, CompletionsOwned, Fresh, SingleProcess, StartKinds, Task
<1>5. CompletionsOwned'
  BY DEF Abandon, CompletionsOwned, Fresh, StartKinds, Task, Tasks
<1>6. WaitersOwned'
  BY DEF Abandon, WaitersOwned
<1>7. Counted'
  BY DEF Abandon, Claims, Counted, Fresh
<1> QED
  BY <1>1, <1>2, <1>3, <1>4, <1>5, <1>6, <1>7

\* Dropping a lease keeps the invariant: until the Release arrives the lease is
\* still counted.
LEMMA DropLeaseKeeps ==
  ASSUME IInv, NEW c \in Clients, DropLease(c)
  PROVE  IInv'
<1>1. TypeOK'
  BY CallerTypes DEF CallerNext, IInv
<1> USE DEF IInv, TypeOK, mgrVars, clientVars, hostVars, startVars, procVars, ShuttingDown,
           Waiters, Standby
<1>2. Fresh'
  BY DEF DropLease, Fresh
<1>3. LeaseKeepsGeneration'
  BY DEF Claims, Counted, DropLease, LeaseKeepsGeneration, SingleProcess
<1>4. SingleProcess'
  BY DEF CompletionsOwned, DropLease, Fresh, SingleProcess, StartKinds, Task
<1>5. CompletionsOwned'
  BY DEF CompletionsOwned, DropLease, Fresh, StartKinds, Task, Tasks
<1>6. WaitersOwned'
  BY DEF DropLease, WaitersOwned
<1>7. Counted'
  BY DEF Claims, Counted, DropLease, Fresh
<1> QED
  BY <1>1, <1>2, <1>3, <1>4, <1>5, <1>6, <1>7

\* Asking for a shutdown keeps the invariant.
LEMMA CallShutdownKeeps ==
  ASSUME IInv, NEW s \in ShutdownCalls, CallShutdown(s)
  PROVE  IInv'
<1>1. TypeOK'
  BY CallerTypes DEF CallerNext, IInv
<1> USE DEF IInv, TypeOK, mgrVars, clientVars, hostVars, startVars, procVars, ShuttingDown,
           Waiters, Standby
<1>2. Fresh'
  BY DEF CallShutdown, Fresh
<1>3. LeaseKeepsGeneration'
  BY DEF CallShutdown, Claims, Counted, LeaseKeepsGeneration, SingleProcess
<1>4. SingleProcess'
  BY DEF CallShutdown, CompletionsOwned, Fresh, SingleProcess, StartKinds,
         Task
<1>5. CompletionsOwned'
  BY DEF CallShutdown, CompletionsOwned, Fresh, StartKinds, Task, Tasks
<1>6. WaitersOwned'
  BY DEF CallShutdown, WaitersOwned
<1>7. Counted'
  BY DEF CallShutdown, Claims, Counted, Fresh
<1> QED
  BY <1>1, <1>2, <1>3, <1>4, <1>5, <1>6, <1>7

\* Dropping the owner keeps the invariant.
LEMMA DropOwnerKeeps ==
  ASSUME IInv, DropOwner
  PROVE  IInv'
<1>1. TypeOK'
  BY CallerTypes DEF CallerNext, IInv
<1> USE DEF IInv, TypeOK, mgrVars, clientVars, hostVars, startVars, procVars, ShuttingDown,
           Waiters, Standby
<1>2. Fresh'
  BY DEF DropOwner, Fresh
<1>3. LeaseKeepsGeneration'
  BY DEF Claims, Counted, DropOwner, LeaseKeepsGeneration, SingleProcess
<1>4. SingleProcess'
  BY DEF CompletionsOwned, DropOwner, Fresh, SingleProcess, StartKinds, Task
<1>5. CompletionsOwned'
  BY DEF CompletionsOwned, DropOwner, Fresh, StartKinds, Task, Tasks
<1>6. WaitersOwned'
  BY DEF DropOwner, WaitersOwned
<1>7. Counted'
  BY DEF Claims, Counted, DropOwner, Fresh
<1> QED
  BY <1>1, <1>2, <1>3, <1>4, <1>5, <1>6, <1>7

\* A crash of the engine keeps the invariant.
LEMMA CrashKeeps ==
  ASSUME IInv, NEW g \in live, Crash(g)
  PROVE  IInv'
<1>1. TypeOK'
  BY EngineTypes DEF EngineNext, IInv
<1> USE DEF IInv, TypeOK, mgrVars, clientVars, hostVars, startVars, procVars, ShuttingDown,
           Waiters, Standby
<1>2. Fresh'
  BY DEF Crash, Fresh
<1>3. LeaseKeepsGeneration'
  BY DEF Claims, Counted, Crash, LeaseKeepsGeneration, SingleProcess
<1>4. SingleProcess'
  BY DEF CompletionsOwned, Crash, Fresh, SingleProcess, StartKinds, Task
<1>5. CompletionsOwned'
  BY DEF CompletionsOwned, Crash, Fresh, StartKinds, Task, Tasks
<1>6. WaitersOwned'
  BY DEF Crash, WaitersOwned
<1>7. Counted'
  BY DEF Claims, Counted, Crash, Fresh
<1> QED
  BY <1>1, <1>2, <1>3, <1>4, <1>5, <1>6, <1>7

\* A start that succeeds keeps the invariant.
LEMMA StartReadyKeeps ==
  ASSUME IInv, NEW m \in tasks, StartReady(m)
  PROVE  IInv'
<1>1. TypeOK'
  BY EngineTypes DEF EngineNext, IInv
<1> USE DEF IInv, TypeOK, mgrVars, clientVars, hostVars, startVars, procVars, ShuttingDown,
           Waiters, Standby
<1>2. Fresh'
  BY DEF Fresh, StartReady
<1>3. LeaseKeepsGeneration'
  BY DEF Claims, Counted, LeaseKeepsGeneration, SingleProcess, StartReady
<1>4. SingleProcess'
  BY DEF CompletionsOwned, Fresh, SingleProcess, StartKinds, StartReady,
         Task
<1>5. CompletionsOwned'
  <2>1. NoCompletion(tasks \ {m}) /\ mode = "Starting" /\ m.gen = gen
    BY SMTT(30), CompletionsLeft, TaskFields DEF StartReady, CompletionsOwned, StartKinds
  <2> QED
    BY <2>1, StartAwaited DEF StartReady, StartKinds
<1>6. WaitersOwned'
  BY DEF StartReady, WaitersOwned
<1>7. Counted'
  BY DEF Claims, Counted, Fresh, StartReady
<1> QED
  BY <1>1, <1>2, <1>3, <1>4, <1>5, <1>6, <1>7

\* A start that fails keeps the invariant: it has reaped its process.
LEMMA StartFailsKeeps ==
  ASSUME IInv, NEW m \in tasks, StartFails(m)
  PROVE  IInv'
<1>1. TypeOK'
  BY EngineTypes DEF EngineNext, IInv
<1> USE DEF IInv, TypeOK, mgrVars, clientVars, hostVars, startVars, procVars, ShuttingDown,
           Waiters, Standby
<1>2. Fresh'
  BY DEF Fresh, StartFails
<1>3. LeaseKeepsGeneration'
  BY DEF Claims, Counted, LeaseKeepsGeneration, SingleProcess, StartFails
<1>4. SingleProcess'
  BY DEF CompletionsOwned, Fresh, SingleProcess, StartFails, StartKinds,
         Task
<1>5. CompletionsOwned'
  <2>1. NoCompletion(tasks \ {m}) /\ mode = "Starting" /\ m.gen = gen
    BY SMTT(30), CompletionsLeft, TaskFields DEF StartFails, CompletionsOwned, StartKinds
  <2> QED
    BY <2>1, StartAwaited DEF StartFails, StartKinds
<1>6. WaitersOwned'
  BY DEF StartFails, WaitersOwned
<1>7. Counted'
  BY DEF Claims, Counted, Fresh, StartFails
<1> QED
  BY <1>1, <1>2, <1>3, <1>4, <1>5, <1>6, <1>7

\* ManagerCommand::Acquire keeps the invariant, in every state of the manager.
LEMMA HandleAcquireKeeps ==
  ASSUME IInv, NEW c \in Clients, HandleAcquire(c)
  PROVE  IInv'
<1>1. TypeOK'
  BY AcquireTypes DEF IInv
<1> USE DEF IInv, TypeOK, mgrVars, clientVars, hostVars, startVars, procVars, ShuttingDown,
           Waiters, Standby
<1>2. Fresh'
  <2>1. CASE SpawnStart(tasks, live) /\ UNCHANGED <<closed, lease, crashed>>
    BY <2>1 DEF Fresh, SpawnStart
  <2>2. CASE UNCHANGED <<gen, startVars, procVars>> /\ \A d \in Clients : lease'[d] <= gen
    BY <2>2 DEF Fresh
  <2> QED
    BY <2>1, <2>2, LeasesFresh DEF HandleAcquire, Fresh, BeginResume
<1>3. LeaseKeepsGeneration'
  BY DEF BeginResume, Claims, Counted, Dismiss, HandleAcquire, IssueLeases,
         LeaseKeepsGeneration, RejectsAcquire, SingleProcess, SpawnStart
<1>4. SingleProcess'
  BY DEF BeginResume, CompletionsOwned, Dismiss, Fresh, HandleAcquire,
         IssueLeases, RejectsAcquire, SingleProcess, SpawnStart, StartKinds,
         Task
<1>5. CompletionsOwned'
  <2>1. CASE mode = "Cold" /\ SpawnStart(tasks, live)
    BY <2>1, CompletionsLeft, StartAwaited DEF SpawnStart, StartKinds
  <2>2. CASE mode = "Parked" /\ BeginResume(tasks)
    <3>1. NoCompletion(tasks \cup {Task("Resume", gen, parkEpoch)})
      BY <2>2, CompletionsLeft, TaskFields DEF NoCompletion, StartKinds
    <3> QED
      BY <2>2, <3>1, NoneAwaited DEF BeginResume
  <2>3. CASE UNCHANGED <<mode, gen, reason, tasks>>
    BY <2>3 DEF CompletionsOwned
  <2> QED
    BY <2>1, <2>2, <2>3 DEF HandleAcquire
<1>6. WaitersOwned'
  BY DEF BeginResume, Dismiss, HandleAcquire, IssueLeases, RejectsAcquire,
         SpawnStart, WaitersOwned
<1>7. Counted'
  <2>1. c \notin Claims(gen)
    BY DEF HandleAcquire, Claims
  <2>2. CASE mode = "Cold" /\ SpawnStart(tasks, live) /\ UNCHANGED <<closed, lease>>
    <3>1. lease' = lease /\ gen' = nextAttempt
      BY <2>2 DEF SpawnStart
    <3>2. Claims(gen)' = {}
      BY <3>1 DEF Claims, Fresh
    <3> QED
      BY <2>2, <3>1, <3>2 DEF SpawnStart, Counted
  <2>3. CASE mode = "Running" /\ IssueLeases({c}) /\ UNCHANGED <<mode, gen>>
    <3>1. leases' = Cardinality(Claims(gen)')
      BY <2>1, <2>3, IssueCounts DEF Counted
    <3> QED
      BY <2>3, <3>1 DEF Counted
  <2>4. CASE Dismiss({c}) /\ UNCHANGED mgrVars
    BY SMTT(30), <2>1, <2>4, DismissClaims DEF Counted
  <2>5. CASE /\ pc' = [pc EXCEPT ![c] = "waiting"] /\ mode # "Running"
             /\ mode' \in {mode, "Resuming"} /\ (mode' # mode => mode = "Parked")
             /\ UNCHANGED <<gen, leases, lease>>
    <3>1. Claims(gen)' = Claims(gen)
      BY <2>1, <2>5 DEF Claims
    <3> QED
      BY <2>5, <3>1 DEF Counted
  <2> QED
    BY <2>2, <2>3, <2>4, <2>5 DEF HandleAcquire, BeginResume
<1> QED
  BY <1>1, <1>2, <1>3, <1>4, <1>5, <1>6, <1>7

\* ManagerCommand::Release keeps the invariant: it is counted exactly when the
\* lease is one on the running generation.
LEMMA HandleReleaseKeeps ==
  ASSUME IInv, NEW c \in Clients, HandleRelease(c)
  PROVE  IInv'
<1>1. TypeOK'
  BY ReleaseTypes DEF IInv
<1> USE DEF IInv, TypeOK, mgrVars, clientVars, hostVars, startVars, procVars, ShuttingDown,
           Waiters, Standby
<1>2. Fresh'
  <2>1. UNCHANGED <<gen, nextAttempt, live, crashed>> /\ Dismiss({c})
    BY DEF BeginStop, HandleRelease
  <2>2. \A d \in Clients : lease'[d] <= gen
    BY <2>1 DEF Dismiss, Fresh
  <2> QED
    BY <2>1, <2>2 DEF Fresh
<1>3. LeaseKeepsGeneration'
  BY DEF BeginStop, Claims, Counted, Dismiss, HandleRelease, IdleCycle,
         LeaseKeepsGeneration, ReleaseCounts, SingleProcess, StopTask
<1>4. SingleProcess'
  BY DEF BeginStop, CompletionsOwned, Dismiss, Fresh, HandleRelease,
         IdleCycle, ReleaseCounts, SingleProcess, StartKinds, StopTask, Task
<1>5. CompletionsOwned'
  <2>1. CASE mode = "Running" /\ BeginStop("HostShutdown", tasks)
    BY <2>1, CompletionsLeft, StopAwaited DEF BeginStop
  <2>2. CASE mode = "Running" /\ UNCHANGED mode /\ tasks' = tasks \cup IdleCycle(idleEpoch')
    <3>1. NoCompletion(tasks \cup IdleCycle(idleEpoch'))
      BY <2>2, CompletionsLeft, IdleCycleNoCompletion DEF NoCompletion
    <3> QED
      BY <2>2, <3>1, NoneAwaited
  <2>3. CASE UNCHANGED <<mode, gen, reason, tasks>>
    BY <2>3 DEF CompletionsOwned
  <2> QED
    BY <2>1, <2>2, <2>3 DEF HandleRelease, ReleaseCounts
<1>6. WaitersOwned'
  BY DEF BeginStop, Dismiss, HandleRelease, IdleCycle, ReleaseCounts,
         StopTask, WaitersOwned
<1>7. Counted'
  <2>1. pc[c] = "releasing" /\ Dismiss({c}) /\ gen' = gen
    BY DEF HandleRelease, BeginStop
  <2>2. CASE mode = "Running"
    <3>1. CASE mode' = "Running"
      <4>1. \/ ReleaseCounts(c) /\ leases' = leases - 1
            \/ ~ReleaseCounts(c) /\ leases' = leases
        <5>1. leases \in Nat
          OBVIOUS
        <5> HIDE DEF IInv, TypeOK
        <5> QED
          BY SMTT(30), <3>1, <5>1 DEF HandleRelease, BeginStop
      <4>2. leases' = Cardinality(Claims(gen)')
        <5>1. leases = Cardinality(Claims(gen))
          BY <2>2 DEF Counted
        <5>2. /\ ReleaseCounts(c) => Cardinality(Claims(gen)') = leases - 1
              /\ ~ReleaseCounts(c) => Claims(gen)' = Claims(gen)
          BY <2>1, <2>2, ReleaseCounted
        <5> QED
          BY <4>1, <5>1, <5>2
      <4> QED
        BY <3>1, <4>2 DEF Counted
    <3>2. CASE mode' # "Running"
      BY <2>2, <3>2 DEF HandleRelease, BeginStop, Counted
    <3> QED
      BY <3>1, <3>2
  <2>3. CASE mode # "Running"
    BY <2>1, <2>3, DismissClaims DEF HandleRelease, ReleaseCounts, Counted
  <2> QED
    BY <2>2, <2>3
<1> QED
  BY <1>1, <1>2, <1>3, <1>4, <1>5, <1>6, <1>7

\* ManagerCommand::StartFinished keeps the invariant.
LEMMA StartFinishedKeeps ==
  ASSUME IInv, NEW m \in tasks, StartFinished(m)
  PROVE  IInv'
<1>1. TypeOK'
  BY StartFinishedTypes DEF IInv
<1> USE DEF IInv, TypeOK, mgrVars, clientVars, hostVars, startVars, procVars, ShuttingDown,
           Waiters, Standby
<1>2. Fresh'
  BY SMTT(30) DEF Dismiss, Exit, Fresh, IdleCycle, IssueLeases, Serve, StartFinished,
         StopTask
<1>3. LeaseKeepsGeneration'
  BY DEF Claims, Counted, Dismiss, Exit, IdleCycle, IssueLeases,
         LeaseKeepsGeneration, Serve, SingleProcess, StartFinished, StopTask
<1>4. SingleProcess'
  <2>1. mode = "Starting" /\ m = Task(m.kind, gen, 0)
    BY DEF StartFinished, CompletionsOwned, StartKinds
  <2>2. CASE m.kind = "StartOk"
    <3>1. Task("StartErr", gen, 0) \notin tasks
      BY SMTT(30), <2>1, <2>2, TaskFields DEF CompletionsOwned, StartKinds
    <3> QED
      BY <2>1, <2>2, <3>1 DEF StartFinished, Serve, SingleProcess
  <2>3. CASE m.kind = "StartErr"
    BY <2>1, <2>3 DEF StartFinished, Exit, SingleProcess
  <2> QED
    BY <2>2, <2>3 DEF StartFinished
<1>5. CompletionsOwned'
  <2>1. NoCompletion(tasks \ {m}) /\ mode = "Starting"
    BY CompletionsLeft DEF StartFinished, StartKinds
  <2>2. CASE mode' = "Stopping"
    BY SMTT(30), <2>1, <2>2, StopAwaited DEF StartFinished, Serve, Exit
  <2>3. CASE Serve(Waiters, (tasks \ {m}) \cup {Task("Watch", gen, 0)})
    <3>1. NoCompletion(tasks')
      BY SMTT(30), <2>1, <2>3, IdleCycleNoCompletion, TaskFields
      DEF Serve, NoCompletion, StartKinds
    <3> QED
      BY <2>3, <3>1, NoneAwaited DEF Serve
  <2>4. CASE mode' \in {"Cold", "Closed"} /\ tasks' \subseteq tasks \ {m}
    BY <2>1, <2>4, NoneAwaited DEF NoCompletion
  <2> QED
    BY <2>2, <2>3, <2>4 DEF StartFinished, Exit
<1>6. WaitersOwned'
  BY DEF Dismiss, Exit, IdleCycle, IssueLeases, Serve, StartFinished,
         StopTask, WaitersOwned
<1>7. Counted'
  <2>1. CASE Serve(Waiters, (tasks \ {m}) \cup {Task("Watch", gen, 0)})
    <3>1. leases = 0 /\ Claims(gen) = {} /\ Waiters \subseteq Clients /\ gen' = gen
      BY <2>1 DEF StartFinished, Serve, Exit, Counted
    <3>2. leases = Cardinality(Claims(gen))
      BY <3>1, FS_EmptySet
    <3>3. leases' = Cardinality(Claims(gen)')
      BY <2>1, <3>1, <3>2, IssueCounts DEF Serve
    <3> QED
      BY <2>1, <3>3 DEF Serve, Counted
  <2>2. CASE mode' # "Running"
    BY <2>2 DEF StartFinished, Serve, Exit, Counted
  <2> QED
    BY <2>1, <2>2 DEF StartFinished, Exit
<1> QED
  BY <1>1, <1>2, <1>3, <1>4, <1>5, <1>6, <1>7

\* ManagerCommand::HotIdleExpired keeps the invariant: what it quiesces is not
\* leased.
LEMMA HotIdleExpiredKeeps ==
  ASSUME IInv, NEW m \in tasks, HotIdleExpired(m)
  PROVE  IInv'
<1>1. TypeOK'
  BY TimerTypes DEF IInv
<1> USE DEF IInv, TypeOK, mgrVars, clientVars, hostVars, startVars, procVars, ShuttingDown,
           Waiters, Standby
<1>2. Fresh'
  BY DEF BeginQuiesce, Fresh, HotIdleExpired, Ignore, IsCurrentTimer
<1>3. LeaseKeepsGeneration'
  BY NoClaims DEF BeginQuiesce, Claims, HotIdleExpired, Ignore, LeaseKeepsGeneration
<1>4. SingleProcess'
  BY DEF BeginQuiesce, CompletionsOwned, Fresh, HotIdleExpired, Ignore,
         IsCurrentTimer, SingleProcess, StartKinds, Task
<1>5. CompletionsOwned'
  <2>1. CASE mode = "Running" /\ BeginQuiesce(tasks \ {m})
    <3>1. CompletionsOwned
      OBVIOUS
    <3> HIDE DEF IInv, TypeOK
    <3>2. NoCompletion(tasks \ {m})
      BY <2>1, <3>1, CompletionsLeft DEF NoCompletion
    <3>3. NoCompletion((tasks \ {m}) \cup {Task("Quiesce", gen, parkEpoch')})
      BY <3>2, OtherTask DEF StartKinds
    <3> QED
      BY <2>1, <3>3, NoneAwaited DEF BeginQuiesce
  <2>2. CASE Ignore(m)
    <3>1. m.kind \notin StartKinds \cup {"Stop"}
      BY DEF HotIdleExpired, StartKinds
    <3>2. tasks' = tasks \ {m} /\ UNCHANGED <<mode, gen, reason>>
      BY <2>2 DEF Ignore
    <3> HIDE DEF IInv, TypeOK
    <3>3. CompletionsOwned
      BY DEF IInv
    <3> QED
      BY <3>1, <3>2, <3>3 DEF CompletionsOwned
  <2> QED
    BY <2>1, <2>2 DEF HotIdleExpired
<1>6. WaitersOwned'
  BY DEF BeginQuiesce, HotIdleExpired, Ignore, IsCurrentTimer, WaitersOwned
<1>7. Counted'
  BY NoClaims DEF BeginQuiesce, Claims, HotIdleExpired, Ignore, Counted
<1> QED
  BY <1>1, <1>2, <1>3, <1>4, <1>5, <1>6, <1>7

\* ManagerCommand::IdleExpired keeps the invariant: what it reaps is not leased.
LEMMA IdleExpiredKeeps ==
  ASSUME IInv, NEW m \in tasks, IdleExpired(m)
  PROVE  IInv'
<1>1. TypeOK'
  BY TimerTypes DEF IInv
<1> USE DEF IInv, TypeOK, mgrVars, clientVars, hostVars, startVars, procVars, ShuttingDown,
           Waiters, Standby
<1>2. Fresh'
  BY DEF BeginStop, Fresh, IdleExpired, Ignore, IsCurrentTimer, StopTask
<1>3. LeaseKeepsGeneration'
  BY NoClaims DEF BeginStop, Claims, IdleExpired, Ignore, LeaseKeepsGeneration
<1>4. SingleProcess'
  BY DEF BeginStop, CompletionsOwned, Fresh, IdleExpired, Ignore,
         IsCurrentTimer, SingleProcess, StartKinds, StopTask, Task
<1>5. CompletionsOwned'
  <2>1. m.kind \notin StartKinds \cup {"Stop"}
    BY DEF IdleExpired, StartKinds
  <2>2. CASE Ignore(m)
    BY <2>1, <2>2, IgnoreAwaited
  <2>3. CASE \E why : BeginStop(why, tasks \ {m}) /\ mode \in {"Running"} \cup Standby
    <3>1. NoCompletion(tasks \ {m})
      BY <2>3, CompletionsLeft DEF NoCompletion
    <3> QED
      BY <2>3, <3>1, StopAwaited DEF BeginStop
  <2> QED
    BY <2>2, <2>3 DEF IdleExpired
<1>6. WaitersOwned'
  BY DEF BeginStop, IdleExpired, Ignore, IsCurrentTimer, StopTask,
         WaitersOwned
<1>7. Counted'
  BY DEF BeginStop, Claims, Counted, Fresh, IdleExpired, Ignore,
         IsCurrentTimer, StopTask
<1> QED
  BY <1>1, <1>2, <1>3, <1>4, <1>5, <1>6, <1>7

\* ManagerCommand::DrainExpired keeps the invariant.
LEMMA DrainExpiredKeeps ==
  ASSUME IInv, NEW m \in tasks, DrainExpired(m)
  PROVE  IInv'
<1>1. TypeOK'
  BY TimerTypes DEF IInv
<1> USE DEF IInv, TypeOK, mgrVars, clientVars, hostVars, startVars, procVars, ShuttingDown,
           Waiters, Standby
<1>2. Fresh'
  BY DEF BeginStop, DrainExpired, DrainIsDue, Fresh, Ignore, StopTask
<1>3. LeaseKeepsGeneration'
  BY DEF BeginStop, Claims, Counted, DrainExpired, DrainIsDue, Ignore,
         LeaseKeepsGeneration, SingleProcess, StopTask
<1>4. SingleProcess'
  BY DEF BeginStop, CompletionsOwned, DrainExpired, DrainIsDue, Fresh,
         Ignore, SingleProcess, StartKinds, StopTask, Task
<1>5. CompletionsOwned'
  <2>1. m.kind \notin StartKinds \cup {"Stop"}
    BY DEF DrainExpired, StartKinds
  <2>2. CASE Ignore(m)
    BY <2>1, <2>2, IgnoreAwaited
  <2>3. CASE \E why : BeginStop(why, tasks \ {m}) /\ mode \in {"Running"} \cup Standby
    <3>1. NoCompletion(tasks \ {m})
      BY <2>3, CompletionsLeft DEF NoCompletion
    <3> QED
      BY <2>3, <3>1, StopAwaited DEF BeginStop
  <2> QED
    BY <2>2, <2>3 DEF DrainExpired, DrainIsDue
<1>6. WaitersOwned'
  BY DEF BeginStop, DrainExpired, DrainIsDue, Ignore, StopTask, WaitersOwned
<1>7. Counted'
  BY DEF BeginStop, Claims, Counted, DrainExpired, DrainIsDue, Fresh,
         Ignore, StopTask
<1> QED
  BY <1>1, <1>2, <1>3, <1>4, <1>5, <1>6, <1>7

\* ManagerCommand::GenerationTerminal keeps the invariant: a generation that is
\* live and reported terminal has crashed.
LEMMA GenerationTerminalKeeps ==
  ASSUME IInv, NEW m \in tasks, GenerationTerminal(m)
  PROVE  IInv'
<1>1. TypeOK'
  BY TimerTypes DEF IInv
<1> USE DEF IInv, TypeOK, mgrVars, clientVars, hostVars, startVars, procVars, ShuttingDown,
           Waiters, Standby
<1>2. Fresh'
  BY DEF BeginStop, Fresh, GenerationTerminal, Ignore, StopTask
<1>3. LeaseKeepsGeneration'
  BY DEF BeginStop, Claims, Counted, GenerationTerminal, Ignore,
         LeaseKeepsGeneration, SingleProcess, StopTask
<1>4. SingleProcess'
  BY DEF BeginStop, CompletionsOwned, Fresh, GenerationTerminal, Ignore,
         SingleProcess, StartKinds, StopTask, Task
<1>5. CompletionsOwned'
  <2>1. m.kind \notin StartKinds \cup {"Stop"}
    BY DEF GenerationTerminal, StartKinds
  <2>2. CASE Ignore(m)
    BY <2>1, <2>2, IgnoreAwaited
  <2>3. CASE \E why : BeginStop(why, tasks \ {m}) /\ mode \in {"Running"} \cup Standby
    <3>1. NoCompletion(tasks \ {m})
      BY <2>3, CompletionsLeft DEF NoCompletion
    <3> QED
      BY <2>3, <3>1, StopAwaited DEF BeginStop
  <2> QED
    BY <2>2, <2>3 DEF GenerationTerminal
<1>6. WaitersOwned'
  BY DEF BeginStop, GenerationTerminal, Ignore, StopTask, WaitersOwned
<1>7. Counted'
  BY DEF BeginStop, Claims, Counted, Fresh, GenerationTerminal, Ignore,
         StopTask
<1> QED
  BY <1>1, <1>2, <1>3, <1>4, <1>5, <1>6, <1>7

\* ManagerCommand::QuiesceFinished keeps the invariant.
LEMMA QuiesceFinishedKeeps ==
  ASSUME IInv, NEW m \in tasks, NEW res \in Results, QuiesceFinished(m, res)
  PROVE  IInv'
<1>1. TypeOK'
  BY ParkTypes DEF IInv
<1> USE DEF IInv, TypeOK, mgrVars, clientVars, hostVars, startVars, procVars, ShuttingDown,
           Waiters, Standby
<1>2. Fresh'
  <2>1. UNCHANGED <<gen, startVars, procVars>>
    BY DEF QuiesceFinished, Ignore, BeginResume, LifecycleFailed, BeginStop
  <2>2. \A d \in Clients : lease'[d] <= gen
    BY LeasesFresh DEF QuiesceFinished, Ignore, LifecycleFailed, Fresh
  <2> QED
    BY <2>1, <2>2 DEF Fresh
<1>3. LeaseKeepsGeneration'
  BY DEF BeginResume, BeginStop, Claims, Counted, Dismiss, Ignore,
         LeaseKeepsGeneration, LifecycleFailed, QuiesceFinished,
         SingleProcess, StopTask
<1>4. SingleProcess'
  BY DEF BeginResume, BeginStop, CompletionsOwned, Dismiss, Fresh, Ignore,
         LifecycleFailed, QuiesceFinished, SingleProcess, StartKinds,
         StopTask, Task
<1>5. CompletionsOwned'
  <2>1. m.kind \notin StartKinds \cup {"Stop"}
    BY DEF QuiesceFinished, StartKinds
  <2>2. CASE Ignore(m)
    BY <2>1, <2>2, IgnoreAwaited
  <2>3. CASE mode = "Quiescing"
    <3>1. NoCompletion(tasks \ {m})
      BY <2>3, CompletionsLeft DEF NoCompletion
    <3>2. CASE mode' = "Parked" /\ tasks' = tasks \ {m}
      BY <3>1, <3>2, NoneAwaited
    <3>3. CASE BeginResume(tasks \ {m})
      <4>1. NoCompletion(tasks')
        BY <3>1, <3>3, OtherTask DEF BeginResume, StartKinds
      <4> QED
        BY <3>3, <4>1, NoneAwaited DEF BeginResume
    <3>4. CASE \E open : LifecycleFailed(open, tasks \ {m})
      BY <3>1, <3>4, StopAwaited DEF LifecycleFailed, BeginStop
    <3> QED
      BY <2>2, <3>2, <3>3, <3>4 DEF QuiesceFinished
  <2> QED
    BY <2>2, <2>3 DEF QuiesceFinished
<1>6. WaitersOwned'
  BY DEF BeginResume, BeginStop, Dismiss, Ignore, LifecycleFailed,
         QuiesceFinished, StopTask, WaitersOwned
<1>7. Counted'
  <2>1. CASE mode' = "Stopping" /\ leases' = 0
    BY <2>1 DEF Counted
  <2>2. CASE Ignore(m)
    BY <2>2 DEF Ignore, Counted, Claims
  <2>3. CASE /\ mode = "Quiescing" /\ mode' \in {"Parked", "Resuming"}
             /\ UNCHANGED <<gen, leases>> /\ \E S : Dismiss(S)
    BY <2>3, DismissClaims DEF Counted
  <2> QED
    BY <2>1, <2>2, <2>3 DEF QuiesceFinished, LifecycleFailed, BeginStop, BeginResume
<1> QED
  BY <1>1, <1>2, <1>3, <1>4, <1>5, <1>6, <1>7

\* ManagerCommand::ResumeFinished keeps the invariant.
LEMMA ResumeFinishedKeeps ==
  ASSUME IInv, NEW m \in tasks, NEW res \in Results, ResumeFinished(m, res)
  PROVE  IInv'
<1>1. TypeOK'
  BY ParkTypes DEF IInv
<1> USE DEF IInv, TypeOK, mgrVars, clientVars, hostVars, startVars, procVars, ShuttingDown,
           Waiters, Standby
<1>2. Fresh'
  <2>1. UNCHANGED <<gen, startVars, procVars>>
    BY DEF ResumeFinished, Ignore, LifecycleFailed, BeginStop
  <2>2. \A d \in Clients : lease'[d] <= gen
    BY LeasesFresh DEF ResumeFinished, Ignore, Serve, LifecycleFailed, Fresh
  <2> QED
    BY <2>1, <2>2 DEF Fresh
<1>3. LeaseKeepsGeneration'
  <2> SUFFICES ASSUME NEW d \in Clients, pc'[d] = "leased",
                      lease'[d] \notin crashed', ~ShuttingDown'
               PROVE  mode' = "Running" /\ gen' = lease'[d]
    BY DEF LeaseKeepsGeneration
  <2>1. ~ShuttingDown /\ crashed' = crashed /\ gen' = gen
    BY DEF ResumeFinished, Ignore, LifecycleFailed, BeginStop
  <2>2. pc[d] = "leased" /\ lease[d] \notin crashed
          => mode = "Running" /\ gen = lease[d]
    BY <2>1 DEF LeaseKeepsGeneration
  <2>3. CASE Ignore(m)
    BY <2>1, <2>2, <2>3 DEF Ignore
  <2>4. CASE mode = "Resuming" /\ Serve(Waiters, tasks \ {m})
    BY <2>1, <2>2, <2>4 DEF Serve, IssueLeases
  <2>5. CASE mode = "Resuming" /\ \E open : LifecycleFailed(open, tasks \ {m})
    BY <2>1, <2>2, <2>5 DEF LifecycleFailed, Dismiss
  <2> QED
    BY <2>3, <2>4, <2>5 DEF ResumeFinished
<1>4. SingleProcess'
  BY DEF BeginStop, CompletionsOwned, Dismiss, Fresh, IdleCycle, Ignore,
         IssueLeases, LifecycleFailed, ResumeFinished, Serve, SingleProcess,
         StartKinds, StopTask, Task
<1>5. CompletionsOwned'
  <2>1. m.kind \notin StartKinds \cup {"Stop"}
    BY DEF ResumeFinished, StartKinds
  <2>2. CASE Ignore(m)
    BY <2>1, <2>2, IgnoreAwaited
  <2>3. CASE mode = "Resuming"
    <3>1. NoCompletion(tasks \ {m})
      BY <2>3, CompletionsLeft DEF NoCompletion
    <3>2. CASE Serve(Waiters, tasks \ {m})
      <4>1. NoCompletion(tasks')
        BY <3>1, <3>2, IdleCycleNoCompletion DEF Serve, NoCompletion
      <4> QED
        BY <3>2, <4>1, NoneAwaited DEF Serve
    <3>3. CASE \E open : LifecycleFailed(open, tasks \ {m})
      BY <3>1, <3>3, StopAwaited DEF LifecycleFailed, BeginStop
    <3> QED
      BY <2>2, <3>2, <3>3 DEF ResumeFinished
  <2> QED
    BY <2>2, <2>3 DEF ResumeFinished
<1>6. WaitersOwned'
  BY DEF BeginStop, Dismiss, IdleCycle, Ignore, IssueLeases,
         LifecycleFailed, ResumeFinished, Serve, StopTask, WaitersOwned
<1>7. Counted'
  <2>1. CASE mode = "Resuming" /\ Serve(Waiters, tasks \ {m}) /\ gen' = gen
    <3>1. leases = 0 /\ Claims(gen) = {} /\ Waiters \subseteq Clients /\ gen' = gen
      BY <2>1 DEF Serve, Counted
    <3>2. leases = Cardinality(Claims(gen))
      BY <3>1, FS_EmptySet
    <3>3. leases' = Cardinality(Claims(gen)')
      BY <2>1, <3>1, <3>2, IssueCounts DEF Serve
    <3> QED
      BY <2>1, <3>3 DEF Serve, Counted
  <2>2. CASE mode' = "Stopping" /\ leases' = 0
    BY <2>2 DEF Counted
  <2>3. CASE Ignore(m)
    BY <2>3 DEF Ignore, Counted, Claims
  <2> QED
    BY <2>1, <2>2, <2>3 DEF ResumeFinished, LifecycleFailed, BeginStop
<1> QED
  BY <1>1, <1>2, <1>3, <1>4, <1>5, <1>6, <1>7

\* ManagerCommand::StopFinished keeps the invariant.
LEMMA StopFinishedKeeps ==
  ASSUME IInv, NEW m \in tasks, NEW res \in Results, StopFinished(m, res)
  PROVE  IInv'
<1>1. TypeOK'
  BY StopFinishedTypes DEF IInv
<1> USE DEF IInv, TypeOK, mgrVars, clientVars, hostVars, startVars, procVars, ShuttingDown,
           Waiters, Standby
<1>2. Fresh'
  BY SMTT(30) DEF Dismiss, Exit, Fresh, SpawnStart, StopFinished
<1>3. LeaseKeepsGeneration'
  BY DEF Claims, Counted, Dismiss, Exit, LeaseKeepsGeneration,
         SingleProcess, SpawnStart, StopFinished
<1>4. SingleProcess'
  BY DEF CompletionsOwned, Dismiss, Exit, Fresh, SingleProcess, SpawnStart,
         StartKinds, StopFinished, Task
<1>5. CompletionsOwned'
  <2>1. NoCompletion(tasks \ {m})
    BY CompletionsLeft DEF StopFinished
  <2>2. CASE SpawnStart(tasks \ {m}, live \ {gen})
    BY <2>1, <2>2, StartAwaited DEF SpawnStart, StartKinds
  <2>3. CASE mode' \in {"Cold", "Closed"} /\ tasks' \subseteq tasks \ {m}
    BY <2>1, <2>3, NoneAwaited DEF NoCompletion
  <2> QED
    BY <2>2, <2>3 DEF StopFinished, Exit
<1>6. WaitersOwned'
  BY DEF Dismiss, Exit, SpawnStart, StopFinished, WaitersOwned
<1>7. Counted'
  BY SMTT(30) DEF Claims, Counted, Dismiss, Exit, Fresh, SpawnStart, StopFinished
<1> QED
  BY <1>1, <1>2, <1>3, <1>4, <1>5, <1>6, <1>7

\* ManagerCommand::Shutdown keeps the invariant.
LEMMA HandleShutdownKeeps ==
  ASSUME IInv, NEW s \in ShutdownCalls, HandleShutdown(s)
  PROVE  IInv'
<1>1. TypeOK'
  BY ShutdownTypes DEF IInv
<1> USE DEF IInv, TypeOK, mgrVars, clientVars, hostVars, startVars, procVars, ShuttingDown,
           Waiters, Standby
<1>2. Fresh'
  BY SMTT(30) DEF BeginStop, Dismiss, Exit, Fresh, HandleShutdown,
         StartHostShutdown, StopTask
<1>3. LeaseKeepsGeneration'
  BY DEF BeginStop, Claims, Counted, Dismiss, Exit, HandleShutdown,
         LeaseKeepsGeneration, SingleProcess, StartHostShutdown, StopTask
<1>4. SingleProcess'
  BY DEF BeginStop, CompletionsOwned, Dismiss, Exit, Fresh, HandleShutdown,
         SingleProcess, StartHostShutdown, StartKinds, StopTask, Task
<1>5. CompletionsOwned'
  <2>1. CASE Exit("ok", [calls EXCEPT ![s] = "pending"])
    BY <2>1, NoneAwaited DEF Exit, NoCompletion
  <2>2. CASE mode \in {"Running"} \cup Standby /\ BeginStop("HostShutdown", tasks)
    BY <2>2, CompletionsLeft, StopAwaited DEF BeginStop
  <2>3. CASE UNCHANGED mgrVars /\ tasks' = tasks \cup {Task("DrainExpired", gen, drainEpoch')}
    <3>1. NoCompletion({Task("DrainExpired", gen, drainEpoch')})
      BY SMTT(30), TaskFields DEF NoCompletion, StartKinds
    <3>2. NoCompletion({}) /\ tasks' = (tasks \ {}) \cup {Task("DrainExpired", gen, drainEpoch')}
      BY <2>3 DEF NoCompletion
    <3> QED
      BY <2>3, <3>1, <3>2, StillAwaited
  <2>4. CASE UNCHANGED <<mgrVars, tasks>>
    BY <2>4 DEF CompletionsOwned
  <2> QED
    BY <2>1, <2>2, <2>3, <2>4 DEF HandleShutdown, StartHostShutdown
<1>6. WaitersOwned'
  BY DEF BeginStop, Dismiss, Exit, HandleShutdown, StartHostShutdown,
         StopTask, WaitersOwned
<1>7. Counted'
  <2>1. CASE UNCHANGED <<mgrVars, clientVars>>
    BY <2>1 DEF Counted, Claims
  <2>2. CASE mode' = "Closed" \/ (mode' = "Stopping" /\ leases' = 0)
    BY <2>2 DEF Counted
  <2>3. CASE mode = "Starting" /\ Dismiss(Waiters) /\ UNCHANGED mgrVars
    <3>1. Claims(gen) = {} /\ leases = 0
      BY <2>3 DEF Counted
    <3>2. Claims(gen)' = Claims(gen) \ Waiters
      BY <2>3, DismissClaims
    <3> QED
      BY <2>3, <3>1, <3>2 DEF Counted
  <2>4. CASE mode = "Stopping" /\ UNCHANGED mgrVars
    BY <2>4 DEF Counted
  <2> QED
    <3>1. CASE ShuttingDown
      BY <2>1, <3>1 DEF HandleShutdown
    <3>2. CASE StartHostShutdown(FALSE, [calls EXCEPT ![s] = "pending"])
      BY <2>1, <2>2, <2>3, <2>4, <3>2 DEF StartHostShutdown, Exit, BeginStop
    <3> QED
      BY <3>1, <3>2 DEF HandleShutdown
<1> QED
  BY <1>1, <1>2, <1>3, <1>4, <1>5, <1>6, <1>7

\* ManagerCommand::ForceShutdown keeps the invariant.
LEMMA HandleForceShutdownKeeps ==
  ASSUME IInv, HandleForceShutdown
  PROVE  IInv'
<1>1. TypeOK'
  BY ShutdownTypes DEF IInv
<1> USE DEF IInv, TypeOK, mgrVars, clientVars, hostVars, startVars, procVars, ShuttingDown,
           Waiters, Standby
<1>2. Fresh'
  BY SMTT(30) DEF BeginStop, Dismiss, Exit, Fresh, HandleForceShutdown,
         StartHostShutdown, StopTask
<1>3. LeaseKeepsGeneration'
  BY DEF BeginStop, Claims, Counted, Dismiss, Exit, HandleForceShutdown,
         LeaseKeepsGeneration, SingleProcess, StartHostShutdown, StopTask
<1>4. SingleProcess'
  BY DEF BeginStop, CompletionsOwned, Dismiss, Exit, Fresh,
         HandleForceShutdown, SingleProcess, StartHostShutdown, StartKinds,
         StopTask, Task
<1>5. CompletionsOwned'
  <2>1. CASE Exit("ok", calls)
    BY <2>1, NoneAwaited DEF Exit, NoCompletion
  <2>2. CASE mode \in {"Running"} \cup Standby /\ BeginStop("HostShutdown", tasks)
    BY <2>2, CompletionsLeft, StopAwaited DEF BeginStop
  <2>3. CASE UNCHANGED mgrVars /\ tasks' = tasks \cup {Task("DrainExpired", gen, drainEpoch')}
    <3>1. NoCompletion({Task("DrainExpired", gen, drainEpoch')})
      BY SMTT(30), TaskFields DEF NoCompletion, StartKinds
    <3>2. NoCompletion({}) /\ tasks' = (tasks \ {}) \cup {Task("DrainExpired", gen, drainEpoch')}
      BY <2>3 DEF NoCompletion
    <3> QED
      BY <2>3, <3>1, <3>2, StillAwaited
  <2>4. CASE UNCHANGED <<mgrVars, tasks>>
    BY <2>4 DEF CompletionsOwned
  <2> QED
    BY <2>1, <2>2, <2>3, <2>4 DEF HandleForceShutdown, StartHostShutdown
<1>6. WaitersOwned'
  BY DEF BeginStop, Dismiss, Exit, HandleForceShutdown, StartHostShutdown,
         StopTask, WaitersOwned
<1>7. Counted'
  BY DEF BeginStop, Claims, Counted, Dismiss, Exit, Fresh,
         HandleForceShutdown, StartHostShutdown, StopTask
<1> QED
  BY <1>1, <1>2, <1>3, <1>4, <1>5, <1>6, <1>7

-----------------------------------------------------------------------------
(* The theorems.                                                            *)

\* A manager that was just spawned satisfies the invariant.
LEMMA InvInit == Init => IInv
<1> SUFFICES ASSUME Init PROVE IInv
  OBVIOUS
<1>1. TypeOK
  BY TypeInit
<1>2. Fresh /\ Counted /\ LeaseKeepsGeneration
  BY SMTT(30) DEF Init, Fresh, Counted, LeaseKeepsGeneration, Standby
<1>3. SingleProcess /\ CompletionsOwned /\ WaitersOwned
  BY DEF Init, SingleProcess, CompletionsOwned, WaitersOwned, Waiters, Standby
<1> QED
  BY <1>1, <1>2, <1>3 DEF IInv

\* Every step of the callers, the engine and the manager keeps the invariant.
LEMMA InvStep == IInv /\ [Next]_vars => IInv'
<1> SUFFICES ASSUME IInv, [Next]_vars PROVE IInv'
  OBVIOUS
<1>1. CASE CallerNext
  BY <1>1, AcquireKeeps, AbandonKeeps, DropLeaseKeeps, CallShutdownKeeps,
     DropOwnerKeeps DEF CallerNext
<1>2. CASE EngineNext
  BY <1>2, CrashKeeps, StartReadyKeeps, StartFailsKeeps DEF EngineNext
<1>3. CASE ManagerNext
  BY <1>3, HandleAcquireKeeps, HandleReleaseKeeps, StartFinishedKeeps,
     HotIdleExpiredKeeps, IdleExpiredKeeps, DrainExpiredKeeps,
     GenerationTerminalKeeps, QuiesceFinishedKeeps, ResumeFinishedKeeps,
     StopFinishedKeeps, HandleShutdownKeeps, HandleForceShutdownKeeps
  DEF ManagerNext
<1>4. CASE UNCHANGED vars
  <2> USE <1>4 DEF vars, mgrVars, clientVars, hostVars, startVars, procVars
  <2>1. TypeOK'
    BY DEF IInv, TypeOK
  <2>2. Fresh' /\ LeaseKeepsGeneration'
    BY DEF IInv, Fresh, LeaseKeepsGeneration, ShuttingDown
  <2>3. Counted'
    <3>1. Claims(gen)' = Claims(gen)
      BY DEF Claims
    <3> QED
      BY <3>1 DEF IInv, Counted
  <2>4. SingleProcess' /\ CompletionsOwned'
    BY DEF IInv, SingleProcess, CompletionsOwned
  <2>5. WaitersOwned'
    <3>1. Waiters' = Waiters
      BY DEF Waiters
    <3> QED
      BY <3>1 DEF IInv, WaitersOwned, ShuttingDown
  <2> QED
    BY <2>1, <2>2, <2>3, <2>4, <2>5 DEF IInv
<1> QED
  BY <1>1, <1>2, <1>3, <1>4 DEF Next

\* The inductive invariant holds of every behaviour.
THEOREM Invariant == Spec => []IInv
<1> QED
  BY InvInit, InvStep, PTL DEF Spec

\* The lease counter is exact, for any number of callers: see LeaseAccounting.
THEOREM LeasesCounted == Spec => []LeaseAccounting
<1>1. IInv => LeaseAccounting
  BY DEF IInv, Counted, LeaseAccounting, Standby
<1> QED
  BY <1>1, Invariant, PTL

\* A lease is taken away only by a crash or a host shutdown: see
\* LeaseKeepsGeneration.
THEOREM LeasesRespected == Spec => []LeaseKeepsGeneration
<1>1. IInv => LeaseKeepsGeneration
  BY DEF IInv
<1> QED
  BY <1>1, Invariant, PTL

\* There is never more than one Java process, and none without a generation:
\* see SingleProcess.
THEOREM OneProcess == Spec => []SingleProcess
<1>1. IInv => SingleProcess
  BY DEF IInv
<1> QED
  BY <1>1, Invariant, PTL

\* The manager waits for exactly the start or stop it spawned: see
\* CompletionsOwned.
THEOREM CompletionsMatch == Spec => []CompletionsOwned
<1>1. IInv => CompletionsOwned
  BY DEF IInv
<1> QED
  BY <1>1, Invariant, PTL

\* No reply is forgotten in a state that answers none: see WaitersOwned.
THEOREM WaitersKept == Spec => []WaitersOwned
<1>1. IInv => WaitersOwned
  BY DEF IInv
<1> QED
  BY <1>1, Invariant, PTL

\* A step of the manager that hands out no lease to c.
NoNewLease(c) == pc'[c] = "leased" => pc[c] = "leased"

\* After the host started to shut down no caller gets a lease, queued or not:
\* Acquire is refused, and the waiters were dismissed (see NoLeaseAfterShutdown).
THEOREM ShutdownIssuesNoLease == Spec => NoLeaseAfterShutdown
<1> DEFINE Step == ShuttingDown => \A c \in Clients : NoNewLease(c)
<1>1. IInv /\ [Next]_vars => [Step]_vars
  <2> SUFFICES ASSUME IInv, Next, ShuttingDown, NEW c \in Clients PROVE NoNewLease(c)
    BY DEF vars
  <2> USE DEF NoNewLease, IInv, TypeOK, mgrVars, clientVars, hostVars, startVars,
              procVars, Waiters
  <2>1. ASSUME NEW S, Dismiss(S) PROVE NoNewLease(c)
    BY <2>1 DEF Dismiss
  <2>2. ASSUME NEW rest, Serve(Waiters, rest) PROVE NoNewLease(c)
    BY <2>2 DEF Serve, IssueLeases, WaitersOwned
  <2>3. ASSUME NEW answer, NEW callsNow, Exit(answer, callsNow) PROVE NoNewLease(c)
    BY <2>3 DEF Exit
  <2>4. CASE CallerNext \/ EngineNext
    BY <2>4 DEF CallerNext, Acquire, Abandon, DropLease, CallShutdown, DropOwner,
       EngineNext, Crash, StartReady, StartFails
  <2>5. ASSUME NEW d \in Clients, HandleAcquire(d) \/ HandleRelease(d) PROVE NoNewLease(c)
    BY <2>1, <2>5 DEF HandleAcquire, RejectsAcquire, HandleRelease
  <2>6. ASSUME NEW m \in tasks, StartFinished(m) PROVE NoNewLease(c)
    BY <2>1, <2>2, <2>3, <2>6 DEF StartFinished
  <2>7. ASSUME NEW m \in tasks,
               \/ HotIdleExpired(m) \/ IdleExpired(m)
               \/ DrainExpired(m) \/ GenerationTerminal(m)
        PROVE  NoNewLease(c)
    BY <2>7 DEF HotIdleExpired, IdleExpired, DrainExpired, GenerationTerminal, Ignore
  <2>8. ASSUME NEW m \in tasks, NEW res \in Results,
               QuiesceFinished(m, res) \/ ResumeFinished(m, res) \/ StopFinished(m, res)
        PROVE  NoNewLease(c)
    BY <2>1, <2>2, <2>3, <2>8
    DEF QuiesceFinished, ResumeFinished, StopFinished, Ignore, LifecycleFailed
  <2>9. ASSUME NEW s \in ShutdownCalls, HandleShutdown(s) PROVE NoNewLease(c)
    BY <2>1, <2>3, <2>9 DEF HandleShutdown, StartHostShutdown
  <2>10. CASE HandleForceShutdown
    BY <2>1, <2>3, <2>10 DEF HandleForceShutdown, StartHostShutdown
  <2> QED
    BY <2>4, <2>5, <2>6, <2>7, <2>8, <2>9, <2>10 DEF Next, ManagerNext
<1>2. Spec => [][Step]_vars
  BY <1>1, Invariant, PTL DEF Spec
<1> QED
  BY <1>2, PTL DEF NoLeaseAfterShutdown, NoNewLease

\* A shutdown call is answered only once the manager is gone and no Java
\* process is left: see ShutdownMeansReaped.
THEOREM ShutdownReaps == Spec => []ShutdownMeansReaped
<1> DEFINE Answered == \A s \in ShutdownCalls : calls[s] \in Answers => mode = "Closed"
<1>1. Init => Answered
  BY DEF Init, Answers
<1>2. IInv /\ Answered /\ [Next]_vars => Answered'
  <2> SUFFICES ASSUME IInv, Answered, [Next]_vars PROVE Answered'
    OBVIOUS
  <2> USE DEF IInv, TypeOK, mgrVars, clientVars, hostVars, startVars, procVars, Standby
  <2>1. ASSUME NEW answer, NEW callsNow, Exit(answer, callsNow) PROVE Answered'
    BY <2>1 DEF Exit
  <2>2. CASE calls' = calls /\ (mode = "Closed" => mode' = "Closed")
    BY <2>2
  <2>3. CASE CallerNext \/ EngineNext
    BY <2>3 DEF CallerNext, Acquire, Abandon, DropLease, CallShutdown, DropOwner,
       EngineNext, Crash, StartReady, StartFails, Answers
  <2>4. ASSUME NEW d \in Clients, HandleAcquire(d) \/ HandleRelease(d) PROVE Answered'
    BY <2>2, <2>4 DEF HandleAcquire, HandleRelease, ReleaseCounts
  <2>5. ASSUME NEW m \in tasks, StartFinished(m) PROVE Answered'
    BY <2>1, <2>2, <2>5 DEF StartFinished
  <2>6. ASSUME NEW m \in tasks,
               \/ HotIdleExpired(m) \/ IdleExpired(m)
               \/ DrainExpired(m) \/ GenerationTerminal(m)
        PROVE  Answered'
    BY <2>2, <2>6 DEF HotIdleExpired, IdleExpired, DrainExpired, DrainIsDue,
       GenerationTerminal, Ignore
  <2>7. ASSUME NEW m \in tasks, NEW res \in Results,
               QuiesceFinished(m, res) \/ ResumeFinished(m, res) \/ StopFinished(m, res)
        PROVE  Answered'
    BY <2>1, <2>2, <2>7 DEF QuiesceFinished, ResumeFinished, StopFinished, Ignore
  <2>8. ASSUME NEW s \in ShutdownCalls, HandleShutdown(s) PROVE Answered'
    <3>1. CASE Exit("ok", [calls EXCEPT ![s] = "pending"])
      BY <2>1, <3>1
    <3>2. CASE /\ calls' = [calls EXCEPT ![s] = "pending"]
               /\ mode = "Closed" => mode' = "Closed"
      BY <3>2 DEF Answers
    <3> QED
      BY <2>8, <3>1, <3>2 DEF HandleShutdown, StartHostShutdown
  <2>9. CASE HandleForceShutdown
    BY <2>1, <2>2, <2>9 DEF HandleForceShutdown, StartHostShutdown
  <2>10. CASE UNCHANGED vars
    BY <2>2, <2>10 DEF vars
  <2> QED
    BY <2>3, <2>4, <2>5, <2>6, <2>7, <2>8, <2>9, <2>10 DEF Next, ManagerNext
<1>3. IInv /\ Answered => ShutdownMeansReaped
  BY DEF IInv, SingleProcess, ShutdownMeansReaped, Standby
<1> QED
  BY <1>1, <1>2, <1>3, Invariant, PTL DEF Spec

-----------------------------------------------------------------------------
(* The timers of an idle period.                                            *)

TimerKinds == {"IdleExpired", "HotIdleExpired"}
Timers == {m \in tasks : m.kind \in TimerKinds}
InUse == {"Running"} \cup Standby

\* ArmedTimersAreIdle, with what it needs to survive a restart and a resume: a
\* generation that starts has no timer yet, and one resumes for a waiter only.
TimersKept ==
  /\ \A m \in Timers : m.gen <= gen /\ (mode = "Starting" => m.gen # gen)
  /\ ArmedTimersAreIdle
  /\ mode = "Resuming" => Waiters # {}

\* What ArmedTimersAreIdle says of one timer.
LEMMA ArmedTimer ==
  ArmedTimersAreIdle <=>
    \A m \in Timers :
      m.gen = gen /\ mode \in InUse
        => /\ m.epoch <= idleEpoch
           /\ m.epoch = idleEpoch => leases = 0 /\ Waiters = {}
BY DEF ArmedTimersAreIdle, Timers, TimerKinds, InUse

\* The same, of the next state.
LEMMA ArmedTimerNext ==
  ArmedTimersAreIdle' <=>
    \A m \in Timers' :
      m.gen = gen' /\ mode' \in InUse
        => /\ m.epoch <= idleEpoch'
           /\ m.epoch = idleEpoch' => leases' = 0 /\ Waiters' = {}
BY DEF ArmedTimersAreIdle, Timers, TimerKinds, InUse

\* A timer carries a generation and an epoch.
LEMMA TimerFields ==
  ASSUME TypeOK, NEW m \in Timers
  PROVE  m.gen \in Nat /\ m.epoch \in Nat
BY DEF TypeOK, Timers, TimerKinds, Tasks

\* Tasks of another kind start no timer.
LEMMA NoTimerAdded ==
  ASSUME \A m \in tasks' : m \in tasks \/ m.kind \notin TimerKinds
  PROVE  Timers' \subseteq Timers
BY DEF Timers

\* fail_waiters takes the callers it answers off the list of waiters.
LEMMA DismissWaiters ==
  ASSUME TypeOK, NEW S, Dismiss(S)
  PROVE  Waiters' = Waiters \ S
BY DEF Waiters, Dismiss, TypeOK

\* So does issue_lease.
LEMMA IssueWaiters ==
  ASSUME TypeOK, NEW S, IssueLeases(S)
  PROVE  Waiters' = Waiters \ S
BY DEF Waiters, IssueLeases, TypeOK

\* A generation that leaves service takes its idle period with it.
LEMMA TimersOver ==
  ASSUME TimersKept, gen' = gen, Timers' \subseteq Timers, mode' \notin InUse,
         mode' = "Starting" => mode = "Starting"
  PROVE  TimersKept'
<1>1. ArmedTimersAreIdle'
  BY ArmedTimerNext
<1>2. mode' # "Resuming"
  BY DEF InUse, Standby
<1> QED
  BY <1>1, <1>2 DEF TimersKept

\* The timers of earlier generations are stale for a new one.
LEMMA TimersOutdated ==
  ASSUME TypeOK, TimersKept, gen' \in Nat, gen < gen', Timers' \subseteq Timers,
         mode' = "Starting"
  PROVE  TimersKept'
<1>1. ArmedTimersAreIdle'
  BY ArmedTimerNext DEF InUse, Standby
<1>2. \A m \in Timers' : m.gen <= gen' /\ m.gen # gen'
  BY TimerFields DEF TimersKept, TypeOK
<1> QED
  BY <1>1, <1>2 DEF TimersKept

\* A generation that just started has no idle period before its first timers.
LEMMA TimersFirst ==
  ASSUME TimersKept, mode = "Starting", gen' = gen, Timers' \subseteq Timers,
         mode' = "Running"
  PROVE  TimersKept'
<1>1. ArmedTimersAreIdle'
  BY ArmedTimerNext DEF TimersKept
<1> QED
  BY <1>1 DEF TimersKept

\* An idle period goes on, or its epoch is advanced and its timers are stale.
LEMMA TimersLeft ==
  ASSUME TypeOK, TimersKept, mode \in InUse, mode' \in InUse, gen' = gen,
         Timers' \subseteq Timers, idleEpoch' \in Nat,
         \/ idleEpoch < idleEpoch'
         \/ /\ idleEpoch' = idleEpoch
            /\ leases = 0 /\ Waiters = {} => leases' = 0 /\ Waiters' = {},
         mode' = "Resuming" => Waiters' # {}
  PROVE  TimersKept'
<1>1. \A m \in Timers : m.gen = gen => m.epoch <= idleEpoch
  BY ArmedTimer DEF TimersKept
<1>2. \A m \in Timers : m.gen = gen /\ m.epoch = idleEpoch => leases = 0 /\ Waiters = {}
  BY ArmedTimer DEF TimersKept
<1>3. CASE idleEpoch < idleEpoch'
  <2>1. \A m \in Timers : m.gen = gen => m.epoch < idleEpoch'
    BY <1>1, <1>3, TimerFields DEF TypeOK
  <2>2. \A m \in Timers : m.gen = gen => m.epoch <= idleEpoch' /\ m.epoch # idleEpoch'
    BY <2>1, TimerFields
  <2> QED
    BY <2>2, ArmedTimerNext DEF TimersKept, InUse, Standby
<1>4. CASE /\ idleEpoch' = idleEpoch
           /\ leases = 0 /\ Waiters = {} => leases' = 0 /\ Waiters' = {}
  BY <1>1, <1>2, <1>4, ArmedTimerNext DEF TimersKept, InUse, Standby
<1> QED
  BY <1>3, <1>4

\* schedule_idle_cycle: the timers of a new epoch, while nobody needs the
\* generation.
LEMMA TimersArmed ==
  ASSUME TypeOK, TimersKept, mode \in InUse \cup {"Starting"}, mode' = "Running",
         gen' = gen, NEW rest, \A m \in rest : m \in tasks \/ m.kind \notin TimerKinds,
         idleEpoch' \in Nat, idleEpoch < idleEpoch',
         tasks' = rest \cup IdleCycle(idleEpoch'),
         leases' = 0, Waiters' = {}
  PROVE  TimersKept'
<1>1. \A m \in IdleCycle(idleEpoch') : m.gen = gen /\ m.epoch = idleEpoch'
  BY DEF IdleCycle, Task
<1>2. \A m \in Timers' : m \in Timers \/ m \in IdleCycle(idleEpoch')
  BY DEF Timers
<1>3. \A m \in Timers : m.gen = gen => m.epoch <= idleEpoch'
  <2>1. CASE mode = "Starting"
    BY <2>1 DEF TimersKept
  <2>2. CASE mode \in InUse
    BY <2>2, ArmedTimer, TimerFields DEF TimersKept, TypeOK
  <2> QED
    BY <2>1, <2>2
<1>4. \A m \in Timers' : m.gen <= gen /\ (m.gen = gen => m.epoch <= idleEpoch')
  BY <1>1, <1>2, <1>3 DEF TimersKept, TypeOK
<1>5. ArmedTimersAreIdle'
  BY <1>4, ArmedTimerNext
<1> QED
  BY <1>4, <1>5 DEF TimersKept

\* A task that is taken and needs no answer leaves the idle period alone.
LEMMA IgnoreTimers ==
  ASSUME IInv, TimersKept, NEW m, Ignore(m)
  PROVE  TimersKept'
<1> USE DEF Ignore, mgrVars, clientVars
<1>1. Timers' \subseteq Timers /\ Waiters' = Waiters
  BY DEF Timers, Waiters
<1>2. CASE mode \in InUse
  BY <1>1, <1>2, TimersLeft DEF TimersKept, IInv, TypeOK
<1>3. CASE mode \notin InUse
  BY <1>1, <1>3, TimersOver
<1> QED
  BY <1>2, <1>3

\* A stop ends the idle period.
LEMMA StopTimers ==
  ASSUME TimersKept, NEW why, NEW rest, rest \subseteq tasks, BeginStop(why, rest)
  PROVE  TimersKept'
<1>1. Timers' \subseteq Timers
  BY TaskFields DEF BeginStop, Timers, TimerKinds
<1> QED
  BY <1>1, TimersOver DEF BeginStop, InUse, Standby

\* The exit of the manager drops all timers.
LEMMA ExitTimers ==
  ASSUME TimersKept, NEW answer, NEW callsNow, Exit(answer, callsNow)
  PROVE  TimersKept'
<1>1. Timers' \subseteq Timers
  BY DEF Exit, Timers
<1> QED
  BY <1>1, TimersOver DEF Exit, InUse, Standby

\* A new attempt has a number above those of all timers.
LEMMA SpawnTimers ==
  ASSUME IInv, TimersKept, NEW rest, rest \subseteq tasks, NEW processes,
         SpawnStart(rest, processes)
  PROVE  TimersKept'
<1>1. Timers' \subseteq Timers
  BY TaskFields DEF SpawnStart, Timers, TimerKinds
<1>2. gen' \in Nat /\ gen < gen'
  BY DEF SpawnStart, IInv, TypeOK, Fresh
<1> QED
  BY <1>1, <1>2, TimersOutdated DEF SpawnStart, IInv

\* A failed quiesce or resume stops the generation.
LEMMA LifecycleFailedTimers ==
  ASSUME TimersKept, NEW open, NEW rest, rest \subseteq tasks,
         LifecycleFailed(open, rest)
  PROVE  TimersKept'
BY StopTimers DEF LifecycleFailed

\* The answer to all waiters of a start or a resume: leases with an epoch of
\* their own, or the timers of a new one.
LEMMA ServeTimers ==
  ASSUME IInv, TimersKept, mode \in {"Starting", "Resuming"}, gen' = gen,
         NEW rest, \A m \in rest : m \in tasks \/ m.kind \notin TimerKinds,
         Serve(Waiters, rest)
  PROVE  TimersKept'
<1>1. TypeOK /\ leases = 0
  BY DEF IInv, Counted
<1>2. Cardinality(Waiters \ closed) \in Nat
  BY CallersFinite DEF Waiters
<1>3. Waiters' = {}
  BY <1>1, IssueWaiters DEF Serve
<1>4. leases' = Cardinality(Waiters \ closed)
  BY <1>1, <1>2 DEF Serve, IssueLeases
<1>5. CASE leases' = 0
  <2>1. idleEpoch' \in Nat /\ idleEpoch < idleEpoch'
    BY <1>1, <1>2, <1>5 DEF Serve, EpochAfterIssue, TypeOK
  <2>2. tasks' = rest \cup IdleCycle(idleEpoch')
    BY <1>5 DEF Serve
  <2> QED
    BY <1>1, <1>3, <1>5, <2>1, <2>2, TimersArmed DEF Serve, InUse, Standby
<1>6. CASE leases' # 0
  <2>1. idleEpoch' \in Nat /\ idleEpoch < idleEpoch'
    BY <1>1, <1>2, <1>4, <1>6 DEF Serve, EpochAfterIssue, TypeOK
  <2>2. Timers' \subseteq Timers
    BY <1>6, NoTimerAdded DEF Serve
  <2>3. CASE mode = "Starting"
    BY <2>2, <2>3, TimersFirst DEF Serve
  <2>4. CASE mode = "Resuming"
    BY <1>1, <2>1, <2>2, <2>4, TimersLeft DEF Serve, InUse, Standby
  <2> QED
    BY <2>3, <2>4
<1> QED
  BY <1>5, <1>6

\* What callers and the engine do leaves idle periods alone: a caller that asks
\* is no waiter before the manager receives its command.
LEMMA OutsideTimers ==
  ASSUME IInv, TimersKept, CallerNext \/ EngineNext
  PROVE  TimersKept'
<1>1. UNCHANGED mgrVars
  BY DEF CallerNext, EngineNext, Acquire, Abandon, DropLease, CallShutdown,
         DropOwner, Crash, StartReady, StartFails
<1>2. Waiters' = Waiters
  BY DEF CallerNext, EngineNext, Acquire, Abandon, DropLease, CallShutdown,
         DropOwner, Crash, StartReady, StartFails, Waiters, IInv, TypeOK,
         clientVars
<1>3. Timers' \subseteq Timers
  <2>1. CASE tasks' = tasks
    BY <2>1 DEF Timers
  <2>2. ASSUME NEW m \in tasks, StartReady(m) \/ StartFails(m)
        PROVE  Timers' \subseteq Timers
    BY <2>2, TaskFields DEF StartReady, StartFails, Timers, TimerKinds
  <2> QED
    BY <2>1, <2>2
    DEF CallerNext, EngineNext, Acquire, Abandon, DropLease, CallShutdown,
        DropOwner, Crash
<1>4. CASE mode \in InUse
  BY <1>1, <1>2, <1>3, <1>4, TimersLeft DEF TimersKept, IInv, TypeOK, mgrVars
<1>5. CASE mode \notin InUse
  BY <1>1, <1>3, <1>5, TimersOver DEF mgrVars
<1> QED
  BY <1>4, <1>5

\* An acquire: a lease and a waiter that still listens advance the epoch, and a
\* resuming generation has a waiter already.
LEMMA AcquireTimers ==
  ASSUME IInv, TimersKept, NEW c \in Clients, HandleAcquire(c)
  PROVE  TimersKept'
<1> USE DEF mgrVars, clientVars
<1>1. TypeOK /\ pc[c] = "acquiring"
  BY DEF IInv, HandleAcquire
<1>2. c \notin Waiters
  BY <1>1 DEF Waiters
<1>3. tasks' = tasks => Timers' \subseteq Timers
  BY DEF Timers
<1>4. ASSUME Dismiss({c}), UNCHANGED <<mgrVars, tasks>> PROVE TimersKept'
  <2>1. Waiters' = Waiters
    BY <1>1, <1>2, <1>4, DismissWaiters
  <2>2. CASE mode \in InUse
    BY <1>1, <1>3, <1>4, <2>1, <2>2, TimersLeft DEF TimersKept, TypeOK
  <2>3. CASE mode \notin InUse
    BY <1>3, <1>4, <2>3, TimersOver
  <2> QED
    BY <2>2, <2>3
<1>5. CASE mode = "Cold" /\ SpawnStart(tasks, live)
  BY <1>5, SpawnTimers
<1>6. CASE mode \in {"Starting", "Stopping"} /\ UNCHANGED <<mgrVars, tasks>>
  BY <1>3, <1>6, TimersOver DEF InUse, Standby
<1>7. CASE /\ mode = "Running" /\ IssueLeases({c})
           /\ idleEpoch' = EpochAfterIssue({c}) /\ UNCHANGED <<mode, gen, tasks>>
  <2>1. CASE c \in closed
    <3>1. {c} \ closed = {}
      BY <2>1
    <3>2. Cardinality({c} \ closed) = 0
      BY <3>1, FS_EmptySet
    <3>3. leases' = leases /\ idleEpoch' = idleEpoch
      BY <1>1, <1>7, <3>2 DEF IssueLeases, EpochAfterIssue, TypeOK
    <3>4. Waiters' = Waiters
      BY <1>1, <1>2, <1>7, IssueWaiters
    <3> QED
      BY <1>1, <1>3, <1>7, <3>3, <3>4, TimersLeft DEF InUse, TypeOK
  <2>2. CASE c \notin closed
    <3>1. {c} \ closed = {c}
      BY <2>2
    <3>2. Cardinality({c} \ closed) = 1
      BY <3>1, FS_Singleton
    <3>3. idleEpoch' \in Nat /\ idleEpoch < idleEpoch'
      BY <1>1, <1>7, <3>2 DEF EpochAfterIssue, TypeOK
    <3> QED
      BY <1>1, <1>3, <1>7, <3>3, TimersLeft DEF InUse
  <2> QED
    BY <2>1, <2>2
<1>8. CASE mode = "Quiescing" /\ idleEpoch' = idleEpoch + 1 /\ UNCHANGED <<mode, gen, tasks>>
  <2>1. idleEpoch' \in Nat /\ idleEpoch < idleEpoch'
    BY <1>1, <1>8 DEF TypeOK
  <2> QED
    BY <1>1, <1>3, <1>8, <2>1, TimersLeft DEF InUse, Standby
<1>9. CASE /\ mode = "Parked" /\ idleEpoch' = idleEpoch + 1 /\ BeginResume(tasks)
           /\ pc' = [pc EXCEPT ![c] = "waiting"]
  <2>1. idleEpoch' \in Nat /\ idleEpoch < idleEpoch'
    BY <1>1, <1>9 DEF TypeOK
  <2>2. Timers' \subseteq Timers
    BY <1>9, TaskFields DEF BeginResume, Timers, TimerKinds
  <2>3. Waiters' # {}
    BY <1>1, <1>9 DEF Waiters, TypeOK
  <2> QED
    BY <1>1, <1>9, <2>1, <2>2, <2>3, TimersLeft DEF BeginResume, InUse, Standby
<1>10. CASE /\ mode = "Resuming" /\ pc' = [pc EXCEPT ![c] = "waiting"]
            /\ UNCHANGED <<mgrVars, tasks>>
  <2>1. Waiters # {}
    BY <1>10 DEF TimersKept
  <2>2. Waiters' # {}
    BY <1>1, <1>10 DEF Waiters, TypeOK
  <2> QED
    BY <1>1, <1>3, <1>10, <2>1, <2>2, TimersLeft DEF InUse, Standby, TypeOK
<1> QED
  BY <1>4, <1>5, <1>6, <1>7, <1>8, <1>9, <1>10 DEF HandleAcquire

\* A release: the last one starts the timers of a new period.
LEMMA ReleaseTimers ==
  ASSUME IInv, TimersKept, NEW c \in Clients, HandleRelease(c)
  PROVE  TimersKept'
<1> USE DEF mgrVars, clientVars
<1>1. TypeOK /\ pc[c] = "releasing" /\ Dismiss({c})
  BY DEF IInv, HandleRelease
<1>2. Waiters' = Waiters
  <2>1. c \notin Waiters
    BY <1>1 DEF Waiters
  <2> QED
    BY <1>1, <2>1, DismissWaiters
<1>3. tasks' = tasks => Timers' \subseteq Timers
  BY DEF Timers
<1>4. CASE /\ ReleaseCounts(c) /\ leases > 1 /\ leases' = leases - 1
           /\ UNCHANGED <<mode, gen, idleEpoch, tasks>>
  BY <1>1, <1>3, <1>4, TimersLeft DEF ReleaseCounts, InUse, TypeOK
<1>5. CASE BeginStop("HostShutdown", tasks)
  BY <1>5, StopTimers
<1>6. CASE /\ ReleaseCounts(c) /\ leases' = 0 /\ idleEpoch' = idleEpoch + 1
           /\ tasks' = tasks \cup IdleCycle(idleEpoch') /\ UNCHANGED <<mode, gen>>
  <2>1. Waiters' = {}
    BY <1>2, <1>6 DEF IInv, WaitersOwned, ReleaseCounts
  <2>2. idleEpoch' \in Nat /\ idleEpoch < idleEpoch'
    BY <1>1, <1>6 DEF TypeOK
  <2>3. mode \in InUse \cup {"Starting"} /\ mode' = "Running" /\ gen' = gen
    BY <1>6 DEF ReleaseCounts, InUse
  <2> QED
    BY <1>1, <1>6, <2>1, <2>2, <2>3, TimersArmed, Zenon
<1>7. CASE UNCHANGED <<mgrVars, tasks>>
  <2>1. CASE mode \in InUse
    BY <1>1, <1>2, <1>3, <1>7, <2>1, TimersLeft DEF TimersKept, TypeOK
  <2>2. CASE mode \notin InUse
    BY <1>3, <1>7, <2>2, TimersOver
  <2> QED
    BY <2>1, <2>2
<1> QED
  BY <1>4, <1>5, <1>6, <1>7 DEF HandleRelease

\* The end of a start.
LEMMA StartFinishedTimers ==
  ASSUME IInv, TimersKept, NEW m \in tasks, StartFinished(m)
  PROVE  TimersKept'
<1>1. mode = "Starting"
  BY DEF StartFinished
<1>2. CASE /\ mode' \in {"Stopping", "Cold"} /\ gen' = gen
           /\ \/ tasks' = (tasks \ {m}) \cup {StopTask(gen, "HostShutdown", Results)}
              \/ tasks' = tasks \ {m}
  <2>1. Timers' \subseteq Timers
    BY <1>2, TaskFields DEF Timers, TimerKinds
  <2> QED
    BY <1>2, <2>1, TimersOver DEF InUse, Standby
<1>3. CASE Serve(Waiters, (tasks \ {m}) \cup {Task("Watch", gen, 0)}) /\ gen' = gen
  <2>1. \A n \in (tasks \ {m}) \cup {Task("Watch", gen, 0)} :
          n \in tasks \/ n.kind \notin TimerKinds
    BY TaskFields DEF TimerKinds
  <2>2. mode \in {"Starting", "Resuming"}
    BY <1>1
  <2> QED
    BY <1>3, <2>1, <2>2, ServeTimers, Zenon
<1>4. CASE Exit("ok", calls)
  BY <1>4, ExitTimers
<1> QED
  BY <1>2, <1>3, <1>4 DEF StartFinished

\* A deadline or the death of the engine: the generation parks within its idle
\* period, or is stopped.
LEMMA ExpiryTimers ==
  ASSUME IInv, TimersKept, NEW m \in tasks,
         \/ HotIdleExpired(m) \/ IdleExpired(m)
         \/ DrainExpired(m) \/ GenerationTerminal(m)
  PROVE  TimersKept'
<1>1. CASE Ignore(m)
  BY <1>1, IgnoreTimers
<1>2. ASSUME NEW why, BeginStop(why, tasks \ {m}) PROVE TimersKept'
  BY <1>2, StopTimers
<1>3. CASE /\ mode = "Running" /\ BeginQuiesce(tasks \ {m}) /\ UNCHANGED clientVars
  <2>1. Waiters' = Waiters
    BY <1>3 DEF Waiters, clientVars
  <2>2. Timers' \subseteq Timers
    BY <1>3, TaskFields DEF BeginQuiesce, Timers, TimerKinds
  <2> QED
    BY <1>3, <2>1, <2>2, TimersLeft DEF BeginQuiesce, InUse, Standby, IInv, TypeOK
<1> QED
  BY <1>1, <1>2, <1>3 DEF HotIdleExpired, IdleExpired, DrainExpired, GenerationTerminal

\* The end of a quiesce: parked without waiters, resuming with one.
LEMMA QuiesceTimers ==
  ASSUME IInv, TimersKept, NEW m \in tasks, NEW res, QuiesceFinished(m, res)
  PROVE  TimersKept'
<1> DEFINE open == Waiters \ closed
<1>1. TypeOK
  BY DEF IInv
<1>2. tasks \ {m} \subseteq tasks
  OBVIOUS
<1>3. CASE Ignore(m)
  BY <1>3, IgnoreTimers
<1>4. CASE /\ mode = "Quiescing" /\ Dismiss(Waiters) /\ mode' = "Parked"
           /\ tasks' = tasks \ {m} /\ UNCHANGED <<gen, leases, idleEpoch>>
  <2>1. Waiters' = {}
    BY <1>1, <1>4, DismissWaiters
  <2>2. Timers' \subseteq Timers
    BY <1>4 DEF Timers
  <2> QED
    BY <1>1, <1>4, <2>1, <2>2, TimersLeft DEF InUse, Standby, TypeOK
<1>5. CASE /\ mode = "Quiescing" /\ open # {} /\ Dismiss(Waiters \ open)
           /\ BeginResume(tasks \ {m}) /\ UNCHANGED idleEpoch
  <2>1. Waiters' # {} /\ Waiters # {}
    BY <1>1, <1>5, DismissWaiters
  <2>2. Timers' \subseteq Timers
    BY <1>5, TaskFields DEF BeginResume, Timers, TimerKinds
  <2> QED
    BY <1>1, <1>5, <2>1, <2>2, TimersLeft DEF BeginResume, InUse, Standby, TypeOK
<1>6. CASE LifecycleFailed(open, tasks \ {m})
  BY <1>2, <1>6, LifecycleFailedTimers
<1> QED
  BY <1>3, <1>4, <1>5, <1>6 DEF QuiesceFinished

\* The end of a resume.
LEMMA ResumeTimers ==
  ASSUME IInv, TimersKept, NEW m \in tasks, NEW res, ResumeFinished(m, res)
  PROVE  TimersKept'
<1>1. tasks \ {m} \subseteq tasks
  OBVIOUS
<1>2. CASE Ignore(m)
  BY <1>2, IgnoreTimers
<1>3. CASE mode = "Resuming" /\ Serve(Waiters, tasks \ {m}) /\ gen' = gen
  BY <1>3, ServeTimers, Zenon
<1>4. CASE LifecycleFailed(Waiters \ closed, tasks \ {m})
  BY <1>1, <1>4, LifecycleFailedTimers
<1> QED
  BY <1>2, <1>3, <1>4 DEF ResumeFinished

\* The end of a stop.
LEMMA StopFinishedTimers ==
  ASSUME IInv, TimersKept, NEW m \in tasks, NEW res, StopFinished(m, res)
  PROVE  TimersKept'
<1>1. tasks \ {m} \subseteq tasks
  OBVIOUS
<1>2. ASSUME NEW answer, Exit(answer, calls) PROVE TimersKept'
  BY <1>2, ExitTimers
<1>3. CASE mode' = "Cold" /\ tasks' = tasks \ {m} /\ gen' = gen
  <2>1. Timers' \subseteq Timers
    BY <1>3 DEF Timers
  <2> QED
    BY <1>3, <2>1, TimersOver DEF InUse, Standby
<1>4. CASE SpawnStart(tasks \ {m}, live \ {gen})
  BY <1>1, <1>4, SpawnTimers
<1> QED
  BY <1>2, <1>3, <1>4 DEF StopFinished

\* The begin of a host shutdown stops the generation or leaves it draining.
LEMMA HostShutdownTimers ==
  ASSUME IInv, TimersKept, NEW force, NEW callsNow, StartHostShutdown(force, callsNow)
  PROVE  TimersKept'
<1> USE DEF mgrVars, clientVars
<1>1. CASE Exit("ok", callsNow)
  BY <1>1, ExitTimers
<1>2. CASE mode \in {"Starting", "Stopping"} /\ UNCHANGED <<mgrVars, tasks>>
  <2>1. Timers' \subseteq Timers
    BY <1>2 DEF Timers
  <2> QED
    BY <1>2, <2>1, TimersOver DEF InUse, Standby
<1>3. CASE /\ mode = "Running" /\ UNCHANGED <<mgrVars, clientVars>>
           /\ tasks' = tasks \cup {Task("DrainExpired", gen, drainEpoch')}
  <2>1. Timers' \subseteq Timers
    BY <1>3, TaskFields DEF Timers, TimerKinds
  <2>2. Waiters' = Waiters
    BY <1>3 DEF Waiters
  <2> QED
    BY <1>3, <2>1, <2>2, TimersLeft DEF InUse, IInv, TypeOK
<1>4. CASE BeginStop("HostShutdown", tasks)
  BY <1>4, StopTimers
<1> QED
  BY <1>1, <1>2, <1>3, <1>4 DEF StartHostShutdown

\* A shutdown call, the first or a later one.
LEMMA ShutdownTimers ==
  ASSUME IInv, TimersKept,
         HandleForceShutdown \/ \E s \in ShutdownCalls : HandleShutdown(s)
  PROVE  TimersKept'
<1> USE DEF mgrVars, clientVars
<1>1. CASE UNCHANGED <<mgrVars, clientVars, tasks>>
  <2>1. Timers' \subseteq Timers /\ Waiters' = Waiters
    BY <1>1 DEF Timers, Waiters
  <2>2. CASE mode \in InUse
    BY <1>1, <2>1, <2>2, TimersLeft DEF TimersKept, IInv, TypeOK
  <2>3. CASE mode \notin InUse
    BY <1>1, <2>1, <2>3, TimersOver
  <2> QED
    BY <2>2, <2>3
<1> QED
  BY <1>1, HostShutdownTimers DEF HandleForceShutdown, HandleShutdown

\* No timer of an earlier idle period can fire in a later one, for any number of
\* callers and any order of acquires, releases, parks and resumes: see
\* ArmedTimersAreIdle.
THEOREM TimersOfIdlePeriods == Spec => []ArmedTimersAreIdle
<1>1. Init => TimersKept
  BY ArmedTimer DEF Init, TimersKept, Timers
<1>2. IInv /\ TimersKept /\ [Next]_vars => TimersKept'
  <2> SUFFICES ASSUME IInv, TimersKept, [Next]_vars PROVE TimersKept'
    OBVIOUS
  <2>1. CASE CallerNext \/ EngineNext
    BY <2>1, OutsideTimers
  <2>2. CASE ManagerNext
    BY <2>2, AcquireTimers, ReleaseTimers, StartFinishedTimers, ExpiryTimers,
       QuiesceTimers, ResumeTimers, StopFinishedTimers, ShutdownTimers
    DEF ManagerNext
  <2>3. CASE UNCHANGED vars
    <3>1. UNCHANGED <<mgrVars, clientVars, tasks>>
      BY <2>3 DEF vars
    <3>2. Timers' = Timers /\ Waiters' = Waiters
      BY <3>1 DEF Timers, Waiters, clientVars
    <3> QED
      BY <3>1, <3>2, ArmedTimer, ArmedTimerNext DEF TimersKept, mgrVars
  <2> QED
    BY <2>1, <2>2, <2>3 DEF Next
<1>3. TimersKept => ArmedTimersAreIdle
  BY DEF TimersKept
<1> QED
  BY <1>1, <1>2, <1>3, Invariant, PTL DEF Spec
=============================================================================
