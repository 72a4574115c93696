---------------------------- MODULE EngineManager ----------------------------
(***************************************************************************)
(* The engine lifecycle actor of crates/chat2db-core/src/engine_manager.rs: *)
(* one task (run_manager) that receives commands from one channel and owns  *)
(* the Java compatibility engine.  It starts the engine for the first       *)
(* caller, shares the start between callers, counts leases, parks an idle   *)
(* generation, reaps it at the idle deadline, restarts after a crash and    *)
(* drains on host shutdown.                                                 *)
(*                                                                          *)
(* Every command is sent by a task of its own (a caller, a timer, a start,  *)
(* stop, quiesce or resume task, a state watcher), so the order in which    *)
(* two pending commands reach the channel is arbitrary: `tasks' is the set  *)
(* of the commands that will be sent, and the manager may receive any of    *)
(* them next.  A caller's own command is pending while its `pc' says so.    *)
(*                                                                          *)
(* The manager numbers start attempts and the supervisor numbers            *)
(* generations; both counters only grow, so one number stands for both.     *)
(*                                                                          *)
(* A definition X_Fault is a faulty variant of the X that follows it, kept  *)
(* to show that the properties notice it; no specification uses it.         *)
(***************************************************************************)
EXTENDS Integers, FiniteSets

CONSTANTS
  Clients,        \* callers of EngineManagerHandle::acquire
  ShutdownCalls,  \* calls of EngineManagerOwner::shutdown
  MaxAcquires,    \* bound: acquire calls in a behaviour
  ParkCapable     \* whether the engine negotiated PARK_CAPABILITY

ASSUME ClientsAssumption == IsFiniteSet(Clients)
ASSUME BoundAssumption == MaxAcquires \in Nat
ASSUME ParkAssumption == ParkCapable \in BOOLEAN

VARIABLES
  mode,           \* the variant of ManagerState
  gen,            \* the latest attempt or generation, 0 before the first
  leases,         \* RunningGeneration.leases
  idleEpoch,      \* RunningGeneration.idle_epoch
  parkEpoch,      \* RunningGeneration.park_epoch
  reason,         \* the reason of ManagerState::Stopping
  nextAttempt, drainEpoch,  \* locals of run_manager
  host,           \* the local shutting_down: serving or stopping
  cancelled,      \* start attempts whose CancellationToken is cancelled
  status,         \* the variant of the published EngineManagerStatus
  tasks,          \* spawned tasks whose command is still to be received
  live,           \* generations whose Java process is not reaped
  crashed,        \* generations that turned terminal by themselves
  pc,             \* per caller: idle, acquiring, waiting, leased, releasing
  closed,         \* callers that dropped the receiver of their reply
  lease,          \* per caller: the generation of its lease
  acquires,       \* number of acquire calls made
  calls,          \* per shutdown call: unused, queued, pending or its answer
  forced          \* ForceShutdown sent by the owner's Drop

mgrVars == <<mode, gen, leases, idleEpoch, parkEpoch, reason>>
clientVars == <<pc, closed, lease>>
hostVars == <<host, drainEpoch, calls, forced>>
startVars == <<nextAttempt, cancelled>>
procVars == <<live, crashed>>
vars == <<mgrVars, clientVars, hostVars, startVars, procVars, status, tasks,
          acquires>>

ShuttingDown == host = "stopping"

\* Variants of ManagerState that hold a RunningGeneration.
Standby == {"Quiescing", "Parked", "Resuming"}
Modes == {"Cold", "Starting", "Running", "Stopping", "Closed"} \cup Standby
Reasons == {"Idle", "Crashed", "LifecycleFailure", "HostShutdown"}
Statuses == {"Idle", "Starting", "Ready", "Quiescing", "Parked", "Resuming",
             "Stopping", "Failed", "ShuttingDown", "Stopped"}
Answers == {"ok", "failed", "unavailable"}
Results == {"ok", "err"}
StartKinds == {"Start", "StartOk", "StartErr"}
TaskKinds == StartKinds \cup {"IdleExpired", "HotIdleExpired", "Quiesce",
                              "Resume", "DrainExpired", "Watch"}

Tasks == [kind : TaskKinds, gen : Nat, epoch : Nat] \cup
         [kind : {"Stop"}, gen : Nat, reason : Reasons,
          results : SUBSET Results]

Task(k, g, e) == [kind |-> k, gen |-> g, epoch |-> e]

\* A stop, with the results it may report: one of an engine that was seen
\* terminal reports success whatever its shutdown returns.
StopTask(g, r, possible) ==
  [kind |-> "Stop", gen |-> g, reason |-> r, results |-> possible]

\* The replies held in the `waiters' of the current variant; their order only
\* decides the order in which they are answered.
Waiters == {c \in Clients : pc[c] = "waiting"}

\* Callers whose lease on generation g the manager has to count.
Claims(g) == {c \in Clients : pc[c] \in {"leased", "releasing"} /\ lease[c] = g}

Init ==
  /\ mode = "Cold" /\ gen = 0 /\ leases = 0 /\ idleEpoch = 0 /\ parkEpoch = 0
  /\ reason = "Idle"
  /\ nextAttempt = 1 /\ drainEpoch = 0 /\ host = "serving"
  /\ cancelled = {}
  /\ status = "Idle"
  /\ tasks = {} /\ live = {} /\ crashed = {}
  /\ pc = [c \in Clients |-> "idle"]
  /\ closed = {}
  /\ lease = [c \in Clients |-> 0]
  /\ acquires = 0
  /\ calls = [s \in ShutdownCalls |-> "unused"]
  /\ forced = "no"

-----------------------------------------------------------------------------
(* What callers and the engine process do.                                  *)

\* acquire(): send the command and wait for the reply.  Once the manager has
\* closed its channel the send fails and the caller gets an error at once.
Acquire(c) ==
  /\ pc[c] = "idle" /\ acquires < MaxAcquires /\ mode # "Closed"
  /\ pc' = [pc EXCEPT ![c] = "acquiring"]
  /\ acquires' = acquires + 1
  /\ UNCHANGED <<mgrVars, closed, lease, hostVars, startVars, procVars, status,
                 tasks>>

\* The caller's future is dropped, which closes its reply channel.
Abandon(c) ==
  /\ pc[c] \in {"acquiring", "waiting"} /\ c \notin closed
  /\ closed' = closed \cup {c}
  /\ UNCHANGED <<mgrVars, pc, lease, hostVars, startVars, procVars, status,
                 tasks, acquires>>

\* The last clone of a lease is dropped: ReleaseOnDrop sends Release, which
\* nobody receives once the manager has closed its channel.
DropLease(c) ==
  /\ pc[c] = "leased"
  /\ pc' = [pc EXCEPT ![c] = IF mode = "Closed" THEN "idle" ELSE "releasing"]
  /\ UNCHANGED <<mgrVars, closed, lease, hostVars, startVars, procVars, status,
                 tasks, acquires>>

\* EngineManagerOwner::shutdown; a call made after the manager closed its
\* channel reads the Stopped status and succeeds.
CallShutdown(s) ==
  /\ calls[s] = "unused" /\ forced = "no"
  /\ calls' = [calls EXCEPT ![s] = IF mode = "Closed" THEN "ok" ELSE "queued"]
  /\ UNCHANGED <<mgrVars, clientVars, host, drainEpoch, forced,
                 startVars, procVars, status, tasks, acquires>>

\* EngineManagerOwner is dropped before its task was joined.
DropOwner ==
  /\ forced = "no" /\ mode # "Closed"
  /\ forced' = "queued"
  /\ UNCHANGED <<mgrVars, clientVars, host, drainEpoch, calls,
                 startVars, procVars, status, tasks, acquires>>

\* A started engine process dies; its supervisor publishes a terminal state.
\* While it starts or stops, its death is part of the outcome of that task.
Crash(g) ==
  /\ g \in live \ crashed /\ mode # "Stopping"
  /\ Task("Start", g, 0) \notin tasks
  /\ crashed' = crashed \cup {g}
  /\ UNCHANGED <<mgrVars, clientVars, hostVars, startVars, live, status, tasks,
                 acquires>>

\* start_generation returns a supervisor: the process is up, the drivers are
\* preloaded and the cancellation token was not seen set.
StartReady(m) ==
  /\ m \in tasks /\ m.kind = "Start" /\ m.gen \notin cancelled
  /\ tasks' = (tasks \ {m}) \cup {Task("StartOk", m.gen, 0)}
  /\ UNCHANGED <<mgrVars, clientVars, hostVars, startVars, procVars, status,
                 acquires>>

StartFails_LeavesProcess(m) ==
  /\ m \in tasks /\ m.kind = "Start"
  /\ tasks' = (tasks \ {m}) \cup {Task("StartErr", m.gen, 0)}
  /\ UNCHANGED <<mgrVars, clientVars, hostVars, startVars, procVars, status,
                 acquires>>

\* start_generation fails: no process, a failed preload, or a cancelled start.
\* Each path shuts the process down before it returns.
StartFails(m) ==
  /\ m \in tasks /\ m.kind = "Start"
  /\ tasks' = (tasks \ {m}) \cup {Task("StartErr", m.gen, 0)}
  /\ live' = live \ {m.gen}
  /\ UNCHANGED <<mgrVars, clientVars, hostVars, startVars, crashed, status,
                 acquires>>

-----------------------------------------------------------------------------
(* Helpers of run_manager.  `rest' is `tasks' without the received command. *)

\* fail_waiters, or a reply that is dropped: the callers of S get an error.
Dismiss(S) ==
  /\ pc' = [c \in Clients |-> IF c \in S THEN "idle" ELSE pc[c]]
  /\ closed' = closed \ S
  /\ lease' = [c \in Clients |-> IF c \in S THEN 0 ELSE lease[c]]

\* issue_lease for every reply of S: a closed reply gets nothing.
IssueLeases(S) ==
  /\ pc' = [c \in Clients |->
              IF c \in S THEN IF c \in closed THEN "idle" ELSE "leased"
                         ELSE pc[c]]
  /\ lease' = [c \in Clients |-> IF c \in S \ closed THEN gen ELSE lease[c]]
  /\ closed' = closed \ S
  /\ leases' = leases + Cardinality(S \ closed)

EpochAfterIssue_Unchanged(S) == idleEpoch

\* issue_lease advances idle_epoch once per lease.
EpochAfterIssue(S) == idleEpoch + Cardinality(S \ closed)

\* The timers schedule_idle_cycle starts: the hard deadline, and the hot one
\* when the engine is ready and can park.
IdleCycle(epoch) ==
  {Task("IdleExpired", gen, epoch)} \cup
  (IF ParkCapable /\ gen \notin crashed
   THEN {Task("HotIdleExpired", gen, epoch)} ELSE {})

\* The callers of S get their lease; a generation nobody claimed in the end
\* starts an idle cycle.
Serve(S, rest) ==
  /\ mode' = "Running" /\ status' = "Ready"
  /\ IssueLeases(S)
  /\ IF leases' = 0
     THEN /\ idleEpoch' = EpochAfterIssue(S) + 1
          /\ tasks' = rest \cup IdleCycle(idleEpoch')
     ELSE /\ idleEpoch' = EpochAfterIssue(S)
          /\ tasks' = rest

BeginQuiesce_OldEpoch(rest) ==
  /\ mode' = "Quiescing" /\ status' = "Quiescing"
  /\ parkEpoch' = parkEpoch + 1
  /\ tasks' = rest \cup {Task("Quiesce", gen, parkEpoch)}
  /\ UNCHANGED <<gen, leases, idleEpoch, reason>>

BeginQuiesce(rest) ==
  /\ mode' = "Quiescing" /\ status' = "Quiescing"
  /\ parkEpoch' = parkEpoch + 1
  /\ tasks' = rest \cup {Task("Quiesce", gen, parkEpoch')}
  /\ UNCHANGED <<gen, leases, idleEpoch, reason>>

BeginResume(rest) ==
  /\ mode' = "Resuming" /\ status' = "Resuming"
  /\ tasks' = rest \cup {Task("Resume", gen, parkEpoch)}
  /\ UNCHANGED <<gen, leases, parkEpoch, reason>>

\* The generation is handed to a stop task; what it was running with is gone.
\* An idle stop of an engine that is already terminal counts as a crash.
BeginStop(why, rest) ==
  LET r == IF gen \in crashed /\ why = "Idle" THEN "Crashed" ELSE why
      possible == IF gen \in crashed THEN {"ok"} ELSE Results
  IN /\ mode' = "Stopping" /\ status' = "Stopping" /\ reason' = r
     /\ tasks' = rest \cup {StopTask(gen, r, possible)}
     /\ leases' = 0 /\ idleEpoch' = 0 /\ parkEpoch' = 0
     /\ UNCHANGED gen

\* A new start attempt beside the processes that are left.
SpawnStart(rest, processes) ==
  /\ mode' = "Starting" /\ status' = "Starting"
  /\ gen' = nextAttempt /\ nextAttempt' = nextAttempt + 1
  /\ live' = processes \cup {nextAttempt}
  /\ tasks' = rest \cup {Task("Start", nextAttempt, 0)}
  /\ UNCHANGED <<leases, idleEpoch, parkEpoch, reason, cancelled>>

\* finish_shutdown and the break out of the loop.  Dropping the receiver drops
\* the queued commands: queued callers and queued shutdown calls get an error,
\* and nothing that is still running can reach the manager.
Exit(answer, callsNow) ==
  /\ mode' = "Closed" /\ status' = "Stopped"
  /\ calls' = [s \in ShutdownCalls |->
                 CASE callsNow[s] = "pending" -> answer
                   [] callsNow[s] = "queued"  -> "unavailable"
                   [] OTHER                   -> callsNow[s]]
  /\ pc' = [c \in Clients |-> IF pc[c] = "leased" THEN "leased" ELSE "idle"]
  /\ lease' = [c \in Clients |-> IF pc[c] = "leased" THEN lease[c] ELSE 0]
  /\ closed' = {}
  /\ tasks' = {}
  /\ UNCHANGED <<gen, leases, idleEpoch, parkEpoch, reason>>

-----------------------------------------------------------------------------
(* The commands of callers.                                                 *)

RejectsAcquire_OnceClosed == mode = "Closed"

RejectsAcquire == ShuttingDown

\* ManagerCommand::Acquire
HandleAcquire(c) ==
  /\ pc[c] = "acquiring"
  /\ \/ /\ RejectsAcquire
        /\ Dismiss({c})
        /\ UNCHANGED <<mgrVars, startVars, procVars, status, tasks>>
     \/ /\ ~RejectsAcquire /\ mode = "Cold"
        /\ SpawnStart(tasks, live)
        /\ pc' = [pc EXCEPT ![c] = "waiting"]
        /\ UNCHANGED <<closed, lease, crashed>>
     \/ /\ ~RejectsAcquire /\ mode \in {"Starting", "Stopping"}
        /\ pc' = [pc EXCEPT ![c] = "waiting"]
        /\ UNCHANGED <<mgrVars, closed, lease, startVars, procVars, status, tasks>>
     \/ /\ ~RejectsAcquire /\ mode = "Running"
        /\ IssueLeases({c})
        /\ idleEpoch' = EpochAfterIssue({c})
        /\ UNCHANGED <<mode, gen, parkEpoch, reason, startVars, procVars,
                       status, tasks>>
     \/ /\ ~RejectsAcquire /\ mode \in Standby /\ c \in closed
        /\ Dismiss({c})
        /\ UNCHANGED <<mgrVars, startVars, procVars, status, tasks>>
     \/ /\ ~RejectsAcquire /\ mode = "Quiescing" /\ c \notin closed
        /\ idleEpoch' = idleEpoch + 1
        /\ pc' = [pc EXCEPT ![c] = "waiting"]
        /\ UNCHANGED <<mode, gen, leases, parkEpoch, reason, closed, lease,
                       startVars, procVars, status, tasks>>
     \/ /\ ~RejectsAcquire /\ mode = "Parked" /\ c \notin closed
        /\ idleEpoch' = idleEpoch + 1
        /\ BeginResume(tasks)
        /\ pc' = [pc EXCEPT ![c] = "waiting"]
        /\ UNCHANGED <<closed, lease, startVars, procVars>>
     \/ /\ ~RejectsAcquire /\ mode = "Resuming" /\ c \notin closed
        /\ pc' = [pc EXCEPT ![c] = "waiting"]
        /\ UNCHANGED <<mgrVars, closed, lease, startVars, procVars, status, tasks>>
  /\ UNCHANGED <<hostVars, acquires>>

ReleaseCounts_AnyGeneration(c) == mode = "Running" /\ leases > 0

ReleaseCounts(c) == mode = "Running" /\ lease[c] = gen /\ leases > 0

\* ManagerCommand::Release; a release of a generation that is no longer
\* running is ignored.
HandleRelease(c) ==
  /\ pc[c] = "releasing"
  /\ Dismiss({c})
  /\ \/ /\ ReleaseCounts(c) /\ leases > 1
        /\ leases' = leases - 1
        /\ UNCHANGED <<mode, gen, idleEpoch, parkEpoch, reason, status, tasks>>
     \/ /\ ReleaseCounts(c) /\ leases = 1 /\ ShuttingDown
        /\ BeginStop("HostShutdown", tasks)
     \/ /\ ReleaseCounts(c) /\ leases = 1 /\ ~ShuttingDown
        /\ leases' = 0
        /\ idleEpoch' = idleEpoch + 1
        /\ tasks' = tasks \cup IdleCycle(idleEpoch')
        /\ UNCHANGED <<mode, gen, parkEpoch, reason, status>>
     \/ /\ ~ReleaseCounts(c)
        /\ UNCHANGED <<mgrVars, status, tasks>>
  /\ UNCHANGED <<hostVars, startVars, procVars, acquires>>

-----------------------------------------------------------------------------
(* The commands of spawned tasks and timers.                                *)

Ignore(m) ==
  /\ tasks' = tasks \ {m}
  /\ UNCHANGED <<mgrVars, clientVars, hostVars, startVars, procVars, status>>

\* ManagerCommand::StartFinished.  Its branches for a manager that is not
\* starting, or is starting another attempt, are never taken: see
\* CompletionsOwned.
StartFinished(m) ==
  /\ m \in tasks /\ m.kind \in {"StartOk", "StartErr"}
  /\ mode = "Starting" /\ m.gen = gen
  /\ \/ /\ m.kind = "StartOk" /\ ShuttingDown
        /\ Dismiss(Waiters)
        /\ mode' = "Stopping" /\ reason' = "HostShutdown"
        /\ status' = "ShuttingDown"
        /\ tasks' = (tasks \ {m}) \cup {StopTask(gen, "HostShutdown", Results)}
        /\ UNCHANGED <<gen, leases, idleEpoch, parkEpoch, hostVars>>
     \/ /\ m.kind = "StartOk" /\ ~ShuttingDown
        /\ Serve(Waiters, (tasks \ {m}) \cup {Task("Watch", gen, 0)})
        /\ UNCHANGED <<gen, parkEpoch, reason, hostVars>>
     \/ /\ m.kind = "StartErr" /\ ShuttingDown
        /\ Exit("ok", calls)
        /\ UNCHANGED <<host, drainEpoch, forced>>
     \/ /\ m.kind = "StartErr" /\ ~ShuttingDown
        /\ Dismiss(Waiters)
        /\ mode' = "Cold" /\ status' = "Failed"
        /\ tasks' = tasks \ {m}
        /\ UNCHANGED <<gen, leases, idleEpoch, parkEpoch, reason, hostVars>>
  /\ UNCHANGED <<startVars, procVars, acquires>>

\* The timer was started in the manager's current idle period.
IsCurrentTimer(m) == m.gen = gen /\ m.epoch = idleEpoch

\* ManagerCommand::HotIdleExpired
HotIdleExpired(m) ==
  /\ m \in tasks /\ m.kind = "HotIdleExpired"
  /\ IF mode = "Running" /\ ~ShuttingDown /\ IsCurrentTimer(m) /\ leases = 0
     THEN /\ BeginQuiesce(tasks \ {m})
          /\ UNCHANGED <<clientVars, hostVars, startVars, procVars>>
     ELSE Ignore(m)
  /\ UNCHANGED acquires

\* ManagerCommand::IdleExpired
IdleExpired(m) ==
  /\ m \in tasks /\ m.kind = "IdleExpired"
  /\ IF /\ ~ShuttingDown /\ IsCurrentTimer(m)
        /\ \/ mode = "Running" /\ leases = 0
           \/ mode = "Quiescing" /\ Waiters = {}
           \/ mode = "Parked"
     THEN /\ BeginStop("Idle", tasks \ {m})
          /\ UNCHANGED <<clientVars, hostVars, startVars, procVars>>
     ELSE Ignore(m)
  /\ UNCHANGED acquires

\* A quiesce or resume failed: reap the generation, for the sake of the
\* waiters if there are any left.
LifecycleFailed(open, rest) ==
  /\ Dismiss(Waiters \ open)
  /\ BeginStop(IF open = {} THEN "Idle" ELSE "LifecycleFailure", rest)

\* ManagerCommand::QuiesceFinished with its result
QuiesceFinished(m, res) ==
  LET open == Waiters \ closed  \* retain_open_waiters
  IN /\ m \in tasks /\ m.kind = "Quiesce"
     /\ \/ /\ ~(mode = "Quiescing" /\ m.gen = gen /\ m.epoch = parkEpoch)
           /\ Ignore(m)
        \/ /\ mode = "Quiescing" /\ m.gen = gen /\ m.epoch = parkEpoch
           /\ \/ /\ res = "ok" /\ open = {}
                 /\ Dismiss(Waiters)
                 /\ mode' = "Parked" /\ status' = "Parked"
                 /\ tasks' = tasks \ {m}
                 /\ UNCHANGED <<gen, leases, idleEpoch, parkEpoch, reason>>
              \/ /\ res = "ok" /\ open # {}
                 /\ Dismiss(Waiters \ open)
                 /\ BeginResume(tasks \ {m})
                 /\ UNCHANGED idleEpoch
              \/ res = "err" /\ LifecycleFailed(open, tasks \ {m})
           /\ UNCHANGED <<hostVars, startVars, procVars>>
     /\ UNCHANGED acquires

\* ManagerCommand::ResumeFinished with its result
ResumeFinished(m, res) ==
  /\ m \in tasks /\ m.kind = "Resume"
  /\ \/ /\ ~(mode = "Resuming" /\ m.gen = gen /\ m.epoch = parkEpoch)
        /\ Ignore(m)
     \/ /\ mode = "Resuming" /\ m.gen = gen /\ m.epoch = parkEpoch
        /\ \/ /\ res = "ok"
              /\ Serve(Waiters, tasks \ {m})
              /\ UNCHANGED <<gen, parkEpoch, reason>>
           \/ res = "err" /\ LifecycleFailed(Waiters \ closed, tasks \ {m})
        /\ UNCHANGED <<hostVars, startVars, procVars>>
  /\ UNCHANGED acquires

DrainIsDue_OffByOne(m) ==
  mode = "Running" /\ ShuttingDown /\ m.gen = gen /\ m.epoch + 1 = drainEpoch

DrainIsDue(m) ==
  mode = "Running" /\ ShuttingDown /\ m.gen = gen /\ m.epoch = drainEpoch

\* ManagerCommand::DrainExpired
DrainExpired(m) ==
  /\ m \in tasks /\ m.kind = "DrainExpired"
  /\ IF DrainIsDue(m)
     THEN /\ BeginStop("HostShutdown", tasks \ {m})
          /\ UNCHANGED <<clientVars, hostVars, startVars, procVars>>
     ELSE Ignore(m)
  /\ UNCHANGED acquires

\* ManagerCommand::GenerationTerminal, sent once the watcher sees the state of
\* a dead or a stopped supervisor.
GenerationTerminal(m) ==
  /\ m \in tasks /\ m.kind = "Watch"
  /\ m.gen \in crashed \/ m.gen \notin live
  /\ IF mode \in {"Running"} \cup Standby /\ m.gen = gen
     THEN /\ BeginStop("Crashed", tasks \ {m})
          /\ UNCHANGED <<clientVars, hostVars, startVars, procVars>>
     ELSE Ignore(m)
  /\ UNCHANGED acquires

\* The status a finished stop leaves when nobody waits for a new generation.
StatusAfterStop(why, res) == IF res = "ok" /\ why = "Idle" THEN "Idle" ELSE "Failed"

\* ManagerCommand::StopFinished with the result of the supervisor's shutdown,
\* which has reaped the process.  The branch for another generation or reason
\* is never taken: see CompletionsOwned.
StopFinished(m, res) ==
  LET open == Waiters \ closed  \* retain_open_waiters
  IN /\ m \in tasks /\ m.kind = "Stop" /\ res \in m.results
     /\ mode = "Stopping" /\ m.gen = gen /\ m.reason = reason
     /\ \/ /\ ShuttingDown
           /\ Exit(IF res = "ok" \/ reason = "Crashed" THEN "ok" ELSE "failed", calls)
           /\ live' = live \ {gen}
           /\ UNCHANGED <<host, drainEpoch, forced, startVars>>
        \/ /\ ~ShuttingDown /\ open = {}
           /\ Dismiss(Waiters)
           /\ mode' = "Cold" /\ status' = StatusAfterStop(reason, res)
           /\ tasks' = tasks \ {m}
           /\ live' = live \ {gen}
           /\ UNCHANGED <<gen, leases, idleEpoch, parkEpoch, reason, hostVars,
                          startVars>>
        \/ /\ ~ShuttingDown /\ open # {}
           /\ Dismiss(Waiters \ open)
           /\ SpawnStart(tasks \ {m}, live \ {gen})
           /\ UNCHANGED hostVars
     /\ UNCHANGED <<crashed, acquires>>

-----------------------------------------------------------------------------
(* Host shutdown.                                                           *)

\* start_host_shutdown, from a command that left the shutdown calls callsNow.
StartHostShutdown(force, callsNow) ==
  /\ host' = "stopping"
  /\ \/ /\ mode = "Cold"
        /\ Exit("ok", callsNow)
        /\ UNCHANGED <<drainEpoch, cancelled>>
     \/ /\ mode = "Starting"
        /\ Dismiss(Waiters)
        /\ cancelled' = cancelled \cup {gen}
        /\ status' = "ShuttingDown" /\ calls' = callsNow
        /\ UNCHANGED <<mgrVars, drainEpoch, tasks>>
     \/ /\ mode = "Running" /\ ~force /\ leases > 0
        /\ drainEpoch' = drainEpoch + 1
        /\ tasks' = tasks \cup {Task("DrainExpired", gen, drainEpoch')}
        /\ status' = "ShuttingDown" /\ calls' = callsNow
        /\ UNCHANGED <<mgrVars, clientVars, cancelled>>
     \/ /\ \/ mode = "Running" /\ (force \/ leases = 0)
           \/ mode \in Standby
        /\ Dismiss(Waiters)
        /\ BeginStop("HostShutdown", tasks)
        /\ calls' = callsNow
        /\ UNCHANGED <<drainEpoch, cancelled>>
     \/ /\ mode = "Stopping"
        /\ Dismiss(Waiters)
        /\ status' = "ShuttingDown" /\ calls' = callsNow
        /\ UNCHANGED <<mgrVars, drainEpoch, cancelled, tasks>>

\* ManagerCommand::Shutdown
HandleShutdown(s) ==
  /\ calls[s] = "queued"
  /\ LET callsNow == [calls EXCEPT ![s] = "pending"]
     IN \/ /\ ShuttingDown
           /\ calls' = callsNow
           /\ UNCHANGED <<mgrVars, clientVars, host, drainEpoch,
                          cancelled, status, tasks>>
        \/ ~ShuttingDown /\ StartHostShutdown(FALSE, callsNow)
  /\ UNCHANGED <<forced, nextAttempt, procVars, acquires>>

\* ManagerCommand::ForceShutdown
HandleForceShutdown ==
  /\ forced = "queued" /\ mode # "Closed"
  /\ forced' = "done"
  /\ StartHostShutdown(TRUE, calls)
  /\ UNCHANGED <<nextAttempt, procVars, acquires>>

-----------------------------------------------------------------------------
CallerNext ==
  \/ \E c \in Clients : Acquire(c) \/ Abandon(c) \/ DropLease(c)
  \/ \E s \in ShutdownCalls : CallShutdown(s)
  \/ DropOwner

EngineNext ==
  \/ \E g \in live : Crash(g)
  \/ \E m \in tasks : StartReady(m) \/ StartFails(m)

ManagerNext ==
  \/ \E c \in Clients : HandleAcquire(c) \/ HandleRelease(c)
  \/ \E m \in tasks :
       \/ StartFinished(m) \/ HotIdleExpired(m) \/ IdleExpired(m)
       \/ DrainExpired(m) \/ GenerationTerminal(m)
       \/ \E res \in Results :
            QuiesceFinished(m, res) \/ ResumeFinished(m, res) \/ StopFinished(m, res)
  \/ \E s \in ShutdownCalls : HandleShutdown(s)
  \/ HandleForceShutdown

Next == CallerNext \/ EngineNext \/ ManagerNext

Spec == Init /\ [][Next]_vars

\* The manager keeps receiving, and every start, stop, quiesce and resume ends
\* by its deadline.  Callers and the host owe nothing: a lease may be held for
\* ever and a crash never has to happen.
Fairness ==
  /\ \A c \in Clients : WF_vars(HandleAcquire(c)) /\ WF_vars(HandleRelease(c))
  /\ WF_vars(\E m \in tasks : StartReady(m) \/ StartFails(m))
  /\ WF_vars(\E m \in tasks : StartFinished(m))
  /\ WF_vars(\E m \in tasks : HotIdleExpired(m))
  /\ WF_vars(\E m \in tasks : IdleExpired(m))
  /\ WF_vars(\E m \in tasks : DrainExpired(m))
  /\ WF_vars(\E m \in tasks : GenerationTerminal(m))
  /\ WF_vars(\E m \in tasks, res \in Results : QuiesceFinished(m, res))
  /\ WF_vars(\E m \in tasks, res \in Results : ResumeFinished(m, res))
  /\ WF_vars(\E m \in tasks, res \in Results : StopFinished(m, res))
  /\ \A s \in ShutdownCalls : WF_vars(HandleShutdown(s))
  /\ WF_vars(HandleForceShutdown)

FairSpec == Spec /\ Fairness

-----------------------------------------------------------------------------
(* Safety.                                                                  *)

\* The domains of the variables: in particular the published status is one of
\* EngineManagerStatus, and a stop carries one of the four reasons.
TypeOK ==
  /\ mode \in Modes /\ gen \in Nat /\ leases \in Nat
  /\ idleEpoch \in Nat /\ parkEpoch \in Nat /\ reason \in Reasons
  /\ nextAttempt \in Nat /\ drainEpoch \in Nat
  /\ host \in {"serving", "stopping"} /\ cancelled \subseteq Nat
  /\ status \in Statuses
  /\ tasks \subseteq Tasks
  /\ live \subseteq Nat /\ crashed \subseteq Nat
  /\ pc \in [Clients -> {"idle", "acquiring", "waiting", "leased", "releasing"}]
  /\ closed \subseteq Clients
  /\ lease \in [Clients -> Nat]
  /\ acquires \in Nat
  /\ calls \in [ShutdownCalls -> {"unused", "queued", "pending"} \cup Answers]
  /\ forced \in {"no", "queued", "done"}

\* The lease counter of the running generation counts exactly the callers that
\* hold a lease on it or whose release is still in the channel, and a
\* generation that is parked, parking or resuming has none (issue_lease,
\* ReleaseOnDrop, Release).
LeaseAccounting ==
  /\ mode = "Running" => leases = Cardinality(Claims(gen))
  /\ mode \in Standby => leases = 0 /\ Claims(gen) = {}

\* Nothing but a crash of the engine or a host shutdown takes the engine away
\* from a caller: while a lease is held its generation is the running one.  No
\* idle deadline, hot or hard, of this or an earlier idle period quiesces,
\* parks or reaps it.
LeaseKeepsGeneration ==
  \A c \in Clients :
    pc[c] = "leased" /\ lease[c] \notin crashed /\ ~ShuttingDown
      => mode = "Running" /\ gen = lease[c]

\* One Java process at a time: a start never overlaps another start or a
\* generation that is not reaped, and a manager without a generation has left
\* no process behind.
SingleProcess ==
  live = IF \/ mode \in {"Running", "Stopping"} \cup Standby
            \/ mode = "Starting" /\ Task("StartErr", gen, 0) \notin tasks
         THEN {gen} ELSE {}

\* Every start and stop task belongs to the current state of the manager, and
\* there is exactly one when the manager waits for it: the branches of
\* StartFinished and StopFinished for a foreign attempt, generation or reason
\* are dead, and no supervisor is ever stopped behind the manager's back.
CompletionsOwned ==
  /\ \A m \in tasks :
       /\ m.kind \in StartKinds => mode = "Starting" /\ m = Task(m.kind, gen, 0)
       /\ m.kind = "Stop" => mode = "Stopping" /\ m.gen = gen /\ m.reason = reason
       /\ \A n \in tasks : {m.kind, n.kind} \subseteq StartKinds \cup {"Stop"} => m = n
  /\ mode = "Starting" => \E m \in tasks : m.kind \in StartKinds
  /\ mode = "Stopping" => \E m \in tasks : m.kind = "Stop"

\* Replies are held only by a state that will answer them, and by none once the
\* host shuts down.
WaitersOwned ==
  Waiters # {} => /\ mode \in {"Starting", "Quiescing", "Resuming", "Stopping"}
                  /\ ~ShuttingDown

\* A timer of the current idle period exists only while the period lasts: no
\* lease is out and nobody waits for one.  So a timer that outlives its period
\* is stale when it fires, however late that is, and never cuts a later period
\* short (issue_lease and invalidate_idle advance idle_epoch).
ArmedTimersAreIdle ==
  \A m \in tasks :
    m.kind \in {"IdleExpired", "HotIdleExpired"} /\ m.gen = gen
    /\ mode \in {"Running"} \cup Standby
      => /\ m.epoch <= idleEpoch
         /\ m.epoch = idleEpoch => leases = 0 /\ Waiters = {}

\* A shutdown call is answered only after the Java process is reaped and the
\* manager is gone.
ShutdownMeansReaped ==
  \A s \in ShutdownCalls : calls[s] \in Answers => mode = "Closed" /\ live = {}

-----------------------------------------------------------------------------
(* Action and liveness properties.                                          *)

\* After the host started to shut down no caller gets a lease, not even one
\* that was queued before.
NoLeaseAfterShutdown ==
  [][ShuttingDown => \A c \in Clients : pc'[c] = "leased" => pc[c] = "leased"]_vars

\* Every acquire is answered, with a lease or an error, whatever state it
\* reaches the manager in and however often the engine fails meanwhile.
AcquireAnswered ==
  \A c \in Clients :
    pc[c] \in {"acquiring", "waiting"} ~> pc[c] \in {"idle", "leased"}

\* Every shutdown call is answered, even when a lease is never released.
ShutdownAnswered ==
  \A s \in ShutdownCalls :
    calls[s] \in {"queued", "pending"} ~> calls[s] \in Answers

\* The documented idle policy: once the last lease is released, the idle
\* deadline reaps Java unless somebody asks for it again.
IdleEngineReaped ==
  (mode \in {"Running", "Quiescing", "Parked"} /\ leases = 0)
    ~> (live = {} \/ leases > 0 \/ \E c \in Clients : pc[c] # "idle")
=============================================================================
