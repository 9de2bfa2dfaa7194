----------------------------- MODULE Dispatcher -----------------------------
(***************************************************************************)
(* src/dispatcher.py: the queue of dispatch() calls, the worker task that  *)
(* runs them one at a time through run_opencode_prompt.sh, the kill of a   *)
(* job's process group on timeout and on cancellation, and stop().         *)
(*                                                                         *)
(* The asyncio tasks that interleave are the callers of dispatch(), the    *)
(* worker and stop(); an action runs one task from one await to the next.  *)
(* The operating system's processes are actors of their own: they fork,    *)
(* exit and become zombies at any time.  Task.cancel() does not stop the   *)
(* worker: it is a request (cancelReq) that raises CancelledError at the   *)
(* await where the worker stands.                                          *)
(*                                                                         *)
(* Abstracted: prompt and worktree paths (a job is its identity), the      *)
(* environment, logging, the Windows branch, and time: a timeout may fire  *)
(* whenever its await is pending.  A get() that finds the queue non-empty  *)
(* does not suspend in asyncio; here the worker passes through "get" and   *)
(* may be interleaved there, which only adds behaviours.                   *)
(***************************************************************************)
EXTENDS Sequences, SequencesExt

CONSTANTS Jobs,      \* the dispatch() calls, each made at most once
          NoJob,     \* "no job in flight"
          Children,  \* processes the bash wrapper starts, holds stdout for, and waits for
          Strays     \* their own descendants: in the group, but nobody waits for them

ASSUME NoJobAssumption == NoJob \notin Jobs
ASSUME GroupAssumption == Children \cap Strays = {}

VARIABLES
    \* --- Dispatcher's attributes
    queue,           \* _queue: jobs accepted and not taken
    pendingFutures,  \* _pending_futures
    stopping,        \* _stopping
    future,          \* the asyncio future of each dispatch() call
    \* --- the tasks
    caller,          \* the task awaiting dispatch(): its outcome once it has run on
    worker,          \* the await at which the worker task stands
    job,             \* the job the worker has taken, or NoJob
    cause,           \* why _kill_process_group runs
    cancelReq,       \* worker_task.cancel() was called, CancelledError not yet raised
    stopper,         \* the await at which stop() stands
    \* --- the event loop
    ready,           \* calls whose done-callbacks are scheduled and have not run
    ahead,           \* those of them scheduled before stop()'s own wakeup
    \* --- the operating system, per job
    leader,          \* the bash wrapper, leader of the job's process group
    group,           \* the other members of the group that are alive
    exitCode         \* the wrapper's exit code

futureVars == <<queue, pendingFutures, future, caller, ready>>
workerVars == <<worker, job, cause, cancelReq>>
stopVars   == <<stopping, stopper, ahead>>
osVars     == <<leader, group, exitCode>>
vars == <<futureVars, workerVars, stopVars, osVars>>

Members  == Children \cup Strays
Results  == {"zero", "error", "timeout"}
Settled  == Results \cup {"exception", "cancelled"}

TypeOK ==
    /\ queue \in Seq(Jobs)
    /\ pendingFutures \subseteq Jobs
    /\ stopping \in BOOLEAN
    /\ future \in [Jobs -> Settled \cup {"none", "pending"}]
    /\ caller \in [Jobs -> Settled \cup {"idle", "waiting", "cancelling", "refused"}]
    /\ worker \in {"new", "get", "spawn", "abort", "communicate", "grace", "reap", "ended"}
    /\ job \in Jobs \cup {NoJob}
    /\ cause \in {"none", "timeout", "cancel"}
    /\ cancelReq \in BOOLEAN
    /\ stopper \in {"idle", "join", "joined", "yield", "done"}
    /\ ready \subseteq Jobs
    /\ ahead \subseteq Jobs
    /\ leader \in [Jobs -> {"none", "alive", "zombie", "reaped"}]
    /\ group \in [Jobs -> SUBSET Members]
    /\ exitCode \in [Jobs -> {"none", "zero", "error"}]

Init ==
    /\ queue = <<>>
    /\ pendingFutures = {}
    /\ stopping = FALSE
    /\ future = [j \in Jobs |-> "none"]
    /\ caller = [j \in Jobs |-> "idle"]
    /\ worker = "new"
    /\ job = NoJob
    /\ cause = "none"
    /\ cancelReq = FALSE
    /\ stopper = "idle"
    /\ ready = {}
    /\ ahead = {}
    /\ leader = [j \in Jobs |-> "none"]
    /\ group = [j \in Jobs |-> {}]
    /\ exitCode = [j \in Jobs |-> "none"]

-----------------------------------------------------------------------------
(* Futures: the `if not future.done()` guards and asyncio's done-callbacks. *)

Done(j) == future[j] \in Settled

\* BUG: set the outcome without asking whether the future is done.
SettleTwice(S, o) ==
    /\ future' = [j \in Jobs |-> IF j \in S THEN o ELSE future[j]]
    /\ ready' = ready \cup S

\* Settle the futures of S that are not done, and schedule their callbacks:
\* the discard from _pending_futures and the wakeup of the awaiting caller.
Settle(S, o) ==
    LET fresh == {j \in S : future[j] = "pending"}
    IN  /\ future' = [j \in Jobs |-> IF j \in fresh THEN o ELSE future[j]]
        /\ ready' = ready \cup fresh

\* One scheduled callback pair runs: the future is discarded, and its caller
\* resumes with the outcome, or with the CancelledError it was sent meanwhile.
RunCallbacks(j) ==
    /\ j \in ready
    /\ ready' = ready \ {j}
    /\ ahead' = ahead \ {j}
    /\ pendingFutures' = pendingFutures \ {j}
    /\ caller' = [caller EXCEPT ![j] = IF @ = "waiting" THEN future[j] ELSE "cancelled"]
    /\ UNCHANGED <<queue, future, workerVars, stopping, stopper, osVars>>

-----------------------------------------------------------------------------
(* The callers.                                                            *)

\* dispatch(): refused while stopping, else queued; the put never suspends.
Dispatch(j) ==
    /\ caller[j] = "idle"
    /\ IF stopping
       THEN /\ caller' = [caller EXCEPT ![j] = "refused"]
            /\ UNCHANGED <<queue, pendingFutures, future>>
       ELSE /\ caller' = [caller EXCEPT ![j] = "waiting"]
            /\ future' = [future EXCEPT ![j] = "pending"]
            /\ pendingFutures' = pendingFutures \cup {j}
            /\ queue' = Append(queue, j)
    /\ UNCHANGED <<ready, workerVars, stopVars, osVars>>

\* Somebody cancels the task that awaits dispatch(), as Sentinel.stop() does.
\* The await forwards the cancellation to the future; the queue is untouched.
CancelCaller(j) ==
    /\ caller[j] = "waiting"
    /\ caller' = [caller EXCEPT ![j] = "cancelling"]
    /\ Settle({j}, "cancelled")
    /\ UNCHANGED <<queue, pendingFutures, workerVars, stopVars, osVars>>

-----------------------------------------------------------------------------
(* The worker: _worker and _run.                                           *)

Start ==
    /\ worker = "new"
    /\ stopper = "idle"
    /\ worker' = "get"
    /\ stopping' = FALSE
    /\ UNCHANGED <<futureVars, job, cause, cancelReq, stopper, ahead, osVars>>

\* queue.get() returns and create_subprocess_exec forks the wrapper ...
Take ==
    /\ worker = "get"
    /\ ~cancelReq
    /\ queue /= <<>>
    /\ queue' = Tail(queue)
    /\ job' = Head(queue)
    /\ worker' = "spawn"
    /\ leader' = [leader EXCEPT ![Head(queue)] = "alive"]
    /\ UNCHANGED <<pendingFutures, future, caller, ready, cause, cancelReq,
                   stopVars, group, exitCode>>

\* ... or raises, and the exception goes to the caller.
TakeFails ==
    /\ worker = "get"
    /\ ~cancelReq
    /\ queue /= <<>>
    /\ queue' = Tail(queue)
    /\ Settle({Head(queue)}, "exception")
    /\ UNCHANGED <<pendingFutures, caller, workerVars, stopVars, osVars>>

SpawnReturns ==
    /\ worker = "spawn"
    /\ ~cancelReq
    /\ worker' = "communicate"
    /\ UNCHANGED <<futureVars, job, cause, cancelReq, stopVars, osVars>>

\* _run returned r: the worker settles the future and goes back to the queue.
JobReturns(r) ==
    /\ Settle({job}, r)
    /\ worker' = "get"
    /\ job' = NoJob
    /\ cause' = "none"
    /\ UNCHANGED <<queue, pendingFutures, caller, cancelReq, stopVars>>

\* BUG: CancelledError leaves the worker with the future in hand unsettled.
WorkerEndsSilently ==
    /\ worker' = "ended"
    /\ job' = NoJob
    /\ cause' = "none"
    /\ cancelReq' = FALSE
    /\ stopper' = "joined"
    /\ ahead' = ready
    /\ UNCHANGED <<queue, pendingFutures, future, ready, caller, stopping>>

\* CancelledError leaves the worker: the future in hand is cancelled, the task
\* ends and stop()'s await of it is scheduled, behind the callbacks so far.
WorkerEnds ==
    /\ Settle({job} \cap Jobs, "cancelled")
    /\ worker' = "ended"
    /\ job' = NoJob
    /\ cause' = "none"
    /\ cancelReq' = FALSE
    /\ stopper' = "joined"
    /\ ahead' = ready'
    /\ UNCHANGED <<queue, pendingFutures, caller, stopping>>

\* BUG: take the end of the output for the end of the wrapper.
CommunicateReturnsAtEOF ==
    /\ worker = "communicate"
    /\ ~cancelReq
    /\ group[job] \cap Children = {}
    /\ JobReturns(exitCode[job])
    /\ UNCHANGED osVars

\* communicate() saw both pipes close and the wrapper reaped.
CommunicateReturns ==
    /\ worker = "communicate"
    /\ ~cancelReq
    /\ leader[job] = "reaped"
    /\ group[job] \cap Children = {}
    /\ JobReturns(exitCode[job])
    /\ UNCHANGED osVars

\* BUG: signal the group and return -1 without waiting for the wrapper.
TimeoutDoesNotWait ==
    /\ worker = "communicate"
    /\ ~cancelReq
    /\ JobReturns("timeout")
    /\ UNCHANGED osVars

\* _kill_process_group up to its first await: getpgid fails once the wrapper is
\* reaped, otherwise the group gets SIGTERM (members may exit at any time anyway).
TimeoutFires ==
    /\ worker = "communicate"
    /\ ~cancelReq
    /\ IF leader[job] = "reaped"
       THEN JobReturns("timeout")
       ELSE /\ worker' = "grace"
            /\ cause' = "timeout"
            /\ UNCHANGED <<futureVars, job, cancelReq, stopVars>>
    /\ UNCHANGED osVars

\* The wrapper exits within _KILL_GRACE_SECS: no SIGKILL is sent to the group.
GraceReturns ==
    /\ worker = "grace"
    /\ ~cancelReq
    /\ leader[job] = "reaped"
    /\ IF cause = "timeout" THEN JobReturns("timeout") ELSE WorkerEnds
    /\ UNCHANGED osVars

\* SIGKILL takes the whole group at once.
KillGroup(j) ==
    /\ leader' = [leader EXCEPT ![j] = IF @ = "alive" THEN "zombie" ELSE @]
    /\ exitCode' = [exitCode EXCEPT ![j] = IF leader[j] = "alive" THEN "error" ELSE @]
    /\ group' = [group EXCEPT ![j] = {}]

\* BUG: no escalation, wait for a wrapper that ignores SIGTERM.
GraceExpiresWithoutKill ==
    /\ worker = "grace"
    /\ ~cancelReq
    /\ worker' = "reap"
    /\ UNCHANGED <<futureVars, job, cause, cancelReq, stopVars, osVars>>

GraceExpires ==
    /\ worker = "grace"
    /\ ~cancelReq
    /\ KillGroup(job)
    /\ worker' = "reap"
    /\ UNCHANGED <<futureVars, job, cause, cancelReq, stopVars>>

ReapReturns ==
    /\ worker = "reap"
    /\ ~cancelReq
    /\ leader[job] = "reaped"
    /\ IF cause = "timeout" THEN JobReturns("timeout") ELSE WorkerEnds
    /\ UNCHANGED osVars

-----------------------------------------------------------------------------
(* CancelledError raised at each await of the worker.                      *)

CancelledAtGet ==
    /\ worker = "get"
    /\ cancelReq
    /\ WorkerEnds
    /\ UNCHANGED osVars

\* Inside create_subprocess_exec asyncio kills the wrapper alone and waits for
\* it; _run's own handlers are not entered yet.
CancelledAtSpawn ==
    /\ worker = "spawn"
    /\ cancelReq
    /\ worker' = "abort"
    /\ cancelReq' = FALSE
    /\ leader' = [leader EXCEPT ![job] = IF @ = "alive" THEN "zombie" ELSE @]
    /\ exitCode' = [exitCode EXCEPT ![job] = IF leader[job] = "alive" THEN "error" ELSE @]
    /\ UNCHANGED <<futureVars, job, cause, stopVars, group>>

AbortReturns ==
    /\ worker = "abort"
    /\ leader[job] = "reaped"
    /\ WorkerEnds
    /\ UNCHANGED osVars

\* _run's `except CancelledError`: uncancel, kill the group, then re-raise.
CancelledAtCommunicate ==
    /\ worker = "communicate"
    /\ cancelReq
    /\ IF leader[job] = "reaped"
       THEN WorkerEnds
       ELSE /\ worker' = "grace"
            /\ cause' = "cancel"
            /\ cancelReq' = FALSE
            /\ UNCHANGED <<futureVars, job, stopVars>>
    /\ UNCHANGED osVars

\* The kill of a timed-out job is not shielded: the exception leaves
\* _kill_process_group, _run and the worker from the await it stands at.
CancelledInTimeoutKill ==
    /\ worker \in {"grace", "reap"}
    /\ cancelReq
    /\ WorkerEnds
    /\ UNCHANGED osVars

-----------------------------------------------------------------------------
(* stop()                                                                  *)

\* BUG: no sleep(0), stop() goes on before the callbacks it has scheduled.
DrainWithoutYield ==
    /\ Settle(ToSet(queue) \cup pendingFutures, "cancelled")
    /\ queue' = <<>>
    /\ stopper' = "yield"
    /\ ahead' = {}
    /\ UNCHANGED <<pendingFutures, caller>>

\* Cancel the futures of the queued jobs, then all that are still tracked, and
\* yield once: stop() resumes behind every callback scheduled so far.
Drain ==
    /\ Settle(ToSet(queue) \cup pendingFutures, "cancelled")
    /\ queue' = <<>>
    /\ stopper' = "yield"
    /\ ahead' = ready'
    /\ UNCHANGED <<pendingFutures, caller>>

\* BUG: await the worker without cancelling it.
StopWithoutCancel ==
    /\ stopper \in {"idle", "done"}
    /\ stopping' = TRUE
    /\ IF worker \in {"new", "ended"}
       THEN Drain
       ELSE stopper' = "join" /\ UNCHANGED <<futureVars, ahead>>
    /\ UNCHANGED <<workerVars, osVars>>

\* stop() up to its first await.  A second stop() finds no worker task.
Stop ==
    /\ stopper \in {"idle", "done"}
    /\ stopping' = TRUE
    /\ IF worker \in {"new", "ended"}
       THEN Drain /\ UNCHANGED cancelReq
       ELSE /\ cancelReq' = TRUE
            /\ stopper' = "join"
            /\ UNCHANGED <<futureVars, ahead>>
    /\ UNCHANGED <<worker, job, cause, osVars>>

StopDrains ==
    /\ stopper = "joined"
    /\ ahead = {}
    /\ Drain
    /\ UNCHANGED <<stopping, workerVars, osVars>>

StopReturns ==
    /\ stopper = "yield"
    /\ ahead = {}
    /\ stopper' = "done"
    /\ UNCHANGED <<futureVars, workerVars, stopping, ahead, osVars>>

-----------------------------------------------------------------------------
(* The job's processes (run_opencode_prompt.sh).                           *)

\* The wrapper starts a background child, or a child starts a descendant.
Fork(j, m) ==
    /\ m \notin group[j]
    /\ IF m \in Children THEN leader[j] = "alive" ELSE group[j] \cap Children /= {}
    /\ group' = [group EXCEPT ![j] = @ \cup {m}]
    /\ UNCHANGED <<futureVars, workerVars, stopVars, leader, exitCode>>

MemberExits(j, m) ==
    /\ m \in group[j]
    /\ group' = [group EXCEPT ![j] = @ \ {m}]
    /\ UNCHANGED <<futureVars, workerVars, stopVars, leader, exitCode>>

\* The wrapper waits for its children, on the normal path and in its TERM trap.
LeaderExits(j) ==
    /\ leader[j] = "alive"
    /\ group[j] \cap Children = {}
    /\ leader' = [leader EXCEPT ![j] = "zombie"]
    /\ \E c \in {"zero", "error"} : exitCode' = [exitCode EXCEPT ![j] = c]
    /\ UNCHANGED <<futureVars, workerVars, stopVars, group>>

\* The event loop's child watcher collects the wrapper's exit status.
LeaderReaped(j) ==
    /\ leader[j] = "zombie"
    /\ leader' = [leader EXCEPT ![j] = "reaped"]
    /\ UNCHANGED <<futureVars, workerVars, stopVars, group, exitCode>>

-----------------------------------------------------------------------------
CallerStep(j) == Dispatch(j) \/ CancelCaller(j)

WorkerStep ==
    \/ Take \/ TakeFails \/ SpawnReturns
    \/ CommunicateReturns \/ TimeoutFires
    \/ GraceReturns \/ GraceExpires \/ ReapReturns
    \/ CancelledAtGet \/ CancelledAtSpawn \/ AbortReturns
    \/ CancelledAtCommunicate \/ CancelledInTimeoutKill

StopStep == StopDrains \/ StopReturns

ProcessStep(j) ==
    \/ \E m \in Members : Fork(j, m) \/ MemberExits(j, m)
    \/ LeaderExits(j)
    \/ LeaderReaped(j)

Next ==
    \/ Start \/ Stop \/ WorkerStep \/ StopStep
    \/ \E j \in Jobs : CallerStep(j) \/ RunCallbacks(j) \/ ProcessStep(j)

Spec == Init /\ [][Next]_vars

(***************************************************************************)
(* Fairness: the event loop runs what is scheduled, awaits return, timers  *)
(* fire, and the kernel's child watcher reports a zombie.  Nothing obliges *)
(* a process of the job to exit by itself, a caller to give up, or the     *)
(* service to start or stop the dispatcher.                                *)
(***************************************************************************)
Fairness ==
    /\ WF_vars(WorkerStep)
    /\ WF_vars(StopStep)
    /\ \A j \in Jobs : WF_vars(RunCallbacks(j)) /\ WF_vars(LeaderReaped(j))

FairSpec == Spec /\ Fairness

-----------------------------------------------------------------------------
(* Properties.                                                             *)

InQueue(j) == \E i \in DOMAIN queue : queue[i] = j

\* No call is lost or duplicated: a future that is still pending belongs to
\* exactly one job the worker holds or will reach, it is tracked for stop(),
\* and no job is queued twice or queued while it runs (dispatch / _worker).
NoLostCall ==
    /\ \A j \in Jobs : future[j] = "pending" =>
          /\ job = j \/ InQueue(j)
          /\ j \in pendingFutures
    /\ \A i, k \in DOMAIN queue : queue[i] = queue[k] => i = k
    /\ ~InQueue(job)

\* Decision 8, on the wrapper: two bash wrappers are never alive or unreaped at
\* the same time, so no job starts before _run has seen the previous one exit.
OneWrapper ==
    \A i, j \in Jobs :
        leader[i] \in {"alive", "zombie"} /\ leader[j] \in {"alive", "zombie"} => i = j

\* A result is not reported before its wrapper is gone: a job with a result in
\* its future has a reaped wrapper, and exit codes are the wrapper's own.
ResultAfterExit ==
    \A j \in Jobs :
        /\ future[j] \in Results => leader[j] = "reaped"
        /\ future[j] \in {"zero", "error"} => future[j] = exitCode[j]

\* stop()'s contract: when it has returned, every dispatch() caller that was
\* waiting has already received its result or CancelledError.
StopSettlesCallers ==
    stopper = "done" => \A j \in Jobs : caller[j] \notin {"waiting", "cancelling"}

\* Once stop() has begun no further wrapper is launched, although the worker
\* may be anywhere in its loop with jobs queued behind it.
NoLaunchAfterStop ==
    [][stopping => \A j \in Jobs : leader[j] = "none" => leader'[j] = "none"]_vars

\* Every accepted call is settled, stop() or no stop(), as long as the worker was
\* started: a timeout bounds each job even when its processes never exit.
CallsAreSettled ==
    \A j \in Jobs : (caller[j] = "waiting" /\ worker /= "new") ~> (caller[j] /= "waiting")

\* stop() returns whatever the worker was doing and however its processes behave.
StopTerminates == stopper = "join" ~> stopper = "done"

-----------------------------------------------------------------------------
(* The promise of dispatch() that this module implements.                  *)

SD == INSTANCE SequentialDispatch WITH
          line <- queue, current <- job, outcome <- future, closed <- stopping

SequentialSpec == SD!Spec

-----------------------------------------------------------------------------
(* Claims of the docstrings, checked as they are written.                  *)

\* stop(): "the entire process group (bash wrapper + opencode + log-tailer
\* children) is torn down before this method returns" - here for the wrapper.
StopTearsDownWrapper ==
    stopper = "done" => \A j \in Jobs : leader[j] /= "alive"

\* _run(): "On timeout the entire group is terminated via _kill_process_group":
\* nothing of the group is left when the kill that a timeout began returns.
TimeoutKillIsComplete ==
    [][cause = "timeout" /\ worker' = "get" => group[job] = {}]_vars
=============================================================================
