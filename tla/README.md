# TLA+ models of the workflow orchestration service

Specifications of the service in `src/src/` (the FastAPI process that turns GitHub
events into runs of the opencode orchestrator), of the shell scripts that run the
orchestrator and its server, and of the issue-queue sentinel in `src/plan_docs/src/`,
model-checked with TLC on small instances and proved with TLAPS for all instances where
that is said below. `PROJECT.json` lists the runs, the source lines behind every
definition, the hazards and the theorems.

## The system

| Component | State it keeps | Operations | Talks to |
|---|---|---|---|
| `main.py` lifespan | none | start dispatcher, start sentinel; stop sentinel, stop dispatcher, close | all |
| `event_router.py` | set of background tasks | `POST /webhooks/github`, `GET /health` | checker, worktrees, prompt, dispatcher |
| `sentinel.py` | poll task, cycle count, backoff, HTTP client | `start`, `stop`, poll once per interval, refresh the cache every tenth poll | GitHub search, the same four |
| `eligibility_checker.py` | cache repo → eligible | `is_eligible`, `refresh_cache`, `close` | GitHub |
| `worktree_manager.py` | one asyncio lock per worktree; the worktrees on disk | `resolve`, `ensure_ready` (clone, or fetch and pull) | git |
| `prompt_assembler.py` | none (writes a file) | `assemble` | disk |
| `dispatcher.py` | queue, pending futures, worker task, stopping flag | `start`, `dispatch`, `stop`, worker, kill of a process group | the wrapper's process group |
| `run_opencode_prompt.sh` | shell variables, log file, child processes | launch, watch, kill, clean up, trap | opencode client, server's pidfile, log and `/proc` |
| `start-opencode-server.sh`, `server/entrypoint.sh` | pidfile; the entrypoint's `server_pid` | reuse, replace or start the server; watch it, shut it down | opencode server, docker, `kill` |
| `plan_docs/src` (sentinel, `github_queue`, notifier) | issue labels and assignees on GitHub; the task in hand, the shutdown flag | queue, list, claim, run bridge commands, report | GitHub, `devcontainer-opencode.sh` |
| config, models, scrubbing, prompt scripts, PowerShell ports, CI, prompts | none worth modelling | | |

A webhook that passes the filters and the eligibility check becomes a background task; a
poll that finds an eligible issue runs inside the poll task. Both do the same three things:
prepare the worktree, assemble the prompt, `await dispatcher.dispatch()`. The dispatcher
runs one wrapper at a time; the wrapper runs one opencode client and watches it.

What is hard here:

* **Interleaving at awaits.** Everything shares one event loop without threads, but every
  `await` is a point where state that was read may change: the cache between a request and
  its answer, the lock between its release and the wakeup of a waiter, a future between its
  settlement and its callbacks.
* **Cancellation.** `Task.cancel()` only asks; the exception appears wherever the task
  stands, including inside an exception handler. `stop()` relies on it twice.
* **Processes.** A job is a process group whose leader, children and descendants exit in
  any order, ignore SIGTERM, or hold a pipe open.
* **Time.** A job timeout (95 min), a kill grace, and in the wrapper three limits (15, 20 and
  90 min) judged from samples of counters that are sometimes unreadable.
* **Failure.** GitHub down or rate-limiting, git failing or hanging, a crash in the middle
  of a clone with the volume surviving, a request whose answer is lost although it took effect.
* **State outside.** The pidfile survives its process, whose number is given to another; the
  labels of an issue are all that two sentinels know of each other.

What makes each part correct is stated as the properties of its module, below; the
hazards in `PROJECT.json` say which line each property watches.

## Modules

| Module | Models | Extends / uses |
|---|---|---|
| `SequentialDispatch` | the promise of `dispatch()`: FIFO, one at a time, settled once, closed for good | |
| `Dispatcher` | `dispatcher.py` and the processes of its jobs | shown to implement `SequentialDispatch` |
| `Watchdog` | `run_opencode_prompt.sh` | |
| `Eligibility` | `eligibility_checker.py` with its callers | |
| `Polling` | the poll loop of `sentinel.py` | extends `Eligibility`, whose steps it takes |
| `Service` | `main.py`, webhook tasks, poll task, `worktree_manager.py` | `SequentialDispatch` in place of the dispatcher |
| `WorkBoard` | the promise of the issue queue: one piece of work in hand, none taken twice | |
| `IssueQueue` | `orchestrator_sentinel.py`, `github_queue.py`, any number of sentinels | shown to implement `WorkBoard` |
| `ServerBoot` | `start-opencode-server.sh`, `server/entrypoint.sh`, with docker and the server | |
| `MC*` | TLC instances | |
| `*Proofs` | theorems | the module, TLAPS |
| `ServiceLifecycleProofs` | more theorems about `Service`: locks, polls, shutdown | extends `ServiceProofs` |

Definitions marked `BUG:` in a module are mutated forms of the definition after them.
No specification uses them; `PROJECT.json` says which property finds each.

### Dispatcher

An action takes one asyncio task from one await to the next. `worker` names the await at
which the worker stands: `get` (line 131), `spawn` (165), `communicate` (176), `grace`
(`wait_for` in `_kill_process_group`, 248), `reap` (262), `abort` (a spawn that is being
cancelled). `stopper` does the same for `stop()`. `cancelReq` is a `cancel()` that has not
yet been raised. `future`, `pendingFutures` and `queue` are the attributes; `ready` holds the
futures whose done-callbacks are scheduled, and `ahead` those scheduled before `stop()`'s
`sleep(0)` resumes, because asyncio runs callbacks in the order they were scheduled.

The wrapper (`leader`) and the other members of its group are actors: they fork, exit and
are reaped at any time. `communicate()` returns when the leader is reaped and nobody holds
its stdout. Outside the repository and modelled from its use: when a process exits, and the
event loop's child watcher. Simplifications: a timeout may fire whenever it is armed (time is
not counted); `get()` on a non-empty queue does not suspend in asyncio but may be
interleaved here, which only adds behaviours; a cancelled `create_subprocess_exec` leaves
what asyncio leaves, a killed leader without its group. The Windows branch is left out.

### Watchdog

Time is counted in samples of the loop (30 s). `Sleep` lets a sample pass, with any subset
of {client output, server read, server write, server log} happening in it; `Sample` is the
whole loop body (write_active, read_active, server_idle and the three verdicts).
`moved` abstracts the byte counters to "differs from what was last read". SIGTERM
(`Terminated`) may come at any point and runs the trap. The tailers (a `tail -f` and its
filter for each of the two logs) are started, and stopped by the cleanup, one at a time:
`tailers` are those that run, `noted` counts those whose number the script has in a variable
already, so that a signal can find one that is forked and not noted. The trap finds it with
`jobs -p`. The limits are constants in the same order as the code's (idle < read-only
grace < ceiling).

### Eligibility

A check is split at its requests (marker file, then template), a refresh at each page
and each repository, so checks of webhooks and of the Sentinel interleave. GitHub is an
actor: repositories appear, owners add and remove the marker, and while it is down every
request fails, which the code reads as "no". It decides its reply to a request at one moment
(`Replies`) and the reply arrives at another, so an answer may be out of date when the checker
reads it. `Sentinel.stop()` may cut the poll task off anywhere. `recent`, `during`, `begun` and
`steady` are history variables for the properties: what has qualified since the refresh that made
the cache began, the same for the refresh under way, and what `CompleteRefresh` compares. When a
refresh ends, a webhook's check whose match is on its way (`Passing`) may still write a yes that
was right only before the refresh; `NoStaleYes` counts that as recent until the next refresh.

### Polling

`Eligibility` lets the Sentinel check and refresh whenever it is idle. `Polling` adds what
`_poll_loop` makes of that: `poll` is the await at which the loop stands (`search`, `items`
between two issues, `check`, `server` for the health request, `dispatch`, `refresh`, `ended`),
`cycle` is `_poll_cycle % 10`, `items` the issues found and not looked at, `chosen` the
repository of the issue in hand. A search that the rate limit refuses leaves `cycle` alone,
any other outcome counts. An issue is its repository, and a search finds any: labels and
their order are abstracted, and so is the length of the waits. What happens to the worktree
during `dispatch` is `Service`'s subject. What the loop does to the cache are steps of
`Eligibility` by construction, so that the theorems about it hold here as well.

### Service

A request (a delivery or a poll) is at `lock`, `git` or `dispatch`, or has ended. The
lock is its holder and a FIFO of waiters, handed over on release as `asyncio.Lock` does.
`tree` is what a worktree's directory holds: absent, partial (a clone is running, or has ended
without success) or complete. A clone that fails may remove its directory or keep it, as
git does when only the checkout failed or when it is killed; `_clone` does not clean up
either way, and the next request takes the directory for a clone. `unfinished` (history) are
the worktrees to which this, or a clone cut off by a shutdown or a crash, has happened.
Cancellation frees the lock and leaves git running (`OrphanExits`).
`ProcessEnds` is a crash or the regular end; only the disk survives it. The dispatcher is
`SequentialDispatch`, so its 500 lines are not composed again; the refinement proved below
is what makes this sound. An event may be about any issue and a poll may find any issue,
which abstracts labels and the eligibility answer.

### IssueQueue

Each request to GitHub and each bridge command is a step, so the claims (`assign`, `verify`,
`unlabel`, `label`, `announce`), runs (`up`, `start`, `prompt`, `stop`) and reports (`tidy`,
`status`, `tell`) of the sentinels interleave. A request ends with a 2xx, is refused, or raises
with its effect made or not; `made` and `answer` say which, and what the code does with
each outcome is in the action. `Raised` is the try, except and finally of `process_task`,
where a failed report is itself reported as a failure. `killed` is the time after a
command's timeout, when `communicate()` waits for the pipe without a limit. A crash loses the
process and leaves the labels. A sentinel without `SENTINEL_BOT_LOGIN` skips the lock.
`taken`, `owed`, `earned` and `dropped` are history variables: `dropped` collects exactly
the issues that a crash or an ignored failure may have left behind, and the label
invariants except no others.

### ServerBoot

A start is a shell that runs the script; `pc` names what it does next, `pid` holds its
`existing_pid` or `server_pid`. `Boot` is the shell of the container's own start, the others
are further calls at any time. `proc` says what each process number belongs to now: nobody, a
stranger, or a server that starts, serves or is wedged (the port is taken, nothing answers).
`entry` is the entrypoint: in the script, reading the pidfile, watching, shutting down.
`compose` chooses between the compose deployment and the devcontainer, where PID 1 is
docker's. The pidfile is the only thing that survives `Down`. A number is not given out again
while a shell, or the entrypoint, still means its last owner (`Fresh`): the kernel
goes round all the others first; the pidfile, however old, protects nothing. `disturbed` is a
history variable: starts have overlapped, or one was cut off between the spawn and the
write.

## Runs

All modules pass their runs in full state space exploration (no depth bound).

| Run | Shows | Instance |
|---|---|---|
| `dispatcher` | no call is lost; wrappers are serial; results are honest; `stop()` settles its callers, launches nothing and returns; every call is settled although no process ever has to exit; the refinement | 2 calls, one child, one descendant |
| `dispatcher_stop_claim` (violated) | `stop()` returns with the wrapper alive when it interrupts a timeout's kill | 1 call |
| `dispatcher_timeout_claim` (violated) | the timeout's kill leaves members of the group alive | 1 call |
| `watchdog` | honest exit status, nothing left behind, writes defer the idle kill, reads do not mask a stall, termination, with nothing but a live client to wait for in the trap | limits 3 < 4 < 6 samples |
| `watchdog_silence_claim` (violated) | a client is killed one quiet sample after the server was seen reading | same |
| `polling` | a yes is no older than the last refresh, and so are dispatches; refresh all or nothing; wrong noes and stale yeses heal | 3 repositories, one of which may be created later, 1 webhook, page size 2, 2 issues per search, refresh every 2nd poll |
| `eligibility_failed_check_claim` (violated) | a webhook whose check failed is ignored | the same without the loop |
| `service` | git serialised, nothing but a clone without success breaks a worktree that is dispatched, the poll is not refused, requests end, the shutdown completes | 2 deliveries, 1 poll, 2 issues, 2 worktrees |
| `service_duplicate_claim` (violated) | a webhook and a poll dispatch the same issue together | same |
| `issue_queue` | success is earned, no issue is forgotten, in-progress is true, the refinement of `WorkBoard`, the queue moves, SIGTERM ends a sentinel | 2 sentinels, one with the lock, 2 issues, one unassignable, 2 queuings, 1 mishap |
| `issue_queue_claim` (violated) | two sentinels hold the same issue | 2 sentinels with logins of their own, no mishap |
| `server_boot` | the pidfile names the only server, the entrypoint watches it, starts end, the deployment recovers | 3 process numbers, the container's start and one more |

Why the bounds suffice. *Dispatcher*: a job in hand and one queued behind it, which is
cancelled or refused meanwhile, give every pairing of positions the worker distinguishes; a
third only repeats the second, and the proofs cover any number. One child that holds stdout
and one descendant that does not are the two kinds of group member. *Watchdog*: a session
of six samples has room for a write, a read-only stretch beyond the idle limit and the ceiling,
with each limit being the first to decide in some behaviour. *Polling*: three repositories, one
for each way to qualify, with pages of two, so there are full, last and empty pages; the
webhook and the poll loop are the two concurrent callers; only the `plain` repository's marker
changes (`Markable`), the others qualify anyway; the `templated` one may appear at any
time (`Later`), the others are there from the start; with a refresh every second poll there are
polls that are followed by one and polls that are not. *Service*: three requests allow a
holder and two waiters on one worktree, or work in two worktrees at once; restarts are
unbounded, each request is made once. *IssueQueue*: one sentinel with the lock and one
without take every path of the claim and race on every label; the unassignable issue is the
newest, so that it is always tried first; one mishap is a crash, a SIGTERM or a failed request
at every point of every cycle (`MaxMishaps`), and a second queuing (`MaxQueuings`) brings an
issue back that is still held or already reported. A claim can fail without a mishap, so the
liveness properties are not about runs that are merely undisturbed. With two issues and pages
of two no issue is beyond the first page; the theorems are for any page size, `QueueMoves` is
not shown there. *ServerBoot*: a server, a process that took a number over and a number to
spare; the container's start and one more are enough to overlap; restarts and deaths are
unbounded. Deadlock is not checked: each model may stop where the system may (no more
calls, script exited, service off, container stopped).

### Fairness

* `Dispatcher`: the event loop runs scheduled callbacks and tasks, timers fire, zombies are
  reported. Processes owe nothing, callers need not give up, nobody has to call `stop()`.
* `Watchdog`: the script's own steps. The client owes nothing, not even to SIGTERM;
  hence `Terminates` exempts the trap, which waits for it without a limit (the
  dispatcher's SIGKILL is what bounds that).
* `Polling`: a request returns (GitHub replies to it or httpx gives up, for each caller), sleeps
  end. A search is only owed while
  GitHub answers: under a rate limit it may be refused for ever, and no refresh is made.
  `WrongNoHeals` has its own premises: from some time on the repository qualifies (for
  `StaleYesHeals`: does not), GitHub answers and nobody stops the service, and a dispatch that was begun returns
  (`DispatchIsFair`), because git has no timeout and the poll waits for it.
* `Service`: tasks that can run do, and the dispatcher settles its calls, which is what
  `CallsAreSettled` and `StopTerminates` establish. git has no timeout in the code, so that
  git returns is not in the specification's fairness: `RequestsEnd` states it as its premise
  (`GitIsFair`), and `ShutdownCompletes` does without.
* `IssueQueue`: requests end (30 s), sleeps end, and a command that goes on for too long is
  killed. That its descendants then let go of the pipe is nothing the code sees to; it is the
  premise of `QueueMoves` and `SigTermEnds` (`PipesClose`: no sentinel is for ever in the wait
  after a kill). `QueueMoves` also assumes that
  the issues that cannot be claimed do not fill the page of the listing.
* `ServerBoot`: shells run, deadlines pass, PID 1 polls, docker restarts what it was not told
  to stop. The server owes nothing; a start on its way is fair as a whole
  (`Start \/ Deadline`), since it either gets on or gives up. curl has no limit for an answer,
  so `StartEnds` assumes that no server stays wedged. `Recovers` assumes that from some
  time on nothing more goes wrong (`Calm`), the container is not stopped and no start overlaps
  another, and that the server PID 1 watches does not stay on its way up; what was left
  before is arbitrary.

### What goes wrong and is nobody's promise

Some hazards in `PROJECT.json` name no property: the models show that they do happen, and no
document of the repository says they do not. A clone without success whose directory stays is
dispatched into (`unfinished`); the shutdown can leave a git running beside another; a delivery
that is still cloning then is refused and its event lost; what a cancelled spawn has forked is
not signalled as a group; overlapping starts of the server leave one that no pidfile names; a
server that answers nothing holds the start for ever. The properties next to them exempt
these cases and show that nothing else leads to the same: `DispatchNeedsClone` for the first,
`GitAlone` for the second, `PollNeverRefused` says that the poll is not the one refused,
`PidfileNamesServer` and `StartEnds` stand next to the last two. The cancelled spawn has
none.

### Disagreements between code and documents

Six runs end in a violation of what a docstring, comment, log message or plan says:
`stop()`'s "torn down before this method returns", `_run()`'s "the entire group is
terminated", the watchdog's "total I/O silence", the router's "proceeding with dispatch",
the plan's "no race conditions between webhook handler and sentinel on the same issue" and
its R5, "assign-then-verify ... prevents double-claim".
`PROJECT.json` quotes each under `findings`.

## Proofs

Safety theorems are of the form `Spec => []Inv` or `Spec => [][A]_vars`, or a refinement,
liveness theorems of the form `Spec /\ fairness => (P ~> Q)` or close to it, all for every
value of the constants, from the assumptions the modules name: `NoJobAssumption` and
`GroupAssumption` (names differ), `LimitsAssumption` (order of the limits),
`RepoAssumption`, `CallerAssumption`, `PageAssumption`, `PollAssumption` (the refresh interval is
positive), `RequestAssumption`, `WorktreeAssumption`, `IssueAssumption` (issues are numbers),
`LoginAssumption`, `PidAssumption`, `BootAssumption`. TLC evaluates each on the instances.

* **`DispatcherProofs`**: `TypeCorrect`, `CallsNeverLost`, `WrappersAreSerial`,
  `ResultsFollowExit`, `StopSettles`, `NothingLaunchedAfterStop` and `Refinement`
  (`Dispatcher` implements `SequentialDispatch`). The properties are not inductive alone.
  That `stop()` has settled everybody rests on where each phase of `stop()` leaves the
  worker (`StopPhase`), on which futures are tracked and have callbacks due
  (`FuturesTracked`) and on whose callbacks run before `stop()` resumes (`BarrierOK`);
  that wrappers are serial on the job in hand being the only one with a live process
  unless the worker was cancelled (`WrapperOK`, `JobInHand`). For the refinement, a step of
  the worker that reports a result is `Finish`, one that ends it is `Abort`, the drain of
  `stop()` is `CancelRest`, and the processes' steps stutter. Then the protocol over time:
  `SettledForGood`, `ServedInOrder`, `RunAtMostOnce`; and what kills do: `OnlyKilledAwaited`
  (an await without a limit is on a wrapper that SIGKILL has reached), `KillLeavesNobody`,
  `AbandonedOnlyThen` (the one place where a wrapper is given up).
* **`WatchdogProofs`**: `TypeCorrect`, `SuccessIsHonest`, `NothingLeftBehind`, `WritesDefer`,
  `StallsAreBounded`. The invariant ties the script's variables to the history of
  the server's I/O: `_last_write_time` is never before the last real write unless that
  write is still to be seen in the counters. `IdleKillsHaveEvidence` says what an idle kill
  does rest on (`watchdog_silence_claim` refutes that it is total silence), from an invariant
  about reads and the log like the one about writes.
* **`EligibilityProofs`**: `TypeCorrect`, `YesIsRecent`, `RefreshAllOrNothing`.
  `YesIsRecent` rests on two facts: what qualifies now is in `recent`, and in `during` while there is a
  refresh (`LatelyQualified`); and a match on its way is of a repository that was (`Justified`). The
  last needs what each page still owes: every repository present when the refresh began is in
  the new cache, on the page at hand or on a later one.
* **`ServiceProofs`**: `TypeCorrect`, `GitIsAlone`, `DispatchesHaveClones`, `PollIsServed`. The
  invariant says that a request at git holds the lock (`Locked`), that a partial tree is
  being cloned by the holder or is unfinished (`Cloned`), and what each phase of the
  lifespan excludes (`Phases`). The lemma behind it, `SoundKept`: a worktree that is complete
  or unfinished stays so, since only an abandoned clone can still remove a
  directory others use. What `DispatchesHaveClones` does not exclude is the unfinished clone
  itself: the code dispatches into it.
* **`ServiceLifecycleProofs`**: `LocksAlwaysServe`: the holder of a lock is there to release it,
  and who awaits it holds it or is in its queue once; inductive with `IInv`. From it
  `LocksAreFifo`. A second invariant, `LifespanKnows`, says for each phase whether the dispatcher
  is closed, that nothing is pending once it has drained and nobody waits once the lifespan
  is over, and that the poll task is one request: `StoppedForGood` and `NobodyLeftWaiting`. The
  deliveries, which nobody cancels, are the difficulty: they come out of git at any time.
* **`PollingProofs`**: `PolledYesIsRecent` and `PolledRefreshAllOrNothing`, by the theorems about
  `Eligibility`, whose steps the loop takes (`UsesEligibility`); `PollTypeCorrect`, which ties the
  position of the loop to what the checker is doing for it; and `PollsAreEligible`, which
  rests on the two: the repository in hand was a "yes" of the cache when it was chosen, and a
  refresh, after which that could be too old, does not happen while it is in hand.
* **`IssueQueueProofs`**: `TypeCorrect`; `SuccessIsTrue`, `NothingForgotten` and `WorkIsTrue`
  from one invariant (`OwedOK`, `WorkOK`, `EarnedOK`) that says for each place in the program
  which labels its sentinel still answers for: `Committed` places hold an issue that is owed,
  `AtWork` places one that may be labelled in progress, and a sentinel about to report
  success has earned it. `BoardImplemented` needs besides that a sentinel's list and its claim in
  progress contain nothing it already took (`TakenOK`).
* **`ServerBootProofs`**: `TypeCorrect`, `PidfileIsTrue`, `EntryHoldsServer`. The invariant has
  a part that always holds (`Own`: what a shell means by a number of its own is no stranger's)
  and one that holds until starts overlap or are cut off (`Undisturbed`): there is one start at
  a time (`OneStart`), a server is named by the pidfile or by the start about to write
  it (`Named`), a start means the process its pidfile names (`Meant`), and what the entrypoint
  reads and watches is not a stranger (`EntryOwn`).

### Liveness

The provers do not reason about `ENABLED`, so a theorem cannot start from `WF_vars(A)`. It
starts from `[]<>~G \/ []<><<A>>_vars`, which is weak fairness with a guard `G` written out in
place of `ENABLED <<A>>_vars`. That each fair specification implies the premises used is
checked with TLC on the instances of the runs; the guards are short and stand next to the
premises (`ScriptMayStep`, `StartMayStep`, `WorkerMayStep` and so on). Three premises are not of one
action: `ChildrenWatched` is about the wrapper that is awaited, which is the same one as long
as it is awaited, so that it follows from the fairness of each `LeaderReaped(j)`; `LoopRuns` is
the ready queue of asyncio, first in, first out; and `CallersResume` says that the event loop
gets through the callers whose call has been settled (finitely many, each resumes once).

The argument is the same everywhere. A fixed, small number of steps is counted down
(`StepsLeft`, `Turns`, `HoldLeft`, `ToEnd`, `Left`): no step of anybody raises it and each step of
the actor in question lowers it; temporal logic does the rest.

| Theorem (property of a run) | Shows | From fairness of |
|---|---|---|
| `EveryJobEnds`, `StopEnds` (`StopTerminates`) | each job the worker takes ends, `stop()` returns | worker, child watcher, `stop()`, ready queue; not the processes |
| `DeadClientEndsScript`, `VerdictEndsScript` | the script ends once the client has or a verdict is given, with tailers half started too | the script |
| `LocksAreReleased` | every holder of a worktree's lock lets go | requests that were handed it, git |
| `ShutdownEnds` (`ShutdownCompletes`) | the lifespan ends | lifespan, callers; not git |
| `SigTermHeeded` (`SigTermEnds`) | a sentinel ends after SIGTERM; `WindsDown` is its safety part | the sentinel, while killed commands let go of their pipe |
| `StartsEnd` (`StartEnds`) | every start of the server ends; `StartsAdvance` is its safety part | shells; no server wedged for ever |
| `DeploymentRecovers` (`Recovers`) | compose comes back to a watched, serving server | shells, entrypoint, docker, when `Calm` |

`DeploymentRecovers` follows what runs until PID 1 watches a serving server or the container goes
down, and then the one start after that (`CleanStart`), which finds no server and starts its
own. It needs two process numbers: with a single one a stranger may have it at each start,
as TLC finds.

Only model-checked, besides the violated claims: `CallsAreSettled`, `Terminates`, `RequestsEnd`,
`QueueMoves`, `WrongNoHeals` and `StaleYesHeals`. Each needs an induction over something without a fixed bound
(the position in a queue, the clock below the ceiling, the issues of a list, the pages of a
listing), and an induction whose hypothesis is a temporal formula is out of the proof system's
reach. What they rest on is proved in part: calls are served in order (`ServedInOrder`) and
each job before one ends (`EveryJobEnds`); the waiters of a lock keep their order (`LocksAreFifo`)
and its holders let go (`LocksAreReleased`); every step of the watchdog script lowers a measure in the
naturals (`RunGoesDown`), so that it cannot move for ever; and a completed refresh holds every
repository eligible that qualified throughout it (`RefreshAllOrNothing`).

## Not modelled, and why

Prompt text, HMAC and payload validation, secret scrubbing, log filtering and trace
tools compute a value and keep no state. The PowerShell files are ports of the shell scripts
that the containers run. Labels, their priorities and the order of search results are
abstracted to "any issue": the poll loop takes one issue per poll in GitHub's order, and what
keeps an issue with a lasting label from starving the others is the orchestrator's relabelling,
which is not code of this repository. The time a job, a poll or a request takes, and with it
the growth of the backoff, is abstracted everywhere but in the watchdog. In compose the client container cannot see the server's `/proc` entry
or log; the watchdog model contains that case (counters never readable, no log), where only
the client's output counts.

In `IssueQueue`: comments and heartbeats, which nothing reads; a request that takes effect only
after its exception; the notifier's HTTP answer, which does not depend on whether its label
request succeeded. In `ServerBoot`: a pidfile cut off in the middle of its write; zombies and
a SIGKILL that has not taken effect yet; the 10 s of docker stop against the 30 s of the
shutdown are one nondeterministic end (`ContainerDies` may come at any time). The remaining
subcommands of `devcontainer-opencode.sh` run one command after the other.

The failure handler (`on-failure-handler.sh`, `post-failure-comment.sh`) runs once per failed
job, nothing runs beside it and it keeps nothing. Worth knowing when it is changed: it looks
for a comment of *any* earlier failed run of the issue before it posts its own
(`on-failure-handler.sh:58-61`), not for one of this run.

The models of the service (`models/event.py`, `plan_docs/src/models/work_item.py`), its
configuration and `trace-extract.py` are conversions without state or order; where
a decision rests on one (an event that cannot be built, a status label), the model has its
outcomes.

## Plan

Done, in the order in which the rest of the system waits for them: Dispatcher with its
abstract specification, Watchdog, Eligibility, Service, IssueQueue with its abstract
specification, ServerBoot, Polling, each with its proofs.

Left:

1. Time in `Polling`: how long a rate limit delays the refresh, with the doubling of the
   backoff and its cap.
2. A composition of `ServerBoot` with the wrapper: a server replaced while a client is
   attached to it, and the pidfile the watchdog reads in every sample.
3. A larger instance of `IssueQueue` in which the listing has a second page.
