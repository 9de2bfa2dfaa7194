------------------------------ MODULE Service ------------------------------
(***************************************************************************)
(* src/main.py with the components it wires together: the webhook handlers *)
(* of event_router.py, the poll task of sentinel.py, WorktreeManager and   *)
(* the dispatcher.  Every accepted delivery and every poll that finds an   *)
(* issue is a request: it prepares the issue's worktree under the          *)
(* worktree's lock, then awaits dispatch().  The lifespan starts and stops *)
(* the components; the process may also die at any time and be restarted,  *)
(* with the worktrees as it left them (the git_repos volume).              *)
(*                                                                         *)
(* The dispatcher is taken as SequentialDispatch, which Dispatcher.tla is  *)
(* proved to implement.  asyncio.Lock is a holder and a FIFO of waiters.   *)
(* Eligibility and labels are abstracted: an event may be about any issue, *)
(* a poll may find any issue or none.  The numbers of deliveries and of    *)
(* polls that find an issue are bounded.                                   *)
(***************************************************************************)
EXTENDS Sequences, SequencesExt

CONSTANTS Deliveries,   \* webhook deliveries, each made once
          Polls,        \* polls that find an issue
          Issues,
          Worktrees,
          WorktreeOf,   \* resolve(): the worktree of each issue
          NoIssue,
          NoRequest

ASSUME RequestAssumption ==
    /\ Deliveries \cap Polls = {}
    /\ NoRequest \notin Deliveries \cup Polls
ASSUME WorktreeAssumption ==
    /\ WorktreeOf \in [Issues -> Worktrees]
    /\ NoIssue \notin Issues

VARIABLES
    phase,        \* where the lifespan stands
    at,           \* where each request stands
    about,        \* its issue
    holder,       \* the request that has each worktree's lock
    waiting,      \* the requests waiting for it
    git,          \* the git process a request has started, while it runs
    tree,         \* what is on disk
    unfinished,   \* worktrees left with a clone that did not succeed (history)
    \* --- the dispatcher
    line, current, outcome, closed

lockVars     == <<holder, waiting>>
diskVars     == <<git, tree, unfinished>>
dispatchVars == <<line, current, outcome, closed>>
vars == <<phase, at, about, lockVars, diskVars, dispatchVars>>

Requests == Deliveries \cup Polls

SD == INSTANCE SequentialDispatch WITH Jobs <- Requests, NoJob <- NoRequest

Active(r) == at[r] \in {"lock", "git", "dispatch"}
Path(r)   == WorktreeOf[about[r]]

TypeOK ==
    /\ phase \in {"down", "up", "stopping", "closing", "drained", "off"}
    /\ at \in [Requests -> {"none", "lock", "git", "dispatch",
                            "done", "failed", "refused", "cancelled", "lost"}]
    /\ about \in [Requests -> Issues \cup {NoIssue}]
    /\ holder \in [Worktrees -> Requests \cup {NoRequest}]
    /\ waiting \in [Worktrees -> Seq(Requests)]
    /\ \A w \in Worktrees : holder[w] = NoRequest => waiting[w] = <<>>
    /\ git \in [Requests -> {"none", "clone", "fetch", "pull"}]
    /\ tree \in [Worktrees -> {"absent", "partial", "complete"}]
    /\ unfinished \subseteq Worktrees
    /\ line \in Seq(Requests)
    /\ current \in Requests \cup {NoRequest}
    /\ outcome \in [Requests -> SD!Outcomes]
    /\ closed \in BOOLEAN

Init ==
    /\ phase = "down"
    /\ at = [r \in Requests |-> "none"]
    /\ about = [r \in Requests |-> NoIssue]
    /\ holder = [w \in Worktrees |-> NoRequest]
    /\ waiting = [w \in Worktrees |-> <<>>]
    /\ git = [r \in Requests |-> "none"]
    /\ tree = [w \in Worktrees |-> "absent"]
    /\ unfinished = {}
    /\ SD!Init

-----------------------------------------------------------------------------
(* ensure_ready: one git command after the other, under the lock.          *)

\* With the lock: `git clone` if there is no directory, else `git fetch`.
StartGit(r, w) ==
    /\ git' = [git EXCEPT ![r] = IF tree[w] = "absent" THEN "clone" ELSE "fetch"]
    /\ tree' = [tree EXCEPT ![w] = IF @ = "absent" THEN "partial" ELSE @]
    /\ at' = [at EXCEPT ![r] = "git"]
    /\ UNCHANGED unfinished

\* BUG: _get_lock does not keep the lock it creates.
EnterUnlocked(r, i) ==
    LET w == WorktreeOf[i]
    IN  /\ about' = [about EXCEPT ![r] = i]
        /\ holder' = [holder EXCEPT ![w] = r]
        /\ StartGit(r, w)
        /\ UNCHANGED waiting

\* A request about issue i resolves its worktree and takes or awaits the lock.
Enter(r, i) ==
    LET w == WorktreeOf[i]
    IN  /\ about' = [about EXCEPT ![r] = i]
        /\ IF holder[w] = NoRequest
           THEN /\ holder' = [holder EXCEPT ![w] = r]
                /\ StartGit(r, w)
                /\ UNCHANGED waiting
           ELSE /\ waiting' = [waiting EXCEPT ![w] = Append(@, r)]
                /\ at' = [at EXCEPT ![r] = "lock"]
                /\ UNCHANGED <<holder, diskVars>>

\* The lock was handed to r while it waited.
Acquire(r) ==
    /\ at[r] = "lock"
    /\ holder[Path(r)] = r
    /\ StartGit(r, Path(r))
    /\ UNCHANGED <<phase, about, lockVars, dispatchVars>>

\* BUG: the release wakes nobody.
ReleaseQuietly(w) == holder' = [holder EXCEPT ![w] = NoRequest] /\ UNCHANGED waiting

\* The lock passes to the first waiter.
Release(w) ==
    IF waiting[w] = <<>>
    THEN holder' = [holder EXCEPT ![w] = NoRequest] /\ UNCHANGED waiting
    ELSE /\ holder' = [holder EXCEPT ![w] = Head(waiting[w])]
         /\ waiting' = [waiting EXCEPT ![w] = Tail(@)]

\* ensure_ready returns and the lock is free; assemble() writes the prompt or
\* raises, and dispatch() is called, which refuses once the dispatcher is stopping.
Proceed(r) ==
    /\ Release(Path(r))
    /\ \/ at' = [at EXCEPT ![r] = "failed"] /\ UNCHANGED dispatchVars
       \/ closed /\ at' = [at EXCEPT ![r] = "refused"] /\ UNCHANGED dispatchVars
       \/ ~closed /\ at' = [at EXCEPT ![r] = "dispatch"] /\ SD!Submit(r)

\* BUG: the exception leaves the lock behind.
GiveUpLocked(r) ==
    /\ at' = [at EXCEPT ![r] = "failed"]
    /\ UNCHANGED <<lockVars, dispatchVars>>

\* An exception leaves ensure_ready; `async with` frees the lock.
GiveUp(r) ==
    /\ Release(Path(r))
    /\ at' = [at EXCEPT ![r] = "failed"]
    /\ UNCHANGED dispatchVars

\* git clone ends.  If it fails it may remove its directory, but it keeps it if only
\* the checkout failed, or if it was killed; _clone does not clean up either.
CloneEnds(w, ok) ==
    \/ ok /\ tree' = [tree EXCEPT ![w] = "complete"] /\ UNCHANGED unfinished
    \/ ~ok /\ tree' = [tree EXCEPT ![w] = "absent"] /\ UNCHANGED unfinished
    \/ ~ok /\ tree' = [tree EXCEPT ![w] = "partial"] /\ unfinished' = unfinished \cup {w}

\* What the end of a git process does to the disk.  A pull may complete what a clone
\* has left unfinished.
OnDisk(r, ok) ==
    /\ git' = [git EXCEPT ![r] = "none"]
    /\ \/ git[r] = "clone" /\ CloneEnds(Path(r), ok)
       \/ git[r] = "pull" /\ ok /\ tree' = [tree EXCEPT ![Path(r)] = "complete"]
                                /\ UNCHANGED unfinished
       \/ git[r] /= "clone" /\ UNCHANGED <<tree, unfinished>>

\* BUG: no look at the exit code of git clone.
CloneReturnsUnchecked(r) ==
    /\ at[r] = "git"
    /\ git[r] = "clone"
    /\ \E ok \in BOOLEAN : OnDisk(r, ok) /\ Proceed(r)
    /\ UNCHANGED <<phase, about>>

\* git clone returns to the request: its failure is raised.
CloneReturns(r) ==
    /\ at[r] = "git"
    /\ git[r] = "clone"
    /\ \/ OnDisk(r, TRUE) /\ Proceed(r)
       \/ OnDisk(r, FALSE) /\ GiveUp(r)
    /\ UNCHANGED <<phase, about>>

\* git fetch returns: on to the pull, unless it failed, which is only logged.
FetchReturns(r) ==
    /\ at[r] = "git"
    /\ git[r] = "fetch"
    /\ \/ /\ git' = [git EXCEPT ![r] = "pull"]
          /\ UNCHANGED <<at, tree, unfinished, lockVars, dispatchVars>>
       \/ OnDisk(r, FALSE) /\ Proceed(r)
    /\ UNCHANGED <<phase, about>>

PullReturns(r) ==
    /\ at[r] = "git"
    /\ git[r] = "pull"
    /\ \E ok \in BOOLEAN : OnDisk(r, ok) /\ Proceed(r)
    /\ UNCHANGED <<phase, about>>

\* create_subprocess_exec raises for git fetch or pull.
PrepareFails(r) ==
    /\ at[r] = "git"
    /\ git[r] \in {"fetch", "pull"}
    /\ OnDisk(r, FALSE)
    /\ GiveUp(r)
    /\ UNCHANGED <<phase, about>>

\* A git process whose request was cancelled runs on by itself.
OrphanExits(r) ==
    /\ at[r] /= "git"
    /\ git[r] /= "none"
    /\ \E ok \in BOOLEAN : OnDisk(r, ok)
    /\ UNCHANGED <<phase, at, about, lockVars, dispatchVars>>

-----------------------------------------------------------------------------
(* The webhook handler and the poll task.                                  *)

\* A delivery passes the handler's checks and its background task starts.
Accept(d, i) ==
    /\ phase = "up"
    /\ at[d] = "none"
    /\ Enter(d, i)
    /\ UNCHANGED <<phase, dispatchVars>>

\* The poll task handles one issue at a time, and the next one a poll later.
Poll(p, i) ==
    /\ phase = "up"
    /\ at[p] = "none"
    /\ \A q \in Polls : ~Active(q)
    /\ Enter(p, i)
    /\ UNCHANGED <<phase, dispatchVars>>

\* The dispatcher at work, and the request resuming with what became of its call.
DispatcherStep == (SD!Begin \/ SD!Fail \/ SD!Finish) /\ UNCHANGED <<phase, at, about, lockVars, diskVars>>

Answered(r) ==
    /\ at[r] = "dispatch"
    /\ outcome[r] /= "pending"
    /\ at' = [at EXCEPT ![r] = CASE outcome[r] = "exception" -> "failed"
                                 [] outcome[r] = "cancelled" -> "cancelled"
                                 [] OTHER                    -> "done"]
    /\ UNCHANGED <<phase, about, lockVars, diskVars, dispatchVars>>

-----------------------------------------------------------------------------
(* The lifespan.                                                           *)

Start ==
    /\ phase = "down"
    /\ phase' = "up"
    /\ UNCHANGED <<at, about, lockVars, diskVars, dispatchVars>>

\* CancelledError reaches request r wherever it stands; a running git is not
\* killed, and a call of dispatch() keeps its place in the dispatcher.
Cancel(r) ==
    /\ at' = [at EXCEPT ![r] = "cancelled"]
    /\ IF at[r] = "dispatch"
       THEN /\ UNCHANGED lockVars
            /\ IF outcome[r] = "pending" THEN SD!Withdraw(r) ELSE UNCHANGED dispatchVars
       ELSE /\ IF holder[Path(r)] = r
               THEN Release(Path(r))
               ELSE /\ \E n \in DOMAIN waiting[Path(r)] :
                          /\ waiting[Path(r)][n] = r
                          /\ waiting' = [waiting EXCEPT ![Path(r)] = RemoveAt(@, n)]
                    /\ UNCHANGED holder
            /\ UNCHANGED dispatchVars
    /\ unfinished' = IF git[r] = "clone" THEN unfinished \cup {Path(r)} ELSE unfinished
    /\ UNCHANGED <<git, tree>>

\* BUG: dispatcher.stop() before sentinel.stop().
ShutdownDispatcherFirst ==
    /\ phase = "up"
    /\ phase' = "stopping"
    /\ closed' = TRUE
    /\ UNCHANGED <<at, about, lockVars, diskVars, line, current, outcome>>

\* BUG: await the poll task without cancelling it.
ShutdownWaiting ==
    /\ phase = "up"
    /\ phase' = "stopping"
    /\ UNCHANGED <<at, about, lockVars, diskVars, dispatchVars>>

\* sentinel.stop(): the poll task is cancelled in the middle of its request, if
\* it has one.
Shutdown ==
    /\ phase = "up"
    /\ phase' = "stopping"
    /\ \/ \E p \in Polls : Active(p) /\ Cancel(p)
       \/ /\ \A p \in Polls : ~Active(p)
          /\ UNCHANGED <<at, lockVars, diskVars, dispatchVars>>
    /\ UNCHANGED about

\* The poll task has ended: dispatcher.stop() closes the dispatcher ...
StopDispatcher ==
    /\ phase = "stopping"
    /\ \A p \in Polls : ~Active(p)
    /\ phase' = "closing"
    /\ SD!Close
    /\ UNCHANGED <<at, about, lockVars, diskVars>>

\* ... has the running call aborted, then cancels the others ...
DispatcherAborts ==
    /\ phase = "closing"
    /\ SD!Abort
    /\ UNCHANGED <<phase, at, about, lockVars, diskVars>>

DispatcherDrains ==
    /\ phase = "closing"
    /\ SD!CancelRest
    /\ phase' = "drained"
    /\ UNCHANGED <<at, about, lockVars, diskVars>>

\* ... and returns when their callers have been told.
LifespanEnds ==
    /\ phase = "drained"
    /\ \A r \in Requests : at[r] /= "dispatch"
    /\ phase' = "off"
    /\ UNCHANGED <<at, about, lockVars, diskVars, dispatchVars>>

\* The process ends, by a crash or after the lifespan, and every process of its
\* container with it; only the worktrees stay.
ProcessEnds ==
    /\ phase /= "down"
    /\ phase' = "down"
    /\ at' = [r \in Requests |-> IF Active(r) THEN "lost" ELSE at[r]]
    /\ holder' = [w \in Worktrees |-> NoRequest]
    /\ waiting' = [w \in Worktrees |-> <<>>]
    /\ git' = [r \in Requests |-> "none"]
    /\ unfinished' = unfinished \cup {Path(r) : r \in {s \in Requests : git[s] = "clone"}}
    /\ line' = <<>>
    /\ current' = NoRequest
    /\ outcome' = [r \in Requests |-> IF outcome[r] = "pending" THEN "cancelled" ELSE outcome[r]]
    /\ closed' = FALSE
    /\ UNCHANGED <<about, tree>>

-----------------------------------------------------------------------------
GitReturns(r) == CloneReturns(r) \/ FetchReturns(r) \/ PullReturns(r)

LifespanStep == StopDispatcher \/ DispatcherAborts \/ DispatcherDrains \/ LifespanEnds

Next ==
    \/ \E r \in Requests : Acquire(r) \/ GitReturns(r) \/ PrepareFails(r) \/ OrphanExits(r)
                           \/ Answered(r)
    \/ \E i \in Issues : \/ \E d \in Deliveries : Accept(d, i)
                         \/ \E p \in Polls : Poll(p, i)
    \/ DispatcherStep
    \/ Start \/ Shutdown \/ LifespanStep \/ ProcessEnds

Spec == Init /\ [][Next]_vars

(***************************************************************************)
(* Fairness: the event loop runs what can run, and the dispatcher settles  *)
(* its calls (CallsAreSettled and StopTerminates of Dispatcher.tla).  git  *)
(* has no timeout: that it returns is an assumption made only where it is  *)
(* needed.                                                                 *)
(***************************************************************************)
Fairness ==
    /\ WF_vars(DispatcherStep)
    /\ WF_vars(LifespanStep)
    /\ \A r \in Requests : WF_vars(Acquire(r)) /\ WF_vars(Answered(r))

FairSpec == Spec /\ Fairness

GitIsFair == \A r \in Requests : WF_vars(GitReturns(r))

-----------------------------------------------------------------------------
(* Properties.                                                             *)

\* WorktreeManager runs one git operation at a time in a worktree, however requests
\* arrive, fail and are cancelled.  The only git that can run beside another's is one that
\* the shutdown has left behind, by cancelling its request.
GitAlone ==
    \A r, s \in Requests :
        git[r] /= "none" /\ git[s] /= "none" /\ Path(r) = Path(s) /\ r /= s =>
            phase /= "up" /\ {at[r], at[s]} /= {"git"}

\* Nothing is dispatched into a worktree that is absent or being cloned: its clone is
\* complete, unless one that failed, or was cut off, has left its directory behind,
\* which the next request takes for a clone.  Nothing else breaks a worktree.
DispatchNeedsClone ==
    \A r \in Requests :
        outcome[r] /= "none" => tree[Path(r)] = "complete" \/ Path(r) \in unfinished

\* The lifespan stops the components in the right order: the poll task never
\* meets a dispatcher that refuses it.
PollNeverRefused == \A p \in Polls : at[p] /= "refused"

\* Every request comes to an end, in whatever order they queue for the lock and
\* whichever of them fail or are cancelled, provided git returns.
RequestsEnd == GitIsFair => \A r \in Requests : Active(r) ~> ~Active(r)

\* A shutdown completes even if git hangs.
ShutdownCompletes == phase = "stopping" ~> phase \in {"off", "down"}

\* The migration plan's criterion for webhooks and polling in one process, no race
\* of the two on the same issue: its dispatches from both are never pending together.
NoDuplicateWork ==
    \A d \in Deliveries, p \in Polls :
        outcome[d] = "pending" /\ outcome[p] = "pending" => about[d] /= about[p]
=============================================================================
