----------------------------- MODULE IssueQueue -----------------------------
(***************************************************************************)
(* The issue-queue sentinel of plan_docs/src: orchestrator_sentinel.py and *)
(* queue/github_queue.py.  Issues labelled agent:queued are the queue;     *)
(* each sentinel lists them, claims one (assign, verify, swap the labels,  *)
(* comment), runs its bridge commands and reports the status as a label.   *)
(* Several sentinels do so at once and know of each other only through the *)
(* labels and assignees on GitHub.                                         *)
(*                                                                         *)
(* Every request is a step of its own.  When GitHub is down or limits the  *)
(* rate, a request is refused, or raises with its change made or not.  A   *)
(* sentinel may crash between any two steps and be restarted, and SIGTERM  *)
(* may set its flag at any time.  Comments and heartbeats, which nothing   *)
(* reads, and the length of the waits are left out.  Issues are numbered   *)
(* in the order of their creation.  taken, owed, earned and dropped are    *)
(* history variables, used by the properties alone.                        *)
(***************************************************************************)
EXTENDS Naturals, FiniteSets

CONSTANTS Sentinels,
          Issues,        \* issue numbers
          Unassignable,  \* issues on which GitHub ignores a new assignee
          Logins,
          LoginOf,       \* SENTINEL_BOT_LOGIN of each sentinel
          NoLogin,       \* "not set": the claim is made without the lock
          NoIssue,
          PageSize,      \* issues per page of the listing
          MaxQueuings,   \* bound on how often issues are queued
          MaxMishaps     \* bound on the crashes, SIGTERMs and failed requests

ASSUME IssueAssumption ==
    /\ Issues \subseteq Nat
    /\ NoIssue \notin Issues
ASSUME LoginAssumption == LoginOf \in [Sentinels -> Logins \cup {NoLogin}]

VARIABLES
    \* --- GitHub
    labels,     \* agent: labels of each issue
    assignees,  \* bots assigned to each issue
    queuings,   \* how often agent:queued was added
    mishaps,    \* how many crashes, SIGTERMs and failed requests there were
    \* --- the sentinels
    pc,         \* what each sentinel awaits
    found,      \* the rest of its `tasks`
    work,       \* `task`
    killed,     \* its bridge command was killed after the timeout
    verdict,    \* the status it reports
    again,      \* that report is the one of the except clause
    flagged,    \* _shutdown_requested
    \* --- history
    taken,      \* issues each sentinel claimed since they were last queued
    owed,       \* issues queued and not reported since
    earned,     \* issues on which a prompt has succeeded
    dropped     \* issues a crash or a failed request may have left behind

worldVars   == <<labels, assignees, queuings, mishaps>>
controlVars == <<pc, found, work, killed, verdict, again>>
history     == <<taken, owed, earned, dropped>>
vars == <<worldVars, controlVars, flagged, history>>

Statuses == {"success", "error", "infra-failure"}
Labels   == {"queued", "in-progress"} \cup Statuses
Commands == {"up", "start", "prompt", "stop"}
Reports  == {"tidy", "status", "tell"}
Claiming == {"assign", "verify", "unlabel"}

\* The sentinel has taken its issue out of the queue.
InHand == {"label", "announce"} \cup Commands \cup Reports

Holding(s) == pc[s] \in InHand

TypeOK ==
    /\ labels \in [Issues -> SUBSET Labels]
    /\ assignees \in [Issues -> SUBSET Logins]
    /\ queuings \in Nat
    /\ mishaps \in Nat
    /\ pc \in [Sentinels -> {"off", "sleep"} \cup Claiming \cup InHand]
    /\ found \in [Sentinels -> SUBSET Issues]
    /\ work \in [Sentinels -> Issues \cup {NoIssue}]
    /\ killed \in [Sentinels -> BOOLEAN]
    /\ verdict \in [Sentinels -> Statuses \cup {"none"}]
    /\ again \in [Sentinels -> BOOLEAN]
    /\ flagged \in [Sentinels -> BOOLEAN]
    /\ taken \in [Sentinels -> SUBSET Issues]
    /\ owed \subseteq Issues
    /\ earned \subseteq Issues
    /\ dropped \subseteq Issues
    /\ \A s \in Sentinels : pc[s] \in Claiming \cup InHand <=> work[s] /= NoIssue
    /\ \A s \in Sentinels : pc[s] \in Reports <=> verdict[s] /= "none"
    /\ \A s \in Sentinels : pc[s] \in {"assign", "verify"} => LoginOf[s] /= NoLogin

Init ==
    /\ labels = [i \in Issues |-> {}]
    /\ assignees = [i \in Issues |-> {}]
    /\ queuings = 0
    /\ mishaps = 0
    /\ pc = [s \in Sentinels |-> "off"]
    /\ found = [s \in Sentinels |-> {}]
    /\ work = [s \in Sentinels |-> NoIssue]
    /\ killed = [s \in Sentinels |-> FALSE]
    /\ verdict = [s \in Sentinels |-> "none"]
    /\ again = [s \in Sentinels |-> FALSE]
    /\ flagged = [s \in Sentinels |-> FALSE]
    /\ taken = [s \in Sentinels |-> {}]
    /\ owed = {}
    /\ earned = {}
    /\ dropped = {}

-----------------------------------------------------------------------------
(* GitHub and those who queue work.                                        *)

\* The notifier's add_to_queue, or a user, adds agent:queued to an issue.
AddToQueue(i) ==
    /\ queuings < MaxQueuings
    /\ "queued" \notin labels[i]
    /\ labels' = [labels EXCEPT ![i] = @ \cup {"queued"}]
    /\ queuings' = queuings + 1
    /\ owed' = owed \cup {i}
    /\ taken' = [s \in Sentinels |-> taken[s] \ {i}]
    /\ UNCHANGED <<assignees, mishaps, controlVars, flagged, earned, dropped>>

Mishap ==
    /\ mishaps < MaxMishaps
    /\ mishaps' = mishaps + 1

Answers == {"ok", "refused", "raised"}

\* How a request ends: the change is made or not, and the answer is a 2xx, another
\* status, or an exception (a timeout, a lost connection).
Request(made, answer) ==
    /\ answer = "ok" => made
    /\ answer = "refused" => ~made
    /\ IF answer = "ok" THEN UNCHANGED mishaps ELSE Mishap

-----------------------------------------------------------------------------
(* run_forever.                                                            *)

\* Sentinel s goes on at p with issue i, the tasks in rest and no report.
Goto(s, p, i, rest) ==
    /\ pc' = [pc EXCEPT ![s] = p]
    /\ work' = [work EXCEPT ![s] = i]
    /\ found' = [found EXCEPT ![s] = rest]
    /\ killed' = [killed EXCEPT ![s] = FALSE]
    /\ verdict' = [verdict EXCEPT ![s] = "none"]
    /\ again' = [again EXCEPT ![s] = FALSE]

\* With the same issue.
Continue(s, p) == Goto(s, p, work[s], found[s])

\* The end of a cycle, by return or exception: sleep until the next.
Rest(s) == Goto(s, "sleep", NoIssue, {})

\* The for loop over the tasks left: the next claim, of the newest, begins, unless
\* SIGTERM came.
NextTask(s, rest) ==
    \/ (rest = {} \/ flagged[s]) /\ Rest(s)
    \/ /\ ~flagged[s]
       /\ \E i \in rest :
             /\ \A j \in rest : j <= i
             /\ Goto(s, IF LoginOf[s] = NoLogin THEN "unlabel" ELSE "assign", i, rest \ {i})

\* GitHub lists the newest issues first, and the code asks for one page.
FirstPage ==
    LET queued == {i \in Issues : "queued" \in labels[i]}
    IN  {i \in queued : Cardinality({j \in queued : j > i}) < PageSize}

\* After the sleep: `while not _shutdown_requested`, and fetch_queued_tasks.  A failed
\* request ends the cycle.
Poll(s) ==
    /\ pc[s] = "sleep"
    /\ IF flagged[s]
       THEN /\ Continue(s, "off")
            /\ flagged' = [flagged EXCEPT ![s] = FALSE]
            /\ UNCHANGED mishaps
       ELSE /\ \/ NextTask(s, FirstPage) /\ UNCHANGED mishaps
               \/ Rest(s) /\ Mishap
            /\ UNCHANGED flagged
    /\ UNCHANGED <<labels, assignees, queuings, history>>

Launch(s) ==
    /\ pc[s] = "off"
    /\ Continue(s, "sleep")
    /\ UNCHANGED <<worldVars, flagged, history>>

SigTerm(s) ==
    /\ pc[s] /= "off"
    /\ ~flagged[s]
    /\ flagged' = [flagged EXCEPT ![s] = TRUE]
    /\ Mishap
    /\ UNCHANGED <<labels, assignees, queuings, controlVars, history>>

\* The process is killed: an issue it has not reported stays as it is.
Crash(s) ==
    /\ pc[s] /= "off"
    /\ Goto(s, "off", NoIssue, {})
    /\ flagged' = [flagged EXCEPT ![s] = FALSE]
    /\ dropped' = IF pc[s] \in InHand \ {"tell", "stop"} THEN dropped \cup {work[s]} ELSE dropped
    /\ Mishap
    /\ UNCHANGED <<labels, assignees, queuings, taken, owed, earned>>

-----------------------------------------------------------------------------
(* claim_task: assign, verify, remove agent:queued, add agent:in-progress, *)
(* comment.  A refused request means "not claimed" up to the removal; after *)
(* it the answers are not looked at.  An exception ends the cycle.         *)

\* What a claim does about its issue when a request fails behind its back.
Leave(cond, s) == dropped' = IF cond THEN dropped \cup {work[s]} ELSE dropped

Assign(s, made, answer) ==
    /\ pc[s] = "assign"
    /\ assignees' = IF made /\ work[s] \notin Unassignable
                    THEN [assignees EXCEPT ![work[s]] = @ \cup {LoginOf[s]}]
                    ELSE assignees
    /\ \/ answer = "ok" /\ Continue(s, "verify")
       \/ answer = "refused" /\ NextTask(s, found[s])
       \/ answer = "raised" /\ Rest(s)
    /\ UNCHANGED <<labels, queuings, flagged, history>>

\* BUG: the first claim that fails ends the cycle.
VerifyOnce(s, answer) ==
    /\ pc[s] = "verify"
    /\ IF answer = "ok" /\ LoginOf[s] \in assignees[work[s]]
       THEN Continue(s, "unlabel")
       ELSE Rest(s)
    /\ UNCHANGED <<labels, assignees, queuings, flagged, history>>

\* The re-fetched issue lists us among its assignees, or the race was lost.
Verify(s, answer) ==
    /\ pc[s] = "verify"
    /\ LET won == answer = "ok" /\ LoginOf[s] \in assignees[work[s]]
       IN  \/ won /\ Continue(s, "unlabel")
           \/ ~won /\ answer /= "raised" /\ NextTask(s, found[s])
           \/ answer = "raised" /\ Rest(s)
    /\ UNCHANGED <<labels, assignees, queuings, flagged, history>>

\* BUG: do not look at the answer to the removal.
UnlabelAnyway(s, made, answer) ==
    /\ pc[s] = "unlabel"
    /\ labels' = IF made THEN [labels EXCEPT ![work[s]] = @ \ {"queued"}] ELSE labels
    /\ IF answer = "raised" THEN Rest(s) ELSE Continue(s, "label")
    /\ taken' = IF answer /= "raised" THEN [taken EXCEPT ![s] = @ \cup {work[s]}] ELSE taken
    /\ Leave(answer = "raised" /\ made, s)
    /\ UNCHANGED <<assignees, queuings, flagged, owed, earned>>

\* From here on the issue is ours.  A 404, somebody else was faster, is fine too.
Unlabel(s, made, answer) ==
    /\ pc[s] = "unlabel"
    /\ labels' = IF made THEN [labels EXCEPT ![work[s]] = @ \ {"queued"}] ELSE labels
    /\ \/ answer = "ok" /\ Continue(s, "label")
       \/ answer = "refused" /\ NextTask(s, found[s])
       \/ answer = "raised" /\ Rest(s)
    /\ taken' = IF answer = "ok" THEN [taken EXCEPT ![s] = @ \cup {work[s]}] ELSE taken
    /\ Leave(answer = "raised" /\ made, s)
    /\ UNCHANGED <<assignees, queuings, flagged, owed, earned>>

Label(s, made, answer) ==
    /\ pc[s] = "label"
    /\ labels' = IF made THEN [labels EXCEPT ![work[s]] = @ \cup {"in-progress"}] ELSE labels
    /\ IF answer = "raised" THEN Rest(s) ELSE Continue(s, "announce")
    /\ Leave(answer = "raised", s)
    /\ UNCHANGED <<assignees, queuings, flagged, taken, owed, earned>>

\* BUG: look at the shutdown flag once more before the work on the claimed task.
AnnounceUnlessFlagged(s, answer) ==
    /\ pc[s] = "announce"
    /\ IF answer = "raised" \/ flagged[s] THEN Rest(s) ELSE Goto(s, "up", work[s], {})
    /\ Leave(answer = "raised", s)
    /\ UNCHANGED <<labels, assignees, queuings, flagged, taken, owed, earned>>

\* The claim comment; then claim_task returns True and process_task begins.
Announce(s, answer) ==
    /\ pc[s] = "announce"
    /\ IF answer = "raised" THEN Rest(s) ELSE Goto(s, "up", work[s], {})
    /\ Leave(answer = "raised", s)
    /\ UNCHANGED <<labels, assignees, queuings, flagged, taken, owed, earned>>

-----------------------------------------------------------------------------
(* process_task and run_shell_command.                                     *)

\* update_status begins; excepted: it is called by the except clause.
Report(s, v, excepted) ==
    /\ pc' = [pc EXCEPT ![s] = "tidy"]
    /\ killed' = [killed EXCEPT ![s] = FALSE]
    /\ verdict' = [verdict EXCEPT ![s] = v]
    /\ again' = [again EXCEPT ![s] = excepted]
    /\ UNCHANGED <<work, found>>

\* The next request of update_status.
Onward(s, p) ==
    /\ pc' = [pc EXCEPT ![s] = p]
    /\ UNCHANGED <<work, found, killed, verdict, again>>

\* A command has returned: on to the next, or to the report.
Returned(s, success) ==
    \/ pc[s] = "up" /\ success /\ Continue(s, "start")
    \/ pc[s] = "start" /\ success /\ Continue(s, "prompt")
    \/ pc[s] \in {"up", "start"} /\ ~success /\ Report(s, "infra-failure", FALSE)
    \/ pc[s] = "prompt" /\ Report(s, IF success THEN "success" ELSE "error", FALSE)
    \/ pc[s] = "stop" /\ Rest(s)

\* BUG: take the exit code also of a command that was killed.
CommandReturnsKilled(s) ==
    /\ pc[s] \in Commands
    /\ \E success \in BOOLEAN :
          /\ Returned(s, success)
          /\ earned' = IF pc[s] = "prompt" /\ success /\ ~killed[s]
                       THEN earned \cup {work[s]} ELSE earned
    /\ UNCHANGED <<worldVars, flagged, taken, owed, dropped>>

\* communicate() returns, when the command has exited and nobody holds its stdout, with
\* the exit code, or -1 if it was killed.
CommandReturns(s) ==
    /\ pc[s] \in Commands
    /\ \E success \in BOOLEAN :
          /\ success => ~killed[s]
          /\ Returned(s, success)
          /\ earned' = IF pc[s] = "prompt" /\ success THEN earned \cup {work[s]} ELSE earned
    /\ UNCHANGED <<worldVars, flagged, taken, owed, dropped>>

\* BUG: no timeout for the prompt.
CommandTimesOutUnlessPrompt(s) ==
    /\ pc[s] \in Commands \ {"prompt"}
    /\ ~killed[s]
    /\ killed' = [killed EXCEPT ![s] = TRUE]
    /\ UNCHANGED <<worldVars, pc, found, work, verdict, again, flagged, history>>

\* The timeout: process.kill(), then communicate() again, without a limit.
CommandTimesOut(s) ==
    /\ pc[s] \in Commands
    /\ ~killed[s]
    /\ killed' = [killed EXCEPT ![s] = TRUE]
    /\ UNCHANGED <<worldVars, pc, found, work, verdict, again, flagged, history>>

\* create_subprocess_exec raises: the except clause reports it, except for `stop`.
CommandRaises(s) ==
    /\ pc[s] \in Commands
    /\ ~killed[s]
    /\ IF pc[s] = "stop" THEN Rest(s) ELSE Report(s, "infra-failure", TRUE)
    /\ UNCHANGED <<worldVars, flagged, history>>

\* BUG: the except clause only logs.
RaisedUnreported(s) == Continue(s, "stop")

\* BUG: the second exception leaves with its report open.
RaisedOpen(s) == IF again[s] THEN Onward(s, "stop") ELSE Report(s, "infra-failure", TRUE)

\* An exception in update_status: caught once, and reported as a failure; the second
\* one leaves process_task by way of its finally clause.
Raised(s) == IF again[s] THEN Continue(s, "stop") ELSE Report(s, "infra-failure", TRUE)

\* update_status: remove agent:in-progress, add the status, comment.  Only an
\* exception matters to it.
Tidy(s, made, answer) ==
    /\ pc[s] = "tidy"
    /\ labels' = IF made THEN [labels EXCEPT ![work[s]] = @ \ {"in-progress"}] ELSE labels
    /\ IF answer = "raised" THEN Raised(s) ELSE Onward(s, "status")
    /\ Leave(answer = "refused" \/ (answer = "raised" /\ again[s]), s)
    /\ UNCHANGED <<assignees, queuings, flagged, taken, owed, earned>>

Status(s, made, answer) ==
    /\ pc[s] = "status"
    /\ labels' = IF made THEN [labels EXCEPT ![work[s]] = @ \cup {verdict[s]}] ELSE labels
    /\ IF answer = "raised" THEN Raised(s) ELSE Onward(s, "tell")
    /\ owed' = IF made THEN owed \ {work[s]} ELSE owed
    /\ Leave(answer = "refused" \/ (answer = "raised" /\ again[s]), s)
    /\ UNCHANGED <<assignees, queuings, flagged, taken, earned>>

Tell(s, answer) ==
    /\ pc[s] = "tell"
    /\ IF answer = "raised" THEN Raised(s) ELSE Continue(s, "stop")
    /\ UNCHANGED <<labels, assignees, queuings, flagged, history>>

-----------------------------------------------------------------------------
RequestEnds(s) ==
    \E made \in BOOLEAN, answer \in Answers :
        /\ Request(made, answer)
        /\ \/ Assign(s, made, answer) \/ Unlabel(s, made, answer) \/ Label(s, made, answer)
           \/ Tidy(s, made, answer) \/ Status(s, made, answer)
           \/ Verify(s, answer) \/ Announce(s, answer) \/ Tell(s, answer)

Cycle(s) == Poll(s) \/ RequestEnds(s)

Next ==
    \/ \E i \in Issues : AddToQueue(i)
    \/ \E s \in Sentinels :
          \/ Cycle(s) \/ Launch(s) \/ SigTerm(s) \/ Crash(s)
          \/ CommandReturns(s) \/ CommandTimesOut(s) \/ CommandRaises(s)

Spec == Init /\ [][Next]_vars

(***************************************************************************)
(* Fairness: requests end (httpx gives up after 30 s), sleeps end and so   *)
(* does the wait for a command that neither ends nor is let go.  That a    *)
(* descendant of a killed command lets go of its stdout is nothing the     *)
(* code sees to: it is assumed where it is needed (PipesClose).            *)
(***************************************************************************)
Fairness == \A s \in Sentinels : WF_vars(Cycle(s)) /\ WF_vars(CommandTimesOut(s))

FairSpec == Spec /\ Fairness

PipesClose(s) == []<>~killed[s]

-----------------------------------------------------------------------------
(* Properties.                                                             *)

\* WorkBoard: one issue in hand at a time, and an issue that was claimed is not
\* claimed again by the same sentinel, from a list it fetched earlier or a label it
\* failed to remove, unless it was queued again.
Board == INSTANCE WorkBoard WITH
            Workers <- Sentinels,
            entries <- {i \in Issues : "queued" \in labels[i]},
            hand <- [s \in Sentinels |-> IF Holding(s) THEN work[s] ELSE NoIssue]
BoardSpec == Board!Spec

\* agent:success is earned: some run of the workflow on the issue ended with 0, whatever
\* timed out, raised or was reported twice.
SuccessIsEarned == \A i \in Issues : "success" \in labels[i] => i \in earned

\* An issue does not fall between the labels: once queued it stays in the queue or in
\* the hands of a sentinel until a status is reported, unless a crash or one of the
\* requests whose failure the code passes over has left it behind.
NeverForgotten ==
    \A i \in owed \ dropped :
        "queued" \in labels[i] \/ \E s \in Sentinels : Holding(s) /\ work[s] = i

\* agent:in-progress tells the truth, however the claims and reports of several
\* sentinels on the issue interleave: somebody is at work on it (same exception).
InProgressHasWorker ==
    \A i \in Issues \ dropped :
        "in-progress" \in labels[i] => \E s \in Sentinels : Holding(s) /\ work[s] = i

\* A sentinel that stays up with GitHub answering takes every issue it can claim out of
\* the queue, whatever others it cannot claim, as long as those do not fill the page.
QueueMoves ==
    \A s \in Sentinels, i \in Issues :
        /\ Cardinality(Unassignable) < PageSize
        /\ i \notin Unassignable \/ LoginOf[s] = NoLogin
        /\ PipesClose(s)
        /\ <>[](pc[s] /= "off" /\ ~flagged[s])
        => []<>("queued" \notin labels[i])

\* SIGTERM ends a sentinel, after the task in its hands.
SigTermEnds ==
    \A s \in Sentinels : PipesClose(s) => (flagged[s] ~> pc[s] = "off")

\* "Assign-then-verify pattern in GitHubQueue.claim_task() prevents double-claim" (the
\* migration plan's R5): no two sentinels work on an issue at the same time.
NoDoubleClaim ==
    \A s, t \in Sentinels : s /= t /\ Holding(s) /\ Holding(t) => work[s] /= work[t]
=============================================================================
