------------------------------ MODULE Polling ------------------------------
(***************************************************************************)
(* The poll task of src/sentinel.py on top of Eligibility, whose steps for *)
(* the Sentinel it takes: a poll searches for issues, checks one after the *)
(* other, and dispatches the first whose repository is eligible; every     *)
(* RefreshEvery polls it rebuilds the cache.  A rate-limited search does   *)
(* not count as a poll.                                                    *)
(*                                                                         *)
(* An issue is the repository it belongs to, and a search may find any     *)
(* issues: labels and their order are abstracted.  Waits have no length.   *)
(* What a dispatch does to the worktree is Service.tla's subject; here it  *)
(* only returns, if it does.                                               *)
(***************************************************************************)
EXTENDS Eligibility

CONSTANTS RefreshEvery,  \* 10: polls from one refresh to the next
          MaxItems       \* bound on the issues a search finds

ASSUME PollAssumption == RefreshEvery \in Nat \ {0} /\ MaxItems \in Nat

VARIABLES
    poll,   \* what the poll task awaits, or stands before
    cycle,  \* _poll_cycle % RefreshEvery
    items,  \* issues found and not looked at yet
    chosen  \* repository of the issue that is checked or dispatched

pollVars == <<poll, cycle, items, chosen>>
allVars  == <<vars, pollVars>>

PollTypeOK ==
    /\ poll \in {"search", "items", "check", "server", "dispatch", "refresh", "ended"}
    /\ cycle \in 0..(RefreshEvery - 1)
    /\ items \in 0..MaxItems
    /\ chosen \in Repos \cup {NoRepo}
    /\ poll \in {"check", "server", "dispatch"} <=> chosen /= NoRepo
    /\ poll = "check" => target[Sentinel] = chosen
    /\ poll = "refresh" <=> refresh /= "off"
    /\ poll = "ended" <=> stopped
    /\ poll \notin {"check", "refresh"} => ~Awaiting(Sentinel)

PollInit ==
    /\ Init
    /\ poll = "search"
    /\ cycle = 0
    /\ items = 0
    /\ chosen = NoRepo

\* A poll is over, well or not: it counts, and perhaps a refresh is due; then sleep.
CycleEnds ==
    /\ cycle' = (cycle + 1) % RefreshEvery
    /\ items' = 0
    /\ chosen' = NoRepo
    /\ \/ cycle' = 0 /\ poll' = "refresh" /\ RefreshBegins
       \/ cycle' /= 0 /\ poll' = "search" /\ UNCHANGED vars

\* The sleep is over and the search returns, or fails.  When the rate is limited it is
\* made again after a longer sleep: no step here.
SearchReturns ==
    /\ poll = "search"
    /\ \/ /\ github
          /\ poll' = "items"
          /\ items' \in 0..MaxItems
          /\ org = {} => items' = 0
          /\ UNCHANGED <<vars, cycle, chosen>>
       \/ ~github /\ CycleEnds

\* BUG: an issue is taken whatever its repository.
JudgeAnyway(eligible, r) == poll' = "server" /\ chosen' = r

\* The issue is taken if its repository is eligible and it has one of the labels.
Judge(eligible, r) ==
    \/ eligible /\ poll' = "server" /\ chosen' = r
    \/ poll' = "items" /\ chosen' = NoRepo

\* is_eligible for the next issue: from the cache, or by the name, or to be asked.
NextItem ==
    /\ poll = "items"
    /\ items > 0
    /\ items' = items - 1
    /\ UNCHANGED cycle
    /\ \E r \in org :
          \/ cache[r] /= "unknown" /\ Judge(cache[r] = "yes", r) /\ UNCHANGED vars
          \/ r \in Named /\ IsEligible(Sentinel, r) /\ Judge(TRUE, r)
          \/ r \notin Named /\ IsEligible(Sentinel, r) /\ poll' = "check" /\ chosen' = r

\* No issue was taken.
ItemsEnd ==
    /\ poll = "items"
    /\ items = 0
    /\ CycleEnds

SentinelRequest == MarkerReturns(Sentinel) \/ TemplateReturns(Sentinel)

CheckReturns ==
    /\ poll = "check"
    /\ SentinelRequest
    /\ IF step'[Sentinel] = "idle"
       THEN Judge(cache'[chosen] = "yes", chosen)
       ELSE UNCHANGED <<poll, chosen>>
    /\ UNCHANGED <<cycle, items>>

\* Is the opencode server up?  If not, the poll is over.
ServerAnswers ==
    /\ poll = "server"
    /\ \/ poll' = "dispatch" /\ UNCHANGED <<vars, cycle, items, chosen>>
       \/ CycleEnds

\* ensure_ready, assemble and dispatch return or raise.
DispatchReturns ==
    /\ poll = "dispatch"
    /\ CycleEnds

RefreshStep ==
    /\ poll = "refresh"
    /\ ListReturns \/ ScanNext \/ SentinelRequest
    /\ poll' = IF refresh' = "off" THEN "search" ELSE "refresh"
    /\ UNCHANGED <<cycle, items, chosen>>

\* BUG: stop() does not cancel the poll task.
StopLeaving ==
    /\ ~stopped
    /\ stopped' = TRUE
    /\ UNCHANGED <<cache, callVars, refreshVars, worldVars, history, pollVars>>

Stop ==
    /\ SentinelStops
    /\ poll' = "ended"
    /\ items' = 0
    /\ chosen' = NoRepo
    /\ UNCHANGED cycle

\* GitHub and the webhook handlers go on as in Eligibility.
GitHubReplies(c) == Replies(c) /\ UNCHANGED pollVars

HandlerReturns(h) == (MarkerReturns(h) \/ TemplateReturns(h)) /\ UNCHANGED pollVars

Others ==
    /\ \/ GitHubChanges
       \/ \E r \in Later : RepoCreated(r)
       \/ \E h \in Handlers, r \in Repos : IsEligible(h, r)
       \/ \E r \in Markable : MarkerChanges(r)
    /\ UNCHANGED pollVars

PollStep == NextItem \/ ItemsEnd \/ CheckReturns \/ ServerAnswers \/ RefreshStep

PollNext ==
    \/ SearchReturns \/ PollStep \/ DispatchReturns \/ Stop
    \/ Others
    \/ \E c \in Callers : GitHubReplies(c)
    \/ \E h \in Handlers : HandlerReturns(h)

PollSpec == PollInit /\ [][PollNext]_allVars

(***************************************************************************)
(* Fairness: requests return (httpx gives up after 10 s or 15 s) and       *)
(* sleeps end.  While GitHub limits the rate a search may fail for ever.   *)
(* That a dispatch returns is not for granted, git has no timeout: it is   *)
(* assumed where it is needed.                                             *)
(***************************************************************************)
PollFairness ==
    /\ WF_allVars(github /\ SearchReturns)
    /\ WF_allVars(PollStep)
    /\ \A c \in Callers : WF_allVars(GitHubReplies(c))
    /\ \A h \in Handlers : WF_allVars(HandlerReturns(h))

FairPollSpec == PollSpec /\ PollFairness

DispatchIsFair == WF_allVars(DispatchReturns)

-----------------------------------------------------------------------------
(* Properties.                                                             *)

\* A poll dispatches only for a repository that has qualified at some time since the
\* refresh that made the cache began, not for one it only qualified for before.
OnlyEligiblePolled ==
    poll \in {"server", "dispatch"} => chosen \in recent

\* A wrong "no", cached from a failed request or written late by a slow check,
\* does not stay: once the repository qualifies for good and GitHub answers, polls
\* get to a refresh, whatever they find, and its entry is eventually not a "no".
\* A dispatch that hangs, in git, would hold the refresh back with the poll.
WrongNoHeals ==
    DispatchIsFair =>
        \A r \in Repos :
            <>[](github /\ Qualifies(r) /\ ~stopped) => <>[](cache[r] /= "no")

\* A stale "yes" does not stay either: once the repository has lost its marker for good
\* and GitHub answers, its issues are not dispatched for ever, although every check finds
\* the "yes" in the cache and asks nobody.
StaleYesHeals ==
    DispatchIsFair =>
        \A r \in Repos :
            <>[](github /\ ~Qualifies(r) /\ ~stopped) => <>[](cache[r] /= "yes")
=============================================================================
