--------------------------- MODULE PollingProofs ---------------------------
(***************************************************************************)
(* Theorems about Polling.  It takes its steps for the checker from        *)
(* Eligibility, whose theorems so hold of it; what is proved besides is    *)
(* where the poll task stands and what it dispatches.                      *)
(***************************************************************************)
EXTENDS Polling, EligibilityProofs

-----------------------------------------------------------------------------
(* A step of the poll loop leaves the checker alone or is one of its own.  *)

LEMMA CycleEndsMaps == CycleEnds => RefreshBegins \/ UNCHANGED vars
BY DEF CycleEnds

LEMMA StepMaps == IInv /\ [PollNext]_allVars => [Next]_vars
<1> SUFFICES ASSUME IInv, [PollNext]_allVars PROVE Next \/ UNCHANGED vars
  BY DEF allVars
<1>1. CASE SearchReturns \/ ItemsEnd \/ ServerAnswers \/ DispatchReturns
  BY <1>1, CycleEndsMaps
     DEF SearchReturns, ItemsEnd, ServerAnswers, DispatchReturns, Next
<1>2. CASE NextItem
  BY <1>2 DEF NextItem, Next, Callers, IInv, TypeOK
<1>3. CASE CheckReturns \/ RefreshStep
  BY <1>3 DEF CheckReturns, RefreshStep, SentinelRequest, Requests, Next, Callers
<1>4. CASE Stop
  BY <1>4 DEF Stop, Next
<1>5. CASE Others
  BY <1>5 DEF Others, Next, Callers
<1>6. CASE \E h \in Handlers : HandlerReturns(h)
  BY <1>6 DEF HandlerReturns, Requests, Next, Callers
<1>7. CASE \E c \in Callers : GitHubReplies(c)
  BY <1>7 DEF GitHubReplies, Next
<1>8. CASE UNCHANGED allVars
  BY <1>8 DEF allVars
<1> QED
  BY <1>1, <1>2, <1>3, <1>4, <1>5, <1>6, <1>7, <1>8 DEF PollNext, PollStep

LEMMA PollInvariance == PollSpec => []IInv
<1>1. PollInit => IInv
  BY InitInv DEF PollInit
<1>2. IInv /\ [PollNext]_allVars => IInv'
  BY StepMaps, NextInv
<1> QED
  BY <1>1, <1>2, PTL DEF PollSpec

LEMMA UsesEligibility == PollSpec => Spec
<1>1. PollInit => Init
  BY DEF PollInit
<1> QED
  BY <1>1, StepMaps, PollInvariance, PTL DEF PollSpec, Spec

\* So under the poll loop, too, a repository is held eligible only if it has qualified
\* since the last refresh, or for a check on its way then.
THEOREM PolledYesIsRecent == PollSpec => []NoStaleYes
BY UsesEligibility, YesIsRecent

\* And a refresh is all or nothing.
THEOREM PolledRefreshAllOrNothing == PollSpec => CompleteRefresh
BY UsesEligibility, RefreshAllOrNothing

-----------------------------------------------------------------------------
(* Type correctness of the poll loop.                                      *)

LEMMA CycleEndsTypes ==
    ASSUME IInv, PollTypeOK, CycleEnds, poll \notin {"check", "refresh", "ended"}
    PROVE  PollTypeOK'
<1>1. cycle' \in 0..(RefreshEvery - 1)
  BY PollAssumption DEF CycleEnds, PollTypeOK
<1>2. items' \in 0..MaxItems /\ chosen' = NoRepo
  BY PollAssumption DEF CycleEnds
<1>3. ~Awaiting(Sentinel) /\ refresh = "off" /\ ~stopped
  BY DEF PollTypeOK, IInv, TypeOK
<1>4. CASE poll' = "refresh" /\ RefreshBegins
  BY <1>1, <1>2, <1>3, <1>4 DEF RefreshBegins, callVars, PollTypeOK, Awaiting
<1>5. CASE poll' = "search" /\ UNCHANGED vars
  BY <1>1, <1>2, <1>3, <1>5 DEF vars, callVars, refreshVars, PollTypeOK, Awaiting
<1> QED
  BY <1>4, <1>5 DEF CycleEnds

LEMMA JudgeTypes ==
    ASSUME PollTypeOK, NEW eligible, NEW r \in Repos, Judge(eligible, r)
    PROVE  /\ poll' \in {"server", "items"}
           /\ chosen' \in Repos \cup {NoRepo}
           /\ poll' = "server" <=> chosen' /= NoRepo
BY RepoAssumption DEF Judge

LEMMA PollStepTypes == IInv /\ PollTypeOK /\ [PollNext]_allVars => PollTypeOK'
<1> SUFFICES ASSUME IInv, PollTypeOK, [PollNext]_allVars PROVE PollTypeOK'
  OBVIOUS
<1> USE DEF Awaiting
<1>0. TypeOK /\ TypeOK'
  BY StepMaps, NextInv DEF IInv
<1>1. CASE CycleEnds /\ poll \in {"search", "items", "server", "dispatch"}
  BY <1>1, CycleEndsTypes
<1>2. CASE SearchReturns /\ ~CycleEnds
  BY <1>2 DEF SearchReturns, PollTypeOK, vars, callVars, refreshVars
<1>3. CASE NextItem
  <2>1. PICK r \in org :
          \/ cache[r] /= "unknown" /\ Judge(cache[r] = "yes", r) /\ UNCHANGED vars
          \/ r \in Named /\ IsEligible(Sentinel, r) /\ Judge(TRUE, r)
          \/ r \notin Named /\ IsEligible(Sentinel, r) /\ poll' = "check" /\ chosen' = r
    BY <1>3 DEF NextItem
  <2>2. /\ r \in Repos /\ poll = "items" /\ cycle' = cycle
        /\ items' \in 0..MaxItems /\ ~Awaiting(Sentinel) /\ refresh = "off" /\ ~stopped
    BY <1>0, <1>3, PollAssumption DEF NextItem, TypeOK, PollTypeOK
  <2>3. CASE Judge(cache[r] = "yes", r) /\ UNCHANGED vars
    BY <2>2, <2>3, JudgeTypes DEF vars, callVars, refreshVars, PollTypeOK
  <2>4. CASE r \in Named /\ IsEligible(Sentinel, r) /\ Judge(TRUE, r)
    BY <2>2, <2>4, JudgeTypes DEF IsEligible, callVars, refreshVars, PollTypeOK
  <2>5. CASE r \notin Named /\ IsEligible(Sentinel, r) /\ poll' = "check" /\ chosen' = r
    BY <1>0, <2>2, <2>5, RepoAssumption
       DEF IsEligible, Asks, refreshVars, PollTypeOK, TypeOK, Callers
  <2> QED
    BY <2>1, <2>3, <2>4, <2>5
<1>4. CASE CheckReturns
  <2>1. /\ poll = "check" /\ refresh = "off" /\ UNCHANGED <<stopped, cycle, items>>
        /\ chosen \in Repos /\ target[Sentinel] = chosen /\ Awaiting(Sentinel)
    BY <1>0, <1>4, RepoAssumption
       DEF CheckReturns, SentinelRequest, MarkerReturns, TemplateReturns, PollTypeOK, TypeOK
  <2>2. refresh' = "off"
    BY <1>4, <2>1
       DEF CheckReturns, SentinelRequest, MarkerReturns, AsksTemplate, TemplateReturns,
           Concludes, refreshVars
  <2>3. CASE step'[Sentinel] = "idle"
    BY <1>4, <2>1, <2>2, <2>3, JudgeTypes DEF CheckReturns, PollTypeOK
  <2>4. CASE step'[Sentinel] /= "idle"
    <3>1. target' = target
      BY <1>0, <1>4, <2>4
         DEF CheckReturns, SentinelRequest, MarkerReturns, AsksTemplate, TemplateReturns,
             Concludes, TypeOK, Callers
    <3> QED
      BY <1>4, <2>1, <2>2, <2>4, <3>1 DEF CheckReturns, PollTypeOK
  <2> QED
    BY <2>3, <2>4
<1>5. CASE ServerAnswers /\ ~CycleEnds
  BY <1>5 DEF ServerAnswers, PollTypeOK, vars, callVars, refreshVars
<1>6. CASE RefreshStep
  <2>1. /\ poll = "refresh" /\ refresh /= "off" /\ UNCHANGED <<stopped, cycle, items, chosen>>
        /\ poll' = IF refresh' = "off" THEN "search" ELSE "refresh"
    BY <1>6
       DEF RefreshStep, ListReturns, ScanNext, SentinelRequest, MarkerReturns, TemplateReturns,
           PollTypeOK
  <2>2. refresh' = "off" => ~Awaiting(Sentinel)'
    BY <1>0, <1>6, <2>1
       DEF RefreshStep, ListReturns, ScanNext, SentinelRequest, MarkerReturns, AsksTemplate,
           TemplateReturns, Concludes, Evaluated, Asks, refreshVars, callVars, TypeOK,
           Callers, IInv, Covered
  <2> QED
    BY <2>1, <2>2 DEF PollTypeOK
<1>7. CASE Stop
  BY <1>0, <1>7, PollAssumption
     DEF Stop, SentinelStops, RefreshEnds, PollTypeOK, TypeOK, Callers
<1>8. CASE Others
  <2>1. UNCHANGED <<pollVars, refresh, stopped>>
    BY <1>8 DEF Others, GitHubChanges, RepoCreated, MarkerChanges, IsEligible, refreshVars
  <2>2. step'[Sentinel] = step[Sentinel] /\ target'[Sentinel] = target[Sentinel]
    BY <1>0, <1>8, CallerAssumption
       DEF Others, GitHubChanges, RepoCreated, MarkerChanges, IsEligible, Asks, callVars,
           TypeOK, Callers
  <2> QED
    BY <2>1, <2>2 DEF pollVars, PollTypeOK
<1>9. CASE \E h \in Handlers : HandlerReturns(h)
  <2>1. PICK h \in Handlers : MarkerReturns(h) \/ TemplateReturns(h)
    BY <1>9 DEF HandlerReturns
  <2>2. UNCHANGED <<pollVars, refresh, stopped>>
    BY <1>9, <2>1, CallerAssumption
       DEF HandlerReturns, MarkerReturns, AsksTemplate, TemplateReturns, Concludes, refreshVars
  <2>3. step'[Sentinel] = step[Sentinel] /\ target'[Sentinel] = target[Sentinel]
    BY <1>0, <2>1, CallerAssumption
       DEF MarkerReturns, AsksTemplate, TemplateReturns, Concludes, TypeOK, Callers
  <2> QED
    BY <2>2, <2>3 DEF pollVars, PollTypeOK
<1>10. CASE \E c \in Callers : GitHubReplies(c)
  BY <1>10 DEF GitHubReplies, Replies, pollVars, refreshVars, PollTypeOK
<1>11. CASE UNCHANGED allVars
  BY <1>11 DEF allVars, pollVars, vars, callVars, refreshVars, PollTypeOK
<1> QED
  BY <1>1, <1>2, <1>3, <1>4, <1>5, <1>6, <1>7, <1>8, <1>9, <1>10, <1>11
     DEF PollNext, PollStep, SearchReturns, ItemsEnd, ServerAnswers, DispatchReturns

LEMMA PollTyped == PollSpec => []PollTypeOK
<1>1. PollInit => PollTypeOK
  BY PollAssumption DEF PollInit, Init, PollTypeOK, Awaiting, Callers
<1> QED
  BY <1>1, PollStepTypes, PollInvariance, PTL DEF PollSpec

\* The poll task stands where it says: it has an issue's repository exactly while it
\* checks or dispatches it, is in refresh_cache exactly while a refresh is under way,
\* and has ended exactly when stop() was called.
THEOREM PollTypeCorrect == PollSpec => []PollTypeOK
BY PollTyped

-----------------------------------------------------------------------------
\* Between refreshes nothing is forgotten of what has qualified.
LEMMA RecentGrows == refresh = "off" /\ [Next]_vars => recent \subseteq recent'
BY DEF Next, Requests, ListReturns, ScanNext, MarkerReturns, AsksTemplate, TemplateReturns,
       Concludes, Replies, RefreshBegins, SentinelStops, GitHubChanges, RepoCreated,
       IsEligible, MarkerChanges, history, vars

\* A poll dispatches only for a repository that has qualified since the refresh that made
\* the cache began: none replaces the cache before the dispatch has returned.
THEOREM PollsAreEligible == PollSpec => []OnlyEligiblePolled
<1>1. PollInit => OnlyEligiblePolled
  BY DEF PollInit, OnlyEligiblePolled
<1>2. IInv /\ PollTypeOK /\ OnlyEligiblePolled /\ [PollNext]_allVars => OnlyEligiblePolled'
  <2> SUFFICES ASSUME IInv, PollTypeOK, OnlyEligiblePolled, [PollNext]_allVars,
                      poll' \in {"server", "dispatch"}
               PROVE  chosen' \in recent'
    BY DEF OnlyEligiblePolled
  <2>1. IInv'
    BY StepMaps, NextInv
  <2>2. poll \in {"server", "dispatch"} => recent \subseteq recent'
    BY StepMaps, RecentGrows DEF PollTypeOK
  <2>3. CASE UNCHANGED <<poll, chosen>>
    BY <2>2, <2>3 DEF OnlyEligiblePolled
  <2>4. CASE ServerAnswers /\ ~CycleEnds
    BY <2>2, <2>4 DEF ServerAnswers, OnlyEligiblePolled
  <2>5. ASSUME NEW r \in Repos, cache'[r] = "yes", chosen' = r PROVE chosen' \in recent'
    BY <2>1, <2>5 DEF IInv, NoStaleYes
  <2>6. CASE NextItem
    <3>1. PICK r \in org :
            \/ cache[r] /= "unknown" /\ Judge(cache[r] = "yes", r) /\ UNCHANGED vars
            \/ r \in Named /\ IsEligible(Sentinel, r) /\ Judge(TRUE, r)
            \/ r \notin Named /\ IsEligible(Sentinel, r) /\ poll' = "check" /\ chosen' = r
      BY <2>6 DEF NextItem
    <3>2. r \in Repos /\ chosen' = r /\ cache'[r] = "yes"
      BY <3>1 DEF Judge, IsEligible, vars, IInv, TypeOK, Entries
    <3> QED
      BY <2>5, <3>2
  <2>7. CASE CheckReturns /\ step'[Sentinel] = "idle"
    <3>1. chosen \in Repos
      BY <2>7, RepoAssumption DEF CheckReturns, PollTypeOK
    <3>2. chosen' = chosen /\ cache'[chosen] = "yes"
      BY <2>7 DEF CheckReturns, Judge
    <3> QED
      BY <2>5, <3>1, <3>2
  <2> QED
    BY <2>3, <2>4, <2>6, <2>7
       DEF PollNext, PollStep, SearchReturns, ItemsEnd, CheckReturns, ServerAnswers,
           DispatchReturns, CycleEnds, RefreshStep, Stop, Others,
           HandlerReturns, GitHubReplies, pollVars, allVars
<1> QED
  BY <1>1, <1>2, PollInvariance, PollTyped, PTL DEF PollSpec
=============================================================================
