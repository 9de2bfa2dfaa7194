------------------------- MODULE EligibilityProofs -------------------------
(***************************************************************************)
(* Proofs about Eligibility for any organisation, any number of concurrent *)
(* webhook requests and any page size.  The inductive invariant says what  *)
(* a refresh in progress has already covered and what it may still miss.   *)
(***************************************************************************)
EXTENDS Eligibility, FiniteSetTheorems, TLAPS

Answered == {r \in Repos : fresh[r] /= "unknown"}

\* Whatever qualifies now has qualified of late.
LatelyQualified ==
    /\ Qualifying \subseteq recent
    /\ refresh /= "off" => Qualifying \subseteq during

\* A match on its way is still held to be one, when it arrives: by the refresh if it
\* is the refresh that asked, otherwise by the cache.
Justified ==
    \A c \in Callers : reply[c] = "match" =>
        target[c] \in (IF c = Sentinel /\ refresh /= "off" THEN during ELSE recent)

\* Between refreshes the refresh keeps nothing.
NothingKept ==
    refresh = "off" =>
        /\ unlisted = {} /\ page = {} /\ fresh = Empty
        /\ during = {} /\ begun = {} /\ steady = {}

\* A repository the refresh owes an entry is still to be listed, on the page, or
\* has its entry; after the last page none is still to be listed.
Covered ==
    refresh /= "off" =>
        /\ begun \subseteq org
        /\ begun \subseteq unlisted \cup page \cup Answered
        /\ refresh = "listing" => page = {} /\ ~Awaiting(Sentinel)
        /\ refresh = "scanning" /\ lastPage => begun \cap unlisted = {}

\* The refresh never decides against a steady repository: GitHub replies to its
\* requests, and where the marker is no match, the template is.
SteadyAccepted ==
    /\ steady \subseteq begun
    /\ steady /= {} => github
    /\ \A r \in steady : Qualifies(r) /\ fresh[r] /= "no"
    /\ refresh = "scanning" /\ Awaiting(Sentinel) => target[Sentinel] \notin Named
    /\ refresh = "scanning" /\ target[Sentinel] \in steady =>
           /\ step[Sentinel] = "template" \/ reply[Sentinel] \notin {"none", "match"} =>
                  target[Sentinel] \in FromTemplate
           /\ step[Sentinel] = "template" => reply[Sentinel] \in {"none", "match"}

IInv ==
    /\ TypeOK
    /\ LatelyQualified
    /\ Justified
    /\ NothingKept
    /\ Covered
    /\ SteadyAccepted
    /\ NoStaleYes

CallsTyped ==
    /\ step \in [Callers -> {"idle", "marker", "template"}]
    /\ target \in [Callers -> Repos \cup {NoRepo}]
    /\ reply \in [Callers -> {"none", "match", "other", "failed"}]
    /\ \A c \in Callers : /\ step[c] = "idle" <=> target[c] = NoRepo
                          /\ step[c] = "idle" => reply[c] = "none"

\* How a refresh may end: with the cache untouched, or complete.
GoodEnd ==
    refresh /= "off" /\ refresh' = "off" =>
        \/ cache' = cache
        \/ /\ \A r \in begun : cache'[r] /= "unknown"
           /\ \A r \in steady : cache'[r] = "yes"

USE DEF Callers, Entries, Empty, Awaiting, Qualifies, Qualifying

LEMMA InitInv == Init => IInv
<1>1. Init => lastPage \in BOOLEAN /\ stopped \in BOOLEAN /\ github \in BOOLEAN
  BY Zenon DEF Init
<1> QED
  BY <1>1, RepoAssumption
     DEF Init, IInv, TypeOK, LatelyQualified, Justified, NothingKept, Covered,
         SteadyAccepted, NoStaleYes

-----------------------------------------------------------------------------
\* refresh_cache returns or is cancelled, the cache being new, good or untouched.
LEMMA EndInv ==
    ASSUME IInv, RefreshEnds, UNCHANGED <<worldVars, stopped>>, CallsTyped',
           cache' \in Entries, recent' \subseteq Repos, Qualifying \subseteq recent',
           \A r \in Repos : cache'[r] = "yes" => r \in recent',
           \A c \in Callers : reply'[c] = "match" => target'[c] \in recent'
    PROVE  IInv'
<1>1. lastPage' \in BOOLEAN
  BY Zenon DEF RefreshEnds
<1> QED
  BY <1>1, RepoAssumption
     DEF RefreshEnds, worldVars, IInv, TypeOK, CallsTyped, LatelyQualified, Justified,
         NothingKept, Covered, SteadyAccepted, NoStaleYes

\* When nothing is left to list or to evaluate, the new cache replaces the old.
LEMMA FinishInv ==
    ASSUME IInv, refresh /= "off", NEW new \in Entries, Finish(new),
           UNCHANGED <<worldVars, stopped>>, CallsTyped',
           \A r \in Repos : new[r] = "yes" => r \in during,
           reply'[Sentinel] = "none",
           \A h \in Handlers : reply'[h] = reply[h] /\ target'[h] = target[h]
    PROVE  IInv'
<1>1. cache' = new /\ RefreshEnds /\ recent' = during \cup Passing
  BY DEF Finish
<1>2. Passing \subseteq Repos
  BY DEF Passing, IInv, TypeOK
<1>3. recent' \subseteq Repos /\ Qualifying \subseteq recent'
  BY <1>1, <1>2 DEF IInv, TypeOK, LatelyQualified
<1>4. \A c \in Callers : reply'[c] = "match" => target'[c] \in recent'
  BY <1>1 DEF Passing
<1> QED
  BY <1>1, <1>3, <1>4, EndInv

LEMMA RefreshBeginsInv == ASSUME IInv, RefreshBegins PROVE IInv' /\ GoodEnd
<1>1. /\ refresh = "off" /\ ~Awaiting(Sentinel)
      /\ refresh' = "listing" /\ unlisted' = org /\ begun' = org
      /\ steady' = {r \in org : github /\ Qualifies(r)} /\ during' = Qualifying
      /\ UNCHANGED <<cache, callVars, page, lastPage, fresh, worldVars, recent, stopped>>
  BY DEF RefreshBegins
<1> QED
  BY <1>1, RepoAssumption
     DEF callVars, worldVars, GoodEnd, IInv, TypeOK, LatelyQualified, Justified,
         NothingKept, Covered, SteadyAccepted, NoStaleYes

LEMMA ListReturnsInv == ASSUME IInv, ListReturns PROVE IInv' /\ GoodEnd
<1>1. refresh = "listing" /\ UNCHANGED <<callVars, worldVars, stopped>>
  BY DEF ListReturns
<1>2. /\ CallsTyped' /\ reply'[Sentinel] = "none"
      /\ \A c \in Callers : reply'[c] = reply[c] /\ target'[c] = target[c]
  BY <1>1 DEF callVars, CallsTyped, IInv, TypeOK, Covered
<1>3. CASE RefreshEnds /\ UNCHANGED <<cache, recent>>
  <2>1. \A c \in Callers : reply'[c] = "match" => target'[c] \in recent'
    BY <1>2, <1>3 DEF IInv, Justified
  <2> QED
    BY <1>1, <1>2, <1>3, <2>1, EndInv DEF IInv, TypeOK, NoStaleYes, LatelyQualified, GoodEnd
<1>4. ASSUME NEW S \in SUBSET unlisted, github,
             Cardinality(S) <= PageSize,
             S /= unlisted => Cardinality(S) = PageSize,
             NextPage(S)
      PROVE  IInv' /\ GoodEnd
  <2>1. IsFiniteSet(S)
    BY RepoAssumption, FS_Subset DEF IInv, TypeOK
  <2>2. Cardinality(S) \in Nat /\ (S = {} => Cardinality(S) = 0)
    BY <2>1, FS_CardinalityType, FS_EmptySet
  <2>3. CASE S = {}
    <3>1. unlisted = {} /\ Finish(fresh)
      BY <1>4, <2>2, <2>3, PageAssumption DEF NextPage
    <3>2. IInv'
      BY <1>1, <1>2, <3>1, FinishInv DEF IInv, TypeOK, NoStaleYes
    <3>3. begun \subseteq Answered /\ cache' = fresh
      BY <1>1, <3>1 DEF Finish, IInv, Covered
    <3>4. GoodEnd
      BY <3>3 DEF GoodEnd, Answered, IInv, TypeOK, SteadyAccepted, NothingKept, Covered
    <3> QED
      BY <3>2, <3>4
  <2>4. CASE S /= {}
    <3>1. /\ page' = S /\ unlisted' = unlisted \ S /\ refresh' = "scanning"
          /\ UNCHANGED <<cache, fresh, history>>
          /\ lastPage' = (Cardinality(S) < PageSize)
      BY <1>4, <2>4 DEF NextPage
    <3>2. lastPage' \in BOOLEAN
      <4>1. (Cardinality(S) < PageSize) \in BOOLEAN
        BY <2>2, PageAssumption
      <4> QED
        BY <3>1, <4>1
    <3>3. lastPage' => unlisted' = {}
      <4>1. lastPage' => Cardinality(S) < PageSize
        BY <3>1
      <4> QED
        BY <1>4, <2>2, <3>1, <4>1, PageAssumption
    <3>4. TypeOK'
      BY <1>1, <2>4, <3>1, <3>2 DEF callVars, worldVars, history, IInv, TypeOK
    <3>5. Covered'
      BY <1>1, <3>1, <3>3 DEF callVars, worldVars, history, IInv, Covered, Answered
    <3>6. LatelyQualified' /\ Justified' /\ NothingKept' /\ NoStaleYes' /\ GoodEnd
      BY <1>1, <1>2, <3>1
         DEF worldVars, history, IInv, LatelyQualified, Justified, NothingKept, NoStaleYes,
             GoodEnd
    <3>7. SteadyAccepted'
      BY <1>1, <3>1 DEF callVars, worldVars, history, IInv, TypeOK, Covered, SteadyAccepted
    <3> QED
      BY <3>4, <3>5, <3>6, <3>7 DEF IInv
  <2> QED
    BY <2>3, <2>4
<1> QED
  BY <1>3, <1>4 DEF ListReturns

-----------------------------------------------------------------------------
(* Evaluation of one repository of the page.                               *)

LEMMA EvaluatedInv ==
    ASSUME IInv, refresh = "scanning", UNCHANGED <<worldVars, stopped>>,
           NEW r \in Repos, NEW v \in {"yes", "no"},
           Evaluated(r, v),
           v = "yes" => r \in during,
           v = "no" => r \notin steady,
           CallsTyped', step'[Sentinel] = "idle",
           \A h \in Handlers : reply'[h] = reply[h] /\ target'[h] = target[h]
    PROVE  IInv' /\ GoodEnd
<1> DEFINE new == [fresh EXCEPT ![r] = v]
<1>1. /\ new \in Entries
      /\ \A q \in Repos : new[q] = "yes" => q \in during
      /\ \A q \in steady : new[q] /= "no"
      /\ \A q \in Answered \cup {r} : new[q] /= "unknown"
      /\ reply'[Sentinel] = "none"
  BY DEF CallsTyped, IInv, TypeOK, NoStaleYes, SteadyAccepted, Answered
<1>2. CASE page = {r} /\ lastPage
  <2>1. Finish(new)
    BY <1>2 DEF Evaluated
  <2>2. IInv'
    BY <1>1, <2>1, FinishInv
  <2>3. begun \subseteq Answered \cup {r} /\ steady \subseteq begun /\ cache' = new
    BY <1>2, <2>1 DEF Finish, IInv, Covered, SteadyAccepted
  <2>4. GoodEnd
    BY <1>1, <2>3 DEF GoodEnd, IInv, TypeOK
  <2> QED
    BY <2>2, <2>4
<1>3. CASE ~(page = {r} /\ lastPage)
  <2>1. /\ fresh' = new /\ page' = page \ {r}
        /\ refresh' = IF page = {r} THEN "listing" ELSE "scanning"
        /\ UNCHANGED <<cache, unlisted, lastPage, history>>
    BY <1>3 DEF Evaluated
  <2>2. TypeOK'
    BY <1>1, <2>1 DEF worldVars, history, IInv, TypeOK, CallsTyped
  <2>3. Covered'
    BY <1>1, <2>1 DEF worldVars, history, IInv, TypeOK, Covered, Answered
  <2>4. SteadyAccepted'
    BY <1>1, <2>1 DEF worldVars, history, IInv, TypeOK, SteadyAccepted
  <2>5. LatelyQualified' /\ NothingKept' /\ NoStaleYes' /\ GoodEnd
    BY <1>1, <2>1 DEF worldVars, history, IInv, LatelyQualified, NothingKept, NoStaleYes,
                      GoodEnd
  <2>6. Justified'
    BY <1>1, <2>1, CallerAssumption DEF history, IInv, Justified
  <2> QED
    BY <2>2, <2>3, <2>4, <2>5, <2>6 DEF IInv
<1> QED
  BY <1>2, <1>3

LEMMA ScanNextInv == ASSUME IInv, ScanNext PROVE IInv' /\ GoodEnd
<1>1. /\ refresh = "scanning" /\ ~Awaiting(Sentinel)
      /\ UNCHANGED <<worldVars, stopped>>
  BY DEF ScanNext
<1>2. PICK r \in page :
          IF r \in Named
          THEN Evaluated(r, "yes") /\ UNCHANGED callVars
          ELSE Asks(Sentinel, r) /\ UNCHANGED <<cache, refreshVars, history>>
  BY DEF ScanNext
<1>3. r \in Repos
  BY DEF IInv, TypeOK
<1>4. CASE r \in Named
  BY <1>1, <1>2, <1>3, <1>4, EvaluatedInv
     DEF callVars, IInv, TypeOK, CallsTyped, LatelyQualified
<1>5. CASE r \notin Named
  BY <1>1, <1>2, <1>3, <1>5, RepoAssumption
     DEF Asks, refreshVars, worldVars, history, GoodEnd, IInv, TypeOK, LatelyQualified,
         Justified, NothingKept, Covered, SteadyAccepted, NoStaleYes, Answered
<1> QED
  BY <1>4, <1>5

\* A check ends with "yes" only for what qualifies, and with "no" in a refresh only
\* for what is not steady.
LEMMA ConcludesInv ==
    ASSUME IInv, NEW c \in Callers, NEW v \in {"yes", "no"}, Awaiting(c),
           Concludes(c, v), UNCHANGED <<worldVars, stopped>>,
           v = "yes" =>
               target[c] \in (IF c = Sentinel /\ refresh /= "off" THEN during ELSE recent),
           v = "no" /\ c = Sentinel /\ refresh = "scanning" => target[c] \notin steady
    PROVE  IInv' /\ GoodEnd
<1>1. target[c] \in Repos
  BY DEF IInv, TypeOK
<1>2. /\ step' = [step EXCEPT ![c] = "idle"]
      /\ target' = [target EXCEPT ![c] = NoRepo]
      /\ reply' = [reply EXCEPT ![c] = "none"]
  BY DEF Concludes
<1>3. CallsTyped'
  BY <1>2 DEF IInv, TypeOK, CallsTyped
<1>4. CASE c = Sentinel /\ refresh = "scanning"
  <2>1. Evaluated(target[c], v) /\ step'[Sentinel] = "idle"
    BY <1>2, <1>4 DEF Concludes, IInv, TypeOK
  <2>2. \A h \in Handlers : reply'[h] = reply[h] /\ target'[h] = target[h]
    BY <1>2, <1>4, CallerAssumption DEF IInv, TypeOK
  <2> QED
    BY <1>1, <1>3, <1>4, <2>1, <2>2, EvaluatedInv
<1>5. CASE ~(c = Sentinel /\ refresh = "scanning")
  <2>1. cache' = [cache EXCEPT ![target[c]] = v] /\ UNCHANGED <<refreshVars, history>>
    BY <1>5 DEF Concludes
  <2> QED
    BY <1>1, <1>2, <1>3, <1>5, <2>1
       DEF refreshVars, worldVars, history, GoodEnd, IInv, TypeOK, LatelyQualified,
           Justified, NothingKept, Covered, SteadyAccepted, NoStaleYes, Answered
<1> QED
  BY <1>4, <1>5

LEMMA MarkerReturnsInv ==
    ASSUME IInv, NEW c \in Callers, MarkerReturns(c) PROVE IInv' /\ GoodEnd
<1>1. step[c] = "marker" /\ UNCHANGED <<worldVars, stopped>> /\ target[c] \in Repos
  BY DEF MarkerReturns, IInv, TypeOK
<1>2. CASE reply[c] = "match"
  <2>1. Concludes(c, "yes")
    BY <1>2 DEF MarkerReturns
  <2> QED
    BY <1>1, <1>2, <2>1, ConcludesInv DEF IInv, Justified
<1>3. CASE reply[c] /= "match"
  <2>1. /\ step' = [step EXCEPT ![c] = "template"] /\ reply[c] /= "none"
        /\ reply' = [reply EXCEPT ![c] = "none"]
        /\ UNCHANGED <<cache, target, refreshVars, history>>
    BY <1>3 DEF MarkerReturns, AsksTemplate
  <2>2. TypeOK' /\ LatelyQualified' /\ Justified' /\ NothingKept' /\ NoStaleYes' /\ GoodEnd
    BY <1>1, <2>1
       DEF refreshVars, worldVars, history, GoodEnd, IInv, TypeOK, LatelyQualified,
           Justified, NothingKept, NoStaleYes
  <2>3. Covered'
    BY <1>1, <2>1 DEF refreshVars, worldVars, history, IInv, TypeOK, Covered, Answered
  <2>4. SteadyAccepted'
    BY <1>1, <1>3, <2>1 DEF refreshVars, worldVars, history, IInv, TypeOK, SteadyAccepted
  <2> QED
    BY <2>2, <2>3, <2>4 DEF IInv
<1> QED
  BY <1>2, <1>3

LEMMA TemplateReturnsInv ==
    ASSUME IInv, NEW c \in Callers, TemplateReturns(c) PROVE IInv' /\ GoodEnd
<1> DEFINE v == IF reply[c] = "match" THEN "yes" ELSE "no"
<1>1. /\ step[c] = "template" /\ reply[c] /= "none"
      /\ UNCHANGED <<worldVars, stopped>> /\ Concludes(c, v)
  BY DEF TemplateReturns
<1>2. v = "yes" => target[c] \in (IF c = Sentinel /\ refresh /= "off" THEN during ELSE recent)
  BY DEF IInv, Justified
<1>3. v = "no" /\ c = Sentinel /\ refresh = "scanning" => target[c] \notin steady
  BY <1>1 DEF IInv, SteadyAccepted
<1> QED
  BY <1>1, <1>2, <1>3, ConcludesInv

LEMMA IsEligibleInv ==
    ASSUME IInv, NEW c \in Callers, NEW r \in Repos, IsEligible(c, r) PROVE IInv' /\ GoodEnd
<1>1. /\ UNCHANGED <<refreshVars, worldVars, history, stopped>>
      /\ c = Sentinel => refresh = "off"
      /\ ~Awaiting(c)
  BY DEF IsEligible
<1>2. CASE r \in Named
  <2>1. cache' = [cache EXCEPT ![r] = "yes"] /\ UNCHANGED callVars
    BY <1>2 DEF IsEligible
  <2> QED
    BY <1>1, <1>2, <2>1
       DEF refreshVars, callVars, worldVars, history, GoodEnd, IInv, TypeOK,
           LatelyQualified, Justified, NothingKept, Covered, SteadyAccepted, NoStaleYes,
           Answered
<1>3. CASE r \notin Named
  <2>1. Asks(c, r) /\ UNCHANGED cache
    BY <1>3 DEF IsEligible
  <2> QED
    BY <1>1, <2>1, RepoAssumption
       DEF Asks, refreshVars, worldVars, history, GoodEnd, IInv, TypeOK, LatelyQualified,
           Justified, NothingKept, Covered, SteadyAccepted, NoStaleYes, Answered
<1> QED
  BY <1>2, <1>3

LEMMA RepliesInv ==
    ASSUME IInv, NEW c \in Callers, Replies(c) PROVE IInv' /\ GoodEnd
<1>1. /\ Awaiting(c)
      /\ UNCHANGED <<cache, step, target, refreshVars, worldVars, history, stopped>>
      /\ \/ reply' = [reply EXCEPT ![c] = "failed"] /\ ~github
         \/ reply' = [reply EXCEPT ![c] = "match"] /\ Qualifies(target[c])
         \/ /\ reply' = [reply EXCEPT ![c] = "other"]
            /\ target[c] \notin (IF step[c] = "marker" THEN marked ELSE FromTemplate)
  BY DEF Replies
<1>2. TypeOK' /\ LatelyQualified' /\ NothingKept' /\ Covered' /\ NoStaleYes' /\ GoodEnd
  BY <1>1
     DEF refreshVars, worldVars, history, GoodEnd, IInv, TypeOK, LatelyQualified,
         NothingKept, Covered, NoStaleYes, Answered
<1>3. Justified'
  BY <1>1 DEF refreshVars, history, IInv, TypeOK, LatelyQualified, Justified
<1>4. SteadyAccepted'
  BY <1>1 DEF refreshVars, worldVars, history, IInv, TypeOK, SteadyAccepted
<1> QED
  BY <1>2, <1>3, <1>4 DEF IInv

LEMMA SentinelStopsInv == ASSUME IInv, SentinelStops PROVE IInv' /\ GoodEnd
<1>1. /\ RefreshEnds /\ UNCHANGED <<cache, worldVars>> /\ stopped' = TRUE
      /\ step' = [step EXCEPT ![Sentinel] = "idle"]
      /\ target' = [target EXCEPT ![Sentinel] = NoRepo]
      /\ reply' = [reply EXCEPT ![Sentinel] = "none"] /\ recent' = recent
  BY DEF SentinelStops
<1>2. lastPage' \in BOOLEAN /\ stopped' \in BOOLEAN
  BY <1>1, Zenon DEF RefreshEnds
<1> QED
  BY <1>1, <1>2, RepoAssumption
     DEF RefreshEnds, worldVars, GoodEnd, IInv, TypeOK, LatelyQualified, Justified,
         NothingKept, Covered, SteadyAccepted, NoStaleYes

LEMMA RepoCreatedInv ==
    ASSUME IInv, NEW r \in Later, RepoCreated(r) PROVE IInv' /\ GoodEnd
BY RepoAssumption DEF RepoCreated, callVars, history, GoodEnd, IInv, TypeOK,
                      LatelyQualified, Justified, NothingKept, Covered, SteadyAccepted,
                      NoStaleYes, Answered

LEMMA MarkerChangesInv ==
    ASSUME IInv, NEW r \in Markable, MarkerChanges(r) PROVE IInv' /\ GoodEnd
BY RepoAssumption
   DEF MarkerChanges, callVars, refreshVars, GoodEnd, IInv, TypeOK, LatelyQualified,
       Justified, NothingKept, Covered, SteadyAccepted, NoStaleYes, Answered

LEMMA GitHubChangesInv == ASSUME IInv, GitHubChanges PROVE IInv' /\ GoodEnd
<1>1. github' \in BOOLEAN
  BY Zenon DEF GitHubChanges
<1> QED
  BY <1>1
     DEF GitHubChanges, callVars, refreshVars, GoodEnd, IInv, TypeOK, LatelyQualified,
         Justified, NothingKept, Covered, SteadyAccepted, NoStaleYes, Answered

-----------------------------------------------------------------------------
\* Every step keeps the invariant and ends a refresh as it should.
LEMMA NextInv == IInv /\ [Next]_vars => IInv' /\ (GoodEnd \/ UNCHANGED vars)
<1> SUFFICES ASSUME IInv, [Next]_vars PROVE IInv' /\ (GoodEnd \/ UNCHANGED vars)
  OBVIOUS
<1>1. CASE UNCHANGED vars
  BY <1>1
     DEF vars, callVars, refreshVars, worldVars, history, IInv, TypeOK, LatelyQualified,
         Justified, NothingKept, Covered, SteadyAccepted, NoStaleYes, Answered
<1>2. CASE RefreshBegins
  BY <1>2, RefreshBeginsInv
<1>3. CASE Requests
  BY <1>3, ListReturnsInv, ScanNextInv, MarkerReturnsInv, TemplateReturnsInv DEF Requests
<1>4. CASE SentinelStops
  BY <1>4, SentinelStopsInv
<1>5. CASE GitHubChanges
  BY <1>5, GitHubChangesInv
<1>6. CASE (\E r \in Later : RepoCreated(r)) \/ \E c \in Callers, r \in Repos : IsEligible(c, r)
  BY <1>6, RepoCreatedInv, IsEligibleInv
<1>7. CASE \E r \in Markable : MarkerChanges(r)
  BY <1>7, MarkerChangesInv
<1>8. CASE \E c \in Callers : Replies(c)
  BY <1>8, RepliesInv
<1> QED
  BY <1>1, <1>2, <1>3, <1>4, <1>5, <1>6, <1>7, <1>8 DEF Next

LEMMA Invariance == Spec => []IInv
BY InitInv, NextInv, PTL DEF Spec

\* Every variable keeps its type, and a page being scanned is never empty.
THEOREM TypeCorrect == Spec => []TypeOK
BY Invariance, PTL DEF IInv

\* A repository is held eligible only if it has qualified since the last refresh, or for
\* a check on its way then, whatever failed and however checks and refreshes interleaved.
THEOREM YesIsRecent == Spec => []NoStaleYes
BY Invariance, PTL DEF IInv

\* refresh_cache replaces the cache by a complete one or leaves it untouched,
\* although webhook checks write to it while the refresh runs.
THEOREM RefreshAllOrNothing == Spec => CompleteRefresh
<1>1. IInv /\ [Next]_vars =>
        [refresh /= "off" /\ refresh' = "off" =>
           \/ cache' = cache
           \/ /\ \A r \in begun : cache'[r] /= "unknown"
              /\ \A r \in steady : cache'[r] = "yes"]_vars
  BY NextInv DEF GoodEnd
<1> QED
  BY <1>1, Invariance, PTL DEF Spec, CompleteRefresh
=============================================================================
