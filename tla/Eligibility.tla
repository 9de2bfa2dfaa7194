---------------------------- MODULE Eligibility ----------------------------
(***************************************************************************)
(* src/eligibility_checker.py and its two users: the webhook handlers of   *)
(* event_router.py, many at a time, and the Sentinel's poll task, which    *)
(* also rebuilds the cache.  They share the cache and interleave at every  *)
(* request to GitHub; nothing orders two checks of the same repository.    *)
(*                                                                         *)
(* A repository qualifies by its name, its template or a marker its owners *)
(* add and remove at any time.  GitHub decides its reply to a request at   *)
(* some moment, and the reply arrives at a later one.  While GitHub is     *)
(* down, or limits the rate, every request fails, and the checker takes a  *)
(* failed request for "no".  Repositories are created at any time; none is *)
(* deleted.  recent, during, begun and steady are history variables, used  *)
(* by the properties alone.                                                *)
(***************************************************************************)
EXTENDS Naturals, FiniteSets

CONSTANTS Repos,         \* the repositories the organisation may have
          Named,         \* those whose name matches eligible_repo_patterns
          FromTemplate,  \* those created from the orchestration template
          Markable,      \* those whose owners may add or remove the marker
          Later,         \* those that may be created while the service runs
          Handlers,      \* webhook requests being served
          Sentinel,      \* the poll task
          NoRepo,        \* "no repository"
          PageSize       \* repositories per page of the listing

ASSUME RepoAssumption ==
    /\ IsFiniteSet(Repos)
    /\ Named \subseteq Repos
    /\ FromTemplate \subseteq Repos
    /\ Markable \subseteq Repos
    /\ Later \subseteq Repos
    /\ NoRepo \notin Repos
ASSUME CallerAssumption == Sentinel \notin Handlers
ASSUME PageAssumption == PageSize \in Nat \ {0}

VARIABLES
    cache,     \* _cache
    step,      \* the request a caller's check awaits
    target,    \* the repository it asks about
    reply,     \* what GitHub has replied to it, on its way
    refresh,   \* where refresh_cache stands
    unlisted,  \* repositories on no page yet
    page,      \* those of the current page not evaluated yet
    lastPage,  \* the current page was not full
    fresh,     \* new_cache
    stopped,   \* Sentinel.stop() was called
    org,       \* repositories of the organisation
    marked,    \* those that have the marker now
    github,    \* GitHub answers
    recent,    \* those found to qualify since the refresh that made the cache began
    during,    \* those that qualified since the refresh under way began
    begun,     \* repositories of the organisation when the refresh began
    steady     \* those that have qualified ever since, with GitHub up

callVars    == <<step, target, reply>>
refreshVars == <<refresh, unlisted, page, lastPage, fresh>>
worldVars   == <<org, marked, github>>
history     == <<recent, during, begun, steady>>
vars == <<cache, callVars, refreshVars, worldVars, history, stopped>>

Callers  == Handlers \cup {Sentinel}
Entries  == [Repos -> {"unknown", "yes", "no"}]
Empty    == [r \in Repos |-> "unknown"]
Awaiting(c)  == step[c] /= "idle"
Qualifying   == Named \cup FromTemplate \cup marked
Qualifies(r) == r \in Qualifying

TypeOK ==
    /\ cache \in Entries
    /\ step \in [Callers -> {"idle", "marker", "template"}]
    /\ target \in [Callers -> Repos \cup {NoRepo}]
    /\ reply \in [Callers -> {"none", "match", "other", "failed"}]
    /\ \A c \in Callers : /\ step[c] = "idle" <=> target[c] = NoRepo
                          /\ step[c] = "idle" => reply[c] = "none"
    /\ refresh \in {"off", "listing", "scanning"}
    /\ unlisted \subseteq Repos
    /\ page \subseteq Repos
    /\ refresh = "scanning" => page /= {}
    /\ lastPage \in BOOLEAN
    /\ fresh \in Entries
    /\ stopped \in BOOLEAN
    /\ org \subseteq Repos
    /\ marked \subseteq Markable
    /\ github \in BOOLEAN
    /\ recent \subseteq Repos
    /\ during \subseteq Repos
    /\ begun \subseteq Repos
    /\ steady \subseteq Repos

Init ==
    /\ cache = Empty
    /\ step = [c \in Callers |-> "idle"]
    /\ target = [c \in Callers |-> NoRepo]
    /\ reply = [c \in Callers |-> "none"]
    /\ refresh = "off"
    /\ unlisted = {}
    /\ page = {}
    /\ lastPage = FALSE
    /\ fresh = Empty
    /\ stopped = FALSE
    /\ org = Repos \ Later
    /\ marked = {}
    /\ github \in BOOLEAN
    /\ recent = Named \cup FromTemplate
    /\ during = {}
    /\ begun = {}
    /\ steady = {}

-----------------------------------------------------------------------------
(* refresh_cache.                                                          *)

RefreshBegins ==
    /\ ~stopped
    /\ ~Awaiting(Sentinel)
    /\ refresh = "off"
    /\ refresh' = "listing"
    /\ unlisted' = org
    /\ begun' = org
    /\ steady' = {r \in org : github /\ Qualifies(r)}
    /\ during' = Qualifying
    /\ UNCHANGED <<cache, callVars, page, lastPage, fresh, worldVars, recent, stopped>>

\* refresh_cache returns, or is cancelled, and its locals are gone.
RefreshEnds ==
    /\ refresh' = "off"
    /\ unlisted' = {}
    /\ page' = {}
    /\ lastPage' = FALSE
    /\ fresh' = Empty
    /\ during' = {}
    /\ begun' = {}
    /\ steady' = {}

\* A webhook's check that GitHub has let pass, the reply being on its way.
Passing == {target[h] : h \in {h \in Handlers : reply[h] = "match"}}

\* BUG: update the cache entry by entry instead of replacing it.
FinishByMerging(new) ==
    /\ RefreshEnds
    /\ cache' = [r \in Repos |-> IF cache[r] = "unknown" THEN new[r] ELSE cache[r]]
    /\ recent' = during \cup Passing

\* `self._cache = new_cache`
Finish(new) ==
    /\ RefreshEnds
    /\ cache' = new
    /\ recent' = during \cup Passing

\* BUG: no check for an empty page.
NextPageUnchecked(S) ==
    /\ page' = S
    /\ unlisted' = unlisted \ S
    /\ lastPage' = (Cardinality(S) < PageSize)
    /\ refresh' = "scanning"
    /\ UNCHANGED <<cache, fresh, history>>

\* An empty page ends the listing; another one is scanned.
NextPage(S) ==
    IF S = {}
    THEN Finish(fresh)
    ELSE /\ page' = S
         /\ unlisted' = unlisted \ S
         /\ lastPage' = (Cardinality(S) < PageSize)
         /\ refresh' = "scanning"
         /\ UNCHANGED <<cache, fresh, history>>

\* BUG: a failed request ends the listing like an empty page.
ListReturnsPartly ==
    /\ refresh = "listing"
    /\ \/ ~github /\ Finish(fresh)
       \/ /\ github
          /\ \E S \in SUBSET unlisted :
                /\ Cardinality(S) <= PageSize
                /\ S /= unlisted => Cardinality(S) = PageSize
                /\ NextPage(S)
    /\ UNCHANGED <<callVars, worldVars, stopped>>

\* A page of the listing arrives: it is full unless it is the last.  If the
\* request fails, what was gathered is dropped and the cache stays as it is.
ListReturns ==
    /\ refresh = "listing"
    /\ \/ ~github /\ RefreshEnds /\ UNCHANGED <<cache, recent>>
       \/ /\ github
          /\ \E S \in SUBSET unlisted :
                /\ Cardinality(S) <= PageSize
                /\ S /= unlisted => Cardinality(S) = PageSize
                /\ NextPage(S)
    /\ UNCHANGED <<callVars, worldVars, stopped>>

\* Repository r of the page is evaluated to v; after the last one, the next page
\* is asked for, or the new cache replaces the old.
Evaluated(r, v) ==
    LET new == [fresh EXCEPT ![r] = v]
    IN  IF page = {r} /\ lastPage
        THEN Finish(new)
        ELSE /\ fresh' = new
             /\ page' = page \ {r}
             /\ refresh' = IF page = {r} THEN "listing" ELSE "scanning"
             /\ UNCHANGED <<cache, unlisted, lastPage, history>>

-----------------------------------------------------------------------------
(* _check_eligibility: name, then marker, then template; any match is a yes. *)

Asks(c, r) ==
    /\ step' = [step EXCEPT ![c] = "marker"]
    /\ target' = [target EXCEPT ![c] = r]
    /\ UNCHANGED reply

\* GitHub replies to c's request: whether the repository has the marker, or came from
\* the template.
Replies(c) ==
    /\ Awaiting(c)
    /\ reply[c] = "none"
    /\ LET S == IF step[c] = "marker" THEN marked ELSE FromTemplate
       IN  reply' = [reply EXCEPT ![c] = IF ~github THEN "failed"
                                         ELSE IF target[c] \in S THEN "match" ELSE "other"]
    /\ UNCHANGED <<cache, step, target, refreshVars, worldVars, history, stopped>>

\* BUG: the refresh asks is_eligible, which answers from the cache.
ScanNextFromCache ==
    /\ refresh = "scanning"
    /\ ~Awaiting(Sentinel)
    /\ \E r \in page :
          IF r \in Named \/ cache[r] /= "unknown"
          THEN Evaluated(r, IF r \in Named THEN "yes" ELSE cache[r]) /\ UNCHANGED callVars
          ELSE Asks(Sentinel, r) /\ UNCHANGED <<cache, refreshVars, history>>
    /\ UNCHANGED <<worldVars, stopped>>

\* The repositories of a page are evaluated one after the other.
ScanNext ==
    /\ refresh = "scanning"
    /\ ~Awaiting(Sentinel)
    /\ \E r \in page :
          IF r \in Named
          THEN Evaluated(r, "yes") /\ UNCHANGED callVars
          ELSE Asks(Sentinel, r) /\ UNCHANGED <<cache, refreshVars, history>>
    /\ UNCHANGED <<worldVars, stopped>>

\* The check of caller c ends with v: it belongs to the refresh, or to an
\* is_eligible call, which writes whatever cache there is by now.
Concludes(c, v) ==
    /\ IF c = Sentinel /\ refresh = "scanning"
       THEN Evaluated(target[c], v)
       ELSE cache' = [cache EXCEPT ![target[c]] = v] /\ UNCHANGED <<refreshVars, history>>
    /\ step' = [step EXCEPT ![c] = "idle"]
    /\ target' = [target EXCEPT ![c] = NoRepo]
    /\ reply' = [reply EXCEPT ![c] = "none"]

\* On to the second request.
AsksTemplate(c) ==
    /\ step' = [step EXCEPT ![c] = "template"]
    /\ reply' = [reply EXCEPT ![c] = "none"]
    /\ UNCHANGED <<cache, target, refreshVars, history>>

\* BUG: a failed request counts as a match, and the match is cached.
MarkerReturnsFailOpen(c) ==
    /\ step[c] = "marker"
    /\ reply[c] /= "none"
    /\ IF reply[c] \in {"match", "failed"} THEN Concludes(c, "yes") ELSE AsksTemplate(c)
    /\ UNCHANGED <<worldVars, stopped>>

\* The reply arrives: a 200, anything else, or an exception.
MarkerReturns(c) ==
    /\ step[c] = "marker"
    /\ reply[c] /= "none"
    /\ IF reply[c] = "match" THEN Concludes(c, "yes") ELSE AsksTemplate(c)
    /\ UNCHANGED <<worldVars, stopped>>

TemplateReturns(c) ==
    /\ step[c] = "template"
    /\ reply[c] /= "none"
    /\ Concludes(c, IF reply[c] = "match" THEN "yes" ELSE "no")
    /\ UNCHANGED <<worldVars, stopped>>

-----------------------------------------------------------------------------
(* is_eligible, called for a webhook or for an issue the poll found.  A    *)
(* cached entry is the answer, and nothing changes.                        *)

IsEligible(c, r) ==
    /\ r \in org
    /\ ~Awaiting(c)
    /\ c = Sentinel => ~stopped /\ refresh = "off"
    /\ cache[r] = "unknown"
    /\ IF r \in Named
       THEN cache' = [cache EXCEPT ![r] = "yes"] /\ UNCHANGED callVars
       ELSE Asks(c, r) /\ UNCHANGED cache
    /\ UNCHANGED <<refreshVars, worldVars, history, stopped>>

-----------------------------------------------------------------------------
\* Sentinel.stop() cancels the poll task wherever it stands: a check or a refresh
\* it was in the middle of leaves nothing behind.
SentinelStops ==
    /\ ~stopped
    /\ stopped' = TRUE
    /\ step' = [step EXCEPT ![Sentinel] = "idle"]
    /\ target' = [target EXCEPT ![Sentinel] = NoRepo]
    /\ reply' = [reply EXCEPT ![Sentinel] = "none"]
    /\ RefreshEnds
    /\ UNCHANGED <<cache, worldVars, recent>>

\* A repository created during a refresh may be on a page still to come.
RepoCreated(r) ==
    /\ r \in Later \ org
    /\ org' = org \cup {r}
    /\ \/ UNCHANGED unlisted
       \/ refresh /= "off" /\ unlisted' = unlisted \cup {r}
    /\ UNCHANGED <<cache, callVars, refresh, page, lastPage, fresh, marked, github, history,
                   stopped>>

\* An owner adds or removes the marker.
MarkerChanges(r) ==
    /\ r \in org
    /\ \/ marked' = marked \cup {r} /\ steady' = steady
       \/ /\ marked' = marked \ {r}
          /\ steady' = steady \ ({r} \ (Named \cup FromTemplate))
    /\ recent' = recent \cup marked'
    /\ during' = IF refresh = "off" THEN {} ELSE during \cup marked'
    /\ UNCHANGED <<cache, callVars, refreshVars, org, github, begun, stopped>>

GitHubChanges ==
    /\ github' = ~github
    /\ steady' = {}
    /\ UNCHANGED <<cache, callVars, refreshVars, org, marked, recent, during, begun, stopped>>

Requests == ListReturns \/ ScanNext \/ \E c \in Callers : MarkerReturns(c) \/ TemplateReturns(c)

Next ==
    \/ Requests
    \/ RefreshBegins
    \/ SentinelStops
    \/ GitHubChanges
    \/ \E c \in Callers : Replies(c)
    \/ \E r \in Later : RepoCreated(r)
    \/ \E c \in Callers, r \in Repos : IsEligible(c, r)
    \/ \E r \in Markable : MarkerChanges(r)

Spec == Init /\ [][Next]_vars

-----------------------------------------------------------------------------
(* Properties.                                                             *)

\* A "yes" is no older than the last refresh, whatever failed or raced: the repository
\* has qualified since the refresh that made the cache began, or for a check whose reply
\* was on its way when it ended; one that the refresh under way has gathered qualified
\* since that one began.
NoStaleYes ==
    \A r \in Repos : /\ cache[r] = "yes" => r \in recent
                     /\ fresh[r] = "yes" => r \in during

\* refresh_cache is all or nothing: when it ends, the cache is untouched or knows
\* every repository there was when it began, and as eligible those that have
\* qualified ever since, with GitHub up.
CompleteRefresh ==
    [][refresh /= "off" /\ refresh' = "off" =>
         \/ cache' = cache
         \/ /\ \A r \in begun : cache'[r] /= "unknown"
            /\ \A r \in steady : cache'[r] = "yes"]_vars

\* event_router.py logs "Eligibility check failed ... proceeding with dispatch":
\* a webhook whose check could not be made is not ignored as ineligible.
FailedCheckProceeds ==
    [][\A h \in Handlers :
         Awaiting(h) /\ step'[h] = "idle" /\ cache'[target[h]] = "no" =>
             reply[h] /= "failed"]_vars
=============================================================================
