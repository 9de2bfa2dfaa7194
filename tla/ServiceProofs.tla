--------------------------- MODULE ServiceProofs ---------------------------
(***************************************************************************)
(* Proofs about Service, for any number of deliveries, polls, issues and   *)
(* worktrees: type correctness, git is alone in a worktree while the       *)
(* service is up, only a cloned worktree is dispatched into, and the poll  *)
(* task is never refused.                                                  *)
(*                                                                         *)
(* The inductive invariant IInv adds what a request that has not reached   *)
(* git cannot have (Fresh), that the lock covers git (Locked), what the    *)
(* phases of the lifespan know (Phases) and which trees a git process may  *)
(* be at work on (Cloned).                                                 *)
(***************************************************************************)
EXTENDS Service, SequenceTheorems, TLAPS

Fresh ==
    \A r \in Requests :
        /\ at[r] /= "none" => about[r] \in Issues
        /\ at[r] \in {"none", "lock"} => git[r] = "none" /\ outcome[r] = "none"

Locked ==
    /\ \A r \in Requests : at[r] = "git" => holder[Path(r)] = r
    /\ phase = "up" => \A r \in Requests : git[r] /= "none" => at[r] = "git"

Phases ==
    /\ phase = "down" => \A r \in Requests : ~Active(r) /\ git[r] = "none"
    /\ closed => phase \in {"closing", "drained", "off"}
    /\ phase \in {"closing", "drained", "off"} => \A p \in Polls : ~Active(p)

Sound(w) == tree[w] = "complete" \/ w \in unfinished

Cloned ==
    /\ \A r \in Requests :
          /\ git[r] = "clone" => \/ at[r] = "git" /\ tree[Path(r)] = "partial"
                                 \/ Path(r) \in unfinished
          /\ git[r] \in {"fetch", "pull"} => Sound(Path(r))
    /\ \A w \in Worktrees :
          tree[w] = "partial" =>
              \/ w \in unfinished
              \/ \E r \in Requests : git[r] = "clone" /\ at[r] = "git" /\ Path(r) = w

IInv ==
    /\ TypeOK
    /\ Fresh
    /\ Locked
    /\ Phases
    /\ Cloned
    /\ DispatchNeedsClone
    /\ PollNeverRefused


(***************************************************************************)
(* The lock, the git commands and the dispatcher, one lemma for what each  *)
(* leaves behind.                                                          *)
(***************************************************************************)
\* A worktree's lock and its waiters keep their types when it is released, and
\* the other worktrees' locks stay.
LEMMA ReleaseFacts ==
    ASSUME TypeOK, NEW w \in Worktrees, Release(w)
    PROVE  /\ holder' \in [Worktrees -> Requests \cup {NoRequest}]
           /\ waiting' \in [Worktrees -> Seq(Requests)]
           /\ \A v \in Worktrees : holder'[v] = NoRequest => waiting'[v] = <<>>
           /\ \A v \in Worktrees : v /= w => holder'[v] = holder[v]
<1>1. CASE waiting[w] = <<>>
  BY <1>1 DEF Release, TypeOK
<1>2. CASE waiting[w] /= <<>>
  <2>1. waiting[w] \in Seq(Requests)
    BY DEF TypeOK
  <2>2. Head(waiting[w]) \in Requests /\ Tail(waiting[w]) \in Seq(Requests)
    BY <1>2, <2>1
  <2>3. /\ holder' = [holder EXCEPT ![w] = Head(waiting[w])]
        /\ waiting' = [waiting EXCEPT ![w] = Tail(waiting[w])]
    BY <1>2 DEF Release
  <2> QED
    BY <2>2, <2>3, RequestAssumption DEF TypeOK, Requests
<1> QED BY <1>1, <1>2

\* The start of git under the lock.
LEMMA StartGitFacts ==
    ASSUME TypeOK, NEW r \in Requests, NEW w \in Worktrees, StartGit(r, w)
    PROVE  /\ git' = [git EXCEPT ![r] = IF tree[w] = "absent" THEN "clone" ELSE "fetch"]
           /\ git' \in [Requests -> {"none", "clone", "fetch", "pull"}]
           /\ tree' \in [Worktrees -> {"absent", "partial", "complete"}]
           /\ tree'[w] = IF tree[w] = "absent" THEN "partial" ELSE tree[w]
           /\ \A v \in Worktrees : v /= w => tree'[v] = tree[v]
           /\ at' = [at EXCEPT ![r] = "git"]
           /\ unfinished' = unfinished
BY DEF StartGit, TypeOK

\* The end of a git process touches no worktree but its own.
LEMMA OnDiskFacts ==
    ASSUME TypeOK, NEW r \in Requests, Path(r) \in Worktrees, git[r] /= "none",
           NEW ok \in BOOLEAN, OnDisk(r, ok)
    PROVE  /\ git' = [git EXCEPT ![r] = "none"]
           /\ git' \in [Requests -> {"none", "clone", "fetch", "pull"}]
           /\ tree' \in [Worktrees -> {"absent", "partial", "complete"}]
           /\ \A v \in Worktrees : v /= Path(r) => tree'[v] = tree[v]
           /\ git[r] = "clone" /\ ok => tree'[Path(r)] = "complete"
           /\ git[r] = "clone" /\ ~ok => \/ tree'[Path(r)] = "absent"
                                         \/ Path(r) \in unfinished'
           /\ git[r] /= "clone" => tree'[Path(r)] \in {tree[Path(r)], "complete"}
           /\ unfinished \subseteq unfinished' /\ unfinished' \subseteq Worktrees
<1>1. CASE git[r] = "clone"
  BY <1>1 DEF OnDisk, CloneEnds, TypeOK
<1>2. CASE git[r] /= "clone"
  BY <1>2 DEF OnDisk, TypeOK
<1> QED BY <1>1, <1>2

DispatcherTyped ==
    /\ line \in Seq(Requests)
    /\ current \in Requests \cup {NoRequest}
    /\ outcome \in [Requests -> SD!Outcomes]
    /\ closed \in BOOLEAN

\* A step of the dispatcher keeps its types and gives no outcome to a call that
\* was not made.
LEMMA DispatcherFacts ==
    ASSUME TypeOK,
           \/ SD!Begin \/ SD!Fail \/ SD!Finish \/ SD!Close \/ SD!Abort \/ SD!CancelRest
           \/ \E r \in Requests : SD!Withdraw(r)
           \/ UNCHANGED dispatchVars
    PROVE  /\ DispatcherTyped'
           /\ \A r \in Requests : outcome'[r] = "none" <=> outcome[r] = "none"
<1> USE DEF DispatcherTyped, SD!Outcomes, SD!Produced
<1>0. line \in Seq(Requests) /\ outcome \in [Requests -> SD!Outcomes]
  BY DEF TypeOK
<1>h. line /= <<>> => Head(line) \in Requests /\ Tail(line) \in Seq(Requests)
  BY <1>0
<1>1. CASE SD!Begin
  BY <1>1, <1>h DEF SD!Begin, TypeOK
<1>2. CASE SD!Fail
  BY <1>2, <1>h DEF SD!Fail, TypeOK
<1>3. CASE SD!Finish
  BY <1>3, RequestAssumption DEF SD!Finish, TypeOK
<1>4. CASE SD!Close
  BY <1>4 DEF SD!Close, TypeOK
<1>5. CASE SD!Abort
  BY <1>5 DEF SD!Abort, TypeOK
<1>6. CASE SD!CancelRest
  BY <1>6 DEF SD!CancelRest, SD!Pending, TypeOK
<1>7. CASE \E r \in Requests : SD!Withdraw(r)
  BY <1>7 DEF SD!Withdraw, TypeOK
<1>8. CASE UNCHANGED dispatchVars
  BY <1>8 DEF dispatchVars, TypeOK
<1> QED BY <1>1, <1>2, <1>3, <1>4, <1>5, <1>6, <1>7, <1>8

LEMMA SubmitFacts ==
    ASSUME TypeOK, NEW r \in Requests, SD!Submit(r)
    PROVE  /\ DispatcherTyped'
           /\ outcome' = [outcome EXCEPT ![r] = "pending"]
           /\ ~closed /\ closed' = closed
BY DEF SD!Submit, DispatcherTyped, SD!Outcomes, SD!Produced, TypeOK


LEMMA InitHolds == Init => IInv
<1> SUFFICES ASSUME Init
             PROVE  IInv
  OBVIOUS
<1> USE DEF Init, SD!Init
<1>0. <<>> \in Seq(Requests)
  OBVIOUS
<1>1. TypeOK
  <2>1. waiting \in [Worktrees -> Seq(Requests)]
    BY <1>0
  <2>2. outcome \in [Requests -> SD!Outcomes]
    BY DEF SD!Outcomes, SD!Produced
  <2>3. line \in Seq(Requests) /\ unfinished \subseteq Worktrees
    BY <1>0
  <2> QED BY <2>1, <2>2, <2>3 DEF TypeOK
<1>2. Fresh /\ Locked
  BY DEF Fresh, Locked
<1>3. Phases /\ PollNeverRefused
  BY DEF Phases, PollNeverRefused, Active, Requests
<1>4. Cloned /\ DispatchNeedsClone
  BY DEF Cloned, DispatchNeedsClone
<1> QED BY <1>1, <1>2, <1>3, <1>4 DEF IInv

LEMMA PathTyped ==
    ASSUME Fresh, NEW r \in Requests, at[r] /= "none"
    PROVE  Path(r) \in Worktrees
BY WorktreeAssumption DEF Fresh, Path

\* git returns to its request: the request pulls after its fetch, or leaves with the
\* lock released, and after a failed clone only with an exception.
Leaves(r, ok) ==
    /\ at[r] = "git"
    /\ git[r] /= "none"
    /\ OnDisk(r, ok)
    /\ \/ Proceed(r) /\ (git[r] = "clone" => ok)
       \/ GiveUp(r)
    /\ UNCHANGED <<phase, about>>

Pulls(r) ==
    /\ at[r] = "git"
    /\ git[r] = "fetch"
    /\ git' = [git EXCEPT ![r] = "pull"]
    /\ UNCHANGED <<phase, at, about, tree, unfinished, lockVars, dispatchVars>>

LEMMA ReturnCases ==
    ASSUME NEW r \in Requests, GitReturns(r) \/ PrepareFails(r)
    PROVE  Pulls(r) \/ \E ok \in BOOLEAN : Leaves(r, ok)
<1>1. CASE CloneReturns(r)
  BY <1>1 DEF CloneReturns, Leaves
<1>2. CASE FetchReturns(r)
  BY <1>2 DEF FetchReturns, Leaves, Pulls
<1>3. CASE PullReturns(r)
  BY <1>3 DEF PullReturns, Leaves
<1>4. CASE PrepareFails(r)
  BY <1>4 DEF PrepareFails, Leaves
<1> QED BY <1>1, <1>2, <1>3, <1>4 DEF GitReturns

LEMMA LeavesFacts ==
    ASSUME TypeOK, Fresh, NEW r \in Requests, NEW ok \in BOOLEAN, Leaves(r, ok)
    PROVE  /\ Release(Path(r))
           /\ DispatcherTyped'
           /\ \/ at' = [at EXCEPT ![r] = "failed"]
              \/ closed /\ at' = [at EXCEPT ![r] = "refused"]
              \/ ~closed /\ at' = [at EXCEPT ![r] = "dispatch"]
           /\ closed' = closed
           /\ \A s \in Requests :
                 \/ outcome'[s] = "none"
                 \/ outcome[s] /= "none"
                 \/ s = r /\ (git[r] = "clone" => ok)
<1>1. CASE GiveUp(r)
  BY <1>1 DEF GiveUp, dispatchVars, DispatcherTyped, TypeOK
<1>2. CASE Proceed(r) /\ (git[r] = "clone" => ok)
  <2>1. CASE SD!Submit(r) /\ ~closed /\ at' = [at EXCEPT ![r] = "dispatch"]
    BY <1>2, <2>1, SubmitFacts DEF Proceed, TypeOK
  <2>2. CASE ~(SD!Submit(r) /\ ~closed /\ at' = [at EXCEPT ![r] = "dispatch"])
    BY <1>2, <2>2 DEF Proceed, dispatchVars, DispatcherTyped, TypeOK
  <2> QED BY <2>1, <2>2
<1> QED BY <1>1, <1>2 DEF Leaves

\* A cancelled request: it is cancelled, the lock passes on if it was the holder.
LEMMA CancelFacts ==
    ASSUME TypeOK, Fresh, NEW r \in Requests, Active(r), Cancel(r)
    PROVE  /\ at' = [at EXCEPT ![r] = "cancelled"]
           /\ holder' \in [Worktrees -> Requests \cup {NoRequest}]
           /\ waiting' \in [Worktrees -> Seq(Requests)]
           /\ \A v \in Worktrees : holder'[v] = NoRequest => waiting'[v] = <<>>
           /\ \A v \in Worktrees : v /= Path(r) \/ holder[v] /= r => holder'[v] = holder[v]
           /\ DispatcherTyped'
           /\ closed' = closed
           /\ \A s \in Requests : outcome'[s] = "none" <=> outcome[s] = "none"
           /\ git' = git /\ tree' = tree
           /\ unfinished' = IF git[r] = "clone" THEN unfinished \cup {Path(r)} ELSE unfinished
<1>1. Path(r) \in Worktrees /\ at[r] /= "none"
  BY PathTyped DEF Active
<1>2. /\ at' = [at EXCEPT ![r] = "cancelled"]
      /\ git' = git /\ tree' = tree
      /\ unfinished' = IF git[r] = "clone" THEN unfinished \cup {Path(r)} ELSE unfinished
  BY DEF Cancel
<1>3. CASE at[r] = "dispatch"
  <2>1. UNCHANGED lockVars
    BY <1>3 DEF Cancel
  <2>2. \/ SD!Withdraw(r)
        \/ UNCHANGED dispatchVars
    BY <1>3 DEF Cancel
  <2>3. closed' = closed
    BY <2>2 DEF SD!Withdraw, dispatchVars
  <2> QED BY <1>2, <2>1, <2>2, <2>3, DispatcherFacts DEF lockVars, TypeOK
<1>4. CASE at[r] /= "dispatch"
  <2>1. UNCHANGED dispatchVars
    BY <1>4 DEF Cancel
  <2>2. CASE holder[Path(r)] = r
    <3>1. Release(Path(r))
      BY <1>4, <2>2 DEF Cancel
    <3>2. /\ DispatcherTyped' /\ closed' = closed
          /\ \A s \in Requests : outcome'[s] = "none" <=> outcome[s] = "none"
      BY <2>1, DispatcherFacts DEF dispatchVars
    <3>3. /\ holder' \in [Worktrees -> Requests \cup {NoRequest}]
          /\ waiting' \in [Worktrees -> Seq(Requests)]
          /\ \A v \in Worktrees : holder'[v] = NoRequest => waiting'[v] = <<>>
          /\ \A v \in Worktrees : v /= Path(r) => holder'[v] = holder[v]
      BY <1>1, <3>1, ReleaseFacts
    <3> QED BY <1>2, <2>2, <3>2, <3>3
  <2>3. CASE holder[Path(r)] /= r
    <3>1. /\ holder' = holder
          /\ \E n \in DOMAIN waiting[Path(r)] :
                waiting' = [waiting EXCEPT ![Path(r)] = RemoveAt(@, n)]
      BY <1>4, <2>3 DEF Cancel
    <3>2. PICK n \in DOMAIN waiting[Path(r)] :
             waiting' = [waiting EXCEPT ![Path(r)] = RemoveAt(@, n)]
      BY <3>1
    <3>3. waiting[Path(r)] \in Seq(Requests) /\ n \in 1 .. Len(waiting[Path(r)])
      BY <1>1, <3>2 DEF TypeOK
    <3>4. RemoveAt(waiting[Path(r)], n) \in Seq(Requests)
      BY <3>3 DEF RemoveAt
    <3>5. waiting[Path(r)] /= <<>>
      BY <3>3
    <3>6. holder[Path(r)] /= NoRequest
      BY <1>1, <3>5 DEF TypeOK
    <3> QED
      BY <1>1, <1>2, <2>1, <3>1, <3>2, <3>4, <3>6, DispatcherFacts DEF TypeOK, dispatchVars
  <2> QED BY <2>2, <2>3
<1> QED BY <1>3, <1>4


(***************************************************************************)
(* One lemma per conjunct of IInv, one step per action in each.  A request *)
(* that enters (Accept or Poll) takes the lock and starts git, or waits.   *)
(***************************************************************************)
Enters(r, i) == phase = "up" /\ at[r] = "none" /\ Enter(r, i) /\ UNCHANGED <<phase, dispatchVars>>

Takes(r, w) ==
    /\ holder[w] = NoRequest
    /\ holder' = [holder EXCEPT ![w] = r]
    /\ StartGit(r, w)
    /\ UNCHANGED waiting

Waits(r, w) ==
    /\ holder[w] /= NoRequest
    /\ waiting' = [waiting EXCEPT ![w] = Append(@, r)]
    /\ at' = [at EXCEPT ![r] = "lock"]
    /\ UNCHANGED <<holder, diskVars>>

LEMMA EntersCases ==
    ASSUME NEW r \in Requests, NEW i \in Issues, Enters(r, i)
    PROVE  /\ WorktreeOf[i] \in Worktrees
           /\ about' = [about EXCEPT ![r] = i]
           /\ Takes(r, WorktreeOf[i]) \/ Waits(r, WorktreeOf[i])
BY WorktreeAssumption DEF Enters, Enter, Takes, Waits

\* Shutdown cancels a request of the poll task, or finds none.
LEMMA ShutdownCases ==
    ASSUME Shutdown
    PROVE  \/ \E p \in Polls : Active(p) /\ Cancel(p)
           \/ UNCHANGED <<at, lockVars, diskVars, dispatchVars>>
BY DEF Shutdown

\* The dispatcher and the lifespan at work, with the requests left alone.
Aside ==
    /\ \/ DispatcherStep \/ Start \/ StopDispatcher \/ DispatcherAborts \/ DispatcherDrains
       \/ LifespanEnds
    /\ UNCHANGED <<at, about, lockVars, diskVars>>

LEMMA AsideCases ==
    ASSUME DispatcherStep \/ Start \/ LifespanStep
    PROVE  Aside /\ (\/ SD!Begin \/ SD!Fail \/ SD!Finish \/ SD!Close \/ SD!Abort
                     \/ SD!CancelRest \/ UNCHANGED dispatchVars)
BY DEF DispatcherStep, Start, LifespanStep, StopDispatcher, DispatcherAborts, DispatcherDrains,
       LifespanEnds, Aside

LEMMA NextCases ==
    ASSUME Next
    PROVE  \/ \E r \in Requests, i \in Issues : Enters(r, i)
           \/ \E r \in Requests : Acquire(r)
           \/ \E r \in Requests : Pulls(r)
           \/ \E r \in Requests, ok \in BOOLEAN : Leaves(r, ok)
           \/ \E r \in Requests : OrphanExits(r)
           \/ \E r \in Requests : Answered(r)
           \/ DispatcherStep \/ Start \/ LifespanStep
           \/ Shutdown
           \/ ProcessEnds
<1>1. ASSUME NEW i \in Issues, NEW d \in Deliveries, Accept(d, i)
      PROVE  \E r \in Requests : Enters(r, i)
  BY <1>1 DEF Accept, Enters, Requests
<1>2. ASSUME NEW i \in Issues, NEW p \in Polls, Poll(p, i)
      PROVE  \E r \in Requests : Enters(r, i)
  BY <1>2 DEF Poll, Enters, Requests
<1> QED BY <1>1, <1>2, ReturnCases DEF Next

LEMMA TypeStep == IInv /\ [Next]_vars => TypeOK'
<1> SUFFICES ASSUME IInv, [Next]_vars
             PROVE  TypeOK'
  OBVIOUS
<1>0. TypeOK /\ Fresh
  BY DEF IInv
<1>1. ASSUME NEW r \in Requests, NEW i \in Issues, Enters(r, i)
      PROVE  TypeOK'
  <2> DEFINE w == WorktreeOf[i]
  <2>1. w \in Worktrees /\ about' \in [Requests -> Issues \cup {NoIssue}]
    BY <1>0, <1>1, EntersCases DEF TypeOK
  <2>2. CASE Takes(r, w)
    BY <1>0, <1>1, <2>1, <2>2, StartGitFacts, RequestAssumption
       DEF Takes, Enters, dispatchVars, TypeOK, Requests
  <2>3. CASE Waits(r, w)
    BY <1>0, <1>1, <2>1, <2>3 DEF Waits, Enters, dispatchVars, diskVars, TypeOK
  <2> QED BY <1>1, <2>2, <2>3, EntersCases
<1>2. ASSUME NEW r \in Requests, Acquire(r)
      PROVE  TypeOK'
  <2>1. Path(r) \in Worktrees
    BY <1>0, <1>2, PathTyped DEF Acquire
  <2> QED
    BY <1>0, <1>2, <2>1, StartGitFacts DEF Acquire, lockVars, dispatchVars, TypeOK
<1>3. ASSUME NEW r \in Requests, Pulls(r)
      PROVE  TypeOK'
  BY <1>0, <1>3 DEF Pulls, lockVars, dispatchVars, TypeOK
<1>4. ASSUME NEW r \in Requests, NEW ok \in BOOLEAN, Leaves(r, ok)
      PROVE  TypeOK'
  <2>1. Path(r) \in Worktrees /\ git[r] /= "none" /\ OnDisk(r, ok) /\ UNCHANGED <<phase, about>>
    BY <1>0, <1>4, PathTyped DEF Leaves
  <2>2. /\ git' \in [Requests -> {"none", "clone", "fetch", "pull"}]
        /\ tree' \in [Worktrees -> {"absent", "partial", "complete"}]
        /\ unfinished' \subseteq Worktrees
    BY <1>0, <2>1, OnDiskFacts
  <2>3. /\ holder' \in [Worktrees -> Requests \cup {NoRequest}]
        /\ waiting' \in [Worktrees -> Seq(Requests)]
        /\ \A v \in Worktrees : holder'[v] = NoRequest => waiting'[v] = <<>>
    BY <1>0, <1>4, <2>1, LeavesFacts, ReleaseFacts
  <2>4. DispatcherTyped'
    BY <1>0, <1>4, LeavesFacts
  <2>5. at' \in [Requests -> {"none", "lock", "git", "dispatch", "done", "failed", "refused",
                              "cancelled", "lost"}]
    BY <1>0, <1>4, LeavesFacts DEF TypeOK
  <2> QED BY <2>5, <1>0, <2>1, <2>2, <2>3, <2>4 DEF DispatcherTyped, TypeOK
<1>5. ASSUME NEW r \in Requests, OrphanExits(r)
      PROVE  TypeOK'
  <2>1. PICK ok \in BOOLEAN : OnDisk(r, ok)
    BY <1>5 DEF OrphanExits
  <2>2. at[r] /= "none" /\ Path(r) \in Worktrees
    BY <1>0, <1>5, PathTyped DEF OrphanExits, Fresh
  <2>3. /\ git' \in [Requests -> {"none", "clone", "fetch", "pull"}]
        /\ tree' \in [Worktrees -> {"absent", "partial", "complete"}]
        /\ unfinished' \subseteq Worktrees
    BY <1>0, <1>5, <2>1, <2>2, OnDiskFacts DEF OrphanExits
  <2> QED
    BY <1>0, <1>5, <2>3 DEF OrphanExits, lockVars, dispatchVars, TypeOK
<1>6. ASSUME NEW r \in Requests, Answered(r)
      PROVE  TypeOK'
  BY <1>0, <1>6 DEF Answered, lockVars, diskVars, dispatchVars, TypeOK
<1>7. CASE DispatcherStep \/ Start \/ LifespanStep
  <2>1. DispatcherTyped'
    BY <1>0, <1>7, AsideCases, DispatcherFacts
  <2>2. UNCHANGED <<at, about, lockVars, diskVars>>
    BY <1>7, AsideCases DEF Aside
  <2>3. phase' \in {"down", "up", "stopping", "closing", "drained", "off"}
    BY <1>0, <1>7 DEF DispatcherStep, Start, LifespanStep, StopDispatcher, DispatcherAborts,
                      DispatcherDrains, LifespanEnds, TypeOK
  <2> QED BY <1>0, <2>1, <2>2, <2>3 DEF lockVars, diskVars, DispatcherTyped, TypeOK
<1>8. CASE Shutdown
  <2>1. phase' = "stopping" /\ about' = about
    BY <1>8 DEF Shutdown
  <2>2. ASSUME NEW p \in Polls, Active(p), Cancel(p)
        PROVE  TypeOK'
    <3>1. p \in Requests /\ Path(p) \in Worktrees
      BY <1>0, <2>2, PathTyped DEF Requests, Active
    <3>2. /\ at' = [at EXCEPT ![p] = "cancelled"]
          /\ holder' \in [Worktrees -> Requests \cup {NoRequest}]
          /\ waiting' \in [Worktrees -> Seq(Requests)]
          /\ \A v \in Worktrees : holder'[v] = NoRequest => waiting'[v] = <<>>
          /\ DispatcherTyped'
          /\ git' = git /\ tree' = tree
          /\ unfinished' \subseteq unfinished \cup {Path(p)}
      BY <1>0, <2>2, <3>1, CancelFacts
    <3> QED BY <1>0, <2>1, <3>1, <3>2 DEF DispatcherTyped, TypeOK
  <2>3. CASE UNCHANGED <<at, lockVars, diskVars, dispatchVars>>
    BY <1>0, <2>1, <2>3 DEF lockVars, diskVars, dispatchVars, TypeOK
  <2> QED BY <1>8, <2>2, <2>3, ShutdownCases
<1>9. CASE ProcessEnds
  <2>1. \A r \in Requests : git[r] = "clone" => Path(r) \in Worktrees
    BY <1>0, PathTyped DEF Fresh
  <2>2. unfinished' \subseteq Worktrees
    BY <1>0, <1>9, <2>1 DEF ProcessEnds, TypeOK
  <2>3. outcome' \in [Requests -> SD!Outcomes]
    BY <1>0, <1>9 DEF ProcessEnds, TypeOK, SD!Outcomes, SD!Produced
  <2>4. at' \in [Requests -> {"none", "lock", "git", "dispatch", "done", "failed", "refused",
                              "cancelled", "lost"}]
    BY <1>0, <1>9 DEF ProcessEnds, TypeOK
  <2>5. waiting' \in [Worktrees -> Seq(Requests)] /\ line' \in Seq(Requests)
    <3>1. <<>> \in Seq(Requests)
      OBVIOUS
    <3> QED BY <1>9, <3>1 DEF ProcessEnds
  <2> QED
    BY <1>0, <1>9, <2>2, <2>3, <2>4, <2>5 DEF ProcessEnds, TypeOK
<1>10. CASE UNCHANGED vars
  BY <1>0, <1>10 DEF vars, lockVars, diskVars, dispatchVars, TypeOK
<1> QED BY <1>1, <1>2, <1>3, <1>4, <1>5, <1>6, <1>7, <1>8, <1>9, <1>10, NextCases

\* A request keeps its issue, and so its worktree.
LEMMA PathKept ==
    ASSUME IInv, [Next]_vars
    PROVE  \A r \in Requests : at[r] /= "none" => about'[r] = about[r] /\ Path(r)' = Path(r)
<1>0. TypeOK
  BY DEF IInv
<1>1. ASSUME NEW r \in Requests, NEW i \in Issues, Enters(r, i)
      PROVE  \A s \in Requests : at[s] /= "none" => about'[s] = about[s]
  BY <1>0, <1>1, EntersCases DEF Enters, TypeOK
<1>2. ASSUME NEW r \in Requests,
             \/ Acquire(r) \/ Pulls(r) \/ OrphanExits(r) \/ Answered(r)
             \/ \E ok \in BOOLEAN : Leaves(r, ok)
      PROVE  about' = about
  BY <1>2 DEF Acquire, Pulls, OrphanExits, Answered, Leaves
<1>3. CASE DispatcherStep \/ Start \/ LifespanStep
  BY <1>3, AsideCases DEF Aside, Path
<1>4. CASE Shutdown \/ ProcessEnds \/ UNCHANGED vars
  BY <1>4 DEF Shutdown, ProcessEnds, vars, Path
<1> QED BY <1>1, <1>2, <1>3, <1>4, NextCases DEF Path

LEMMA FreshStep == IInv /\ [Next]_vars => Fresh'
<1> SUFFICES ASSUME IInv, [Next]_vars
             PROVE  Fresh'
  OBVIOUS
<1>0. TypeOK /\ Fresh
  BY DEF IInv
<1>p. \A r \in Requests : at[r] /= "none" => about'[r] = about[r] /\ Path(r)' = Path(r)
  BY PathKept
<1>1. ASSUME NEW r \in Requests, NEW i \in Issues, Enters(r, i)
      PROVE  Fresh'
  <2>1. /\ about' = [about EXCEPT ![r] = i]
        /\ outcome' = outcome
        /\ at[r] = "none"
    BY <1>1, EntersCases DEF Enters, dispatchVars
  <2>2. \/ at' = [at EXCEPT ![r] = "git"] /\ \A s \in Requests : s /= r => git'[s] = git[s]
        \/ at' = [at EXCEPT ![r] = "lock"] /\ git' = git
    BY <1>0, <1>1, EntersCases, StartGitFacts DEF Takes, Waits, diskVars, TypeOK
  <2> QED BY <1>0, <2>1, <2>2 DEF Fresh, TypeOK
<1>2. ASSUME NEW r \in Requests, Acquire(r)
      PROVE  Fresh'
  <2>1. /\ Path(r) \in Worktrees
        /\ StartGit(r, Path(r))
        /\ outcome' = outcome /\ about' = about
    BY <1>0, <1>2, PathTyped DEF Acquire, dispatchVars
  <2>2. at' = [at EXCEPT ![r] = "git"] /\ \A s \in Requests : s /= r => git'[s] = git[s]
    BY <1>0, <2>1, StartGitFacts DEF TypeOK
  <2> QED BY <1>0, <1>2, <2>1, <2>2 DEF Acquire, Fresh, TypeOK
<1>3. ASSUME NEW r \in Requests, Pulls(r)
      PROVE  Fresh'
  BY <1>0, <1>3 DEF Pulls, dispatchVars, Fresh, TypeOK
<1>4. ASSUME NEW r \in Requests, NEW ok \in BOOLEAN, Leaves(r, ok)
      PROVE  Fresh'
  <2>1. /\ at[r] = "git" /\ about' = about
        /\ git' = [git EXCEPT ![r] = "none"]
    BY <1>4 DEF Leaves, OnDisk
  <2>2. /\ \E x \in {"failed", "refused", "dispatch"} : at' = [at EXCEPT ![r] = x]
        /\ \A s \in Requests : s = r \/ outcome'[s] = "none" \/ outcome[s] /= "none"
    BY <1>0, <1>4, LeavesFacts
  <2> QED BY <1>0, <2>1, <2>2 DEF Fresh, TypeOK
<1>5. ASSUME NEW r \in Requests, OrphanExits(r)
      PROVE  Fresh'
  BY <1>0, <1>5 DEF OrphanExits, OnDisk, dispatchVars, Fresh, TypeOK
<1>6. ASSUME NEW r \in Requests, Answered(r)
      PROVE  Fresh'
  <2>1. \E x \in {"failed", "cancelled", "done"} : at' = [at EXCEPT ![r] = x]
    BY <1>6, Zenon DEF Answered
  <2> QED BY <1>0, <1>6, <2>1 DEF Answered, diskVars, dispatchVars, Fresh, TypeOK
<1>7. CASE DispatcherStep \/ Start \/ LifespanStep
  <2>1. \A s \in Requests : outcome'[s] = "none" <=> outcome[s] = "none"
    BY <1>0, <1>7, AsideCases, DispatcherFacts
  <2> QED BY <1>0, <1>7, <2>1, AsideCases DEF Aside, diskVars, Fresh
<1>8. CASE Shutdown
  <2>1. ASSUME NEW p \in Polls, Active(p), Cancel(p)
        PROVE  Fresh'
    <3>1. p \in Requests /\ about' = about
      BY <1>8 DEF Shutdown, Requests
    <3>2. /\ at' = [at EXCEPT ![p] = "cancelled"]
          /\ \A s \in Requests : outcome'[s] = "none" <=> outcome[s] = "none"
          /\ git' = git
      BY <1>0, <2>1, <3>1, CancelFacts
    <3> QED BY <1>0, <2>1, <3>1, <3>2 DEF Active, Fresh, TypeOK
  <2>2. CASE UNCHANGED <<at, lockVars, diskVars, dispatchVars>>
    BY <1>0, <1>8, <2>2 DEF Shutdown, diskVars, dispatchVars, Fresh
  <2> QED BY <1>8, <2>1, <2>2, ShutdownCases
<1>9. CASE ProcessEnds
  BY <1>0, <1>9 DEF ProcessEnds, Active, Fresh, TypeOK
<1>10. CASE UNCHANGED vars
  BY <1>0, <1>10 DEF vars, diskVars, dispatchVars, Fresh
<1> QED BY <1>1, <1>2, <1>3, <1>4, <1>5, <1>6, <1>7, <1>8, <1>9, <1>10, NextCases

LEMMA LockedStep == IInv /\ [Next]_vars => Locked'
<1> SUFFICES ASSUME IInv, [Next]_vars
             PROVE  Locked'
  OBVIOUS
<1>0. TypeOK /\ Fresh /\ Locked /\ Phases
  BY DEF IInv
<1>p. /\ \A r \in Requests : at[r] /= "none" => about'[r] = about[r] /\ Path(r)' = Path(r)
      /\ \A r \in Requests : at[r] /= "none" => Path(r) \in Worktrees
  BY <1>0, PathKept, PathTyped
<1>1. ASSUME NEW r \in Requests, NEW i \in Issues, Enters(r, i)
      PROVE  Locked'
  <2> DEFINE w == WorktreeOf[i]
  <2>1. w \in Worktrees /\ Path(r)' = w /\ at[r] = "none" /\ phase = "up" /\ phase' = "up"
    BY <1>0, <1>1, EntersCases DEF Enters, Path, TypeOK
  <2>2. CASE Takes(r, w)
    <3>1. /\ at' = [at EXCEPT ![r] = "git"]
          /\ holder' = [holder EXCEPT ![w] = r] /\ holder[w] = NoRequest
          /\ \A s \in Requests : s /= r => git'[s] = git[s]
      BY <1>0, <2>1, <2>2, StartGitFacts DEF Takes, TypeOK
    <3>2. \A s \in Requests : at'[s] = "git" => holder'[Path(s)'] = s
      <4> TAKE s \in Requests
      <4>1. CASE s = r
        BY <1>0, <2>1, <3>1, <4>1 DEF TypeOK
      <4>2. CASE s /= r /\ at[s] = "git"
        <5>1. holder[Path(s)] = s /\ s /= NoRequest /\ Path(s)' = Path(s) /\ Path(s) \in Worktrees
          BY <1>0, <1>p, <4>2, RequestAssumption DEF Locked, Requests
        <5> QED BY <1>0, <2>1, <3>1, <5>1 DEF TypeOK
      <4>3. CASE s /= r /\ at[s] /= "git"
        BY <1>0, <3>1, <4>3 DEF TypeOK
      <4> QED BY <4>1, <4>2, <4>3
    <3> QED BY <1>0, <2>1, <3>1, <3>2 DEF Locked, TypeOK
  <2>3. CASE Waits(r, w)
    BY <1>0, <1>p, <2>1, <2>3 DEF Waits, diskVars, Locked, TypeOK
  <2> QED BY <1>1, <2>2, <2>3, EntersCases
<1>2. ASSUME NEW r \in Requests, Acquire(r)
      PROVE  Locked'
  <2>1. /\ Path(r) \in Worktrees /\ Path(r)' = Path(r) /\ at[r] = "lock" /\ holder[Path(r)] = r
        /\ StartGit(r, Path(r))
        /\ holder' = holder /\ phase' = phase
    BY <1>p, <1>2 DEF Acquire, lockVars
  <2>2. at' = [at EXCEPT ![r] = "git"] /\ \A s \in Requests : s /= r => git'[s] = git[s]
    BY <1>0, <2>1, StartGitFacts DEF TypeOK
  <2> QED BY <1>0, <1>p, <2>1, <2>2 DEF Locked, TypeOK
<1>3. ASSUME NEW r \in Requests, Pulls(r)
      PROVE  Locked'
  BY <1>0, <1>p, <1>3 DEF Pulls, lockVars, Locked, TypeOK
<1>4. ASSUME NEW r \in Requests, NEW ok \in BOOLEAN, Leaves(r, ok)
      PROVE  Locked'
  <2>1. /\ at[r] = "git" /\ phase' = phase
        /\ git' = [git EXCEPT ![r] = "none"]
    BY <1>4 DEF Leaves, OnDisk
  <2>2. \E x \in {"failed", "refused", "dispatch"} : at' = [at EXCEPT ![r] = x]
    BY <1>0, <1>4, LeavesFacts
  <2>3. \A v \in Worktrees : v /= Path(r) => holder'[v] = holder[v]
    BY <1>0, <1>p, <1>4, <2>1, LeavesFacts, ReleaseFacts
  <2> QED BY <1>0, <1>p, <2>1, <2>2, <2>3 DEF Locked, TypeOK
<1>5. ASSUME NEW r \in Requests, OrphanExits(r)
      PROVE  Locked'
  BY <1>0, <1>p, <1>5 DEF OrphanExits, OnDisk, lockVars, Locked, TypeOK
<1>6. ASSUME NEW r \in Requests, Answered(r)
      PROVE  Locked'
  <2>1. \E x \in {"failed", "cancelled", "done"} : at' = [at EXCEPT ![r] = x]
    BY <1>6, Zenon DEF Answered
  <2>2. at[r] = "dispatch" /\ UNCHANGED <<phase, holder, git>>
    BY <1>6 DEF Answered, lockVars, diskVars
  <2> QED BY <1>0, <1>p, <2>1, <2>2 DEF Locked, TypeOK
<1>7. CASE DispatcherStep \/ Start \/ LifespanStep
  <2>1. phase' = "up" => phase = "up" \/ phase = "down"
    BY <1>7 DEF DispatcherStep, Start, LifespanStep, StopDispatcher, DispatcherAborts,
               DispatcherDrains, LifespanEnds
  <2>2. UNCHANGED <<at, about, holder, git>>
    BY <1>7, AsideCases DEF Aside, lockVars, diskVars
  <2> QED BY <1>0, <1>p, <2>1, <2>2 DEF Locked, Phases, Path
<1>8. CASE Shutdown
  <2>1. phase' = "stopping"
    BY <1>8 DEF Shutdown
  <2>2. ASSUME NEW p \in Polls, Active(p), Cancel(p)
        PROVE  Locked'
    <3>1. p \in Requests
      BY DEF Requests
    <3>2. /\ at' = [at EXCEPT ![p] = "cancelled"]
          /\ \A v \in Worktrees : holder[v] /= p => holder'[v] = holder[v]
      BY <1>0, <2>2, <3>1, CancelFacts
    <3> QED BY <1>0, <1>p, <2>1, <3>1, <3>2 DEF Locked, TypeOK
  <2>3. CASE UNCHANGED <<at, lockVars, diskVars, dispatchVars>>
    BY <1>0, <1>p, <2>1, <2>3 DEF lockVars, Locked
  <2> QED BY <1>8, <2>2, <2>3, ShutdownCases
<1>9. CASE ProcessEnds
  <2>1. phase' = "down" /\ \A r \in Requests : at'[r] /= "git"
    BY <1>0, <1>9 DEF ProcessEnds, Active, TypeOK
  <2> QED BY <2>1 DEF Locked
<1>10. CASE UNCHANGED vars
  BY <1>0, <1>p, <1>10 DEF vars, lockVars, diskVars, Locked
<1> QED BY <1>1, <1>2, <1>3, <1>4, <1>5, <1>6, <1>7, <1>8, <1>9, <1>10, NextCases

LEMMA PhasesStep == IInv /\ [Next]_vars => Phases' /\ PollNeverRefused'
<1> SUFFICES ASSUME IInv, [Next]_vars
             PROVE  Phases' /\ PollNeverRefused'
  OBVIOUS
<1>0. TypeOK /\ Fresh /\ Phases /\ PollNeverRefused /\ Polls \subseteq Requests
  BY DEF IInv, Requests
<1>1. ASSUME NEW r \in Requests, NEW i \in Issues, Enters(r, i)
      PROVE  Phases' /\ PollNeverRefused'
  <2>1. phase = "up" /\ phase' = "up" /\ closed' = closed
    BY <1>1 DEF Enters, dispatchVars
  <2>2. at' = [at EXCEPT ![r] = "git"] \/ at' = [at EXCEPT ![r] = "lock"]
    BY <1>0, <1>1, EntersCases, StartGitFacts DEF Takes, Waits
  <2> QED BY <1>0, <2>1, <2>2 DEF Phases, PollNeverRefused, TypeOK
<1>2. ASSUME NEW r \in Requests, Acquire(r)
      PROVE  Phases' /\ PollNeverRefused'
  <2>1. at[r] = "lock" /\ at' = [at EXCEPT ![r] = "git"] /\ UNCHANGED <<phase, closed>>
    BY <1>2 DEF Acquire, StartGit, dispatchVars
  <2> QED BY <1>0, <2>1 DEF Phases, PollNeverRefused, Active, TypeOK
<1>3. ASSUME NEW r \in Requests, Pulls(r)
      PROVE  Phases' /\ PollNeverRefused'
  BY <1>0, <1>3 DEF Pulls, dispatchVars, Phases, PollNeverRefused, Active, TypeOK
<1>4. ASSUME NEW r \in Requests, NEW ok \in BOOLEAN, Leaves(r, ok)
      PROVE  Phases' /\ PollNeverRefused'
  <2>1. at[r] = "git" /\ phase' = phase
    BY <1>4 DEF Leaves
  <2>2. /\ \/ at' = [at EXCEPT ![r] = "failed"]
           \/ closed /\ at' = [at EXCEPT ![r] = "refused"]
           \/ ~closed /\ at' = [at EXCEPT ![r] = "dispatch"]
        /\ closed' = closed
    BY <1>0, <1>4, LeavesFacts
  <2>3. phase /= "down" /\ (closed \/ phase \in {"closing", "drained", "off"} => r \notin Polls)
    BY <1>0, <2>1 DEF Phases, Active
  <2> QED BY <1>0, <2>1, <2>2, <2>3 DEF Phases, PollNeverRefused, Active, TypeOK
<1>5. ASSUME NEW r \in Requests, OrphanExits(r)
      PROVE  Phases' /\ PollNeverRefused'
  BY <1>0, <1>5 DEF OrphanExits, OnDisk, dispatchVars, Phases, PollNeverRefused, Active, TypeOK
<1>6. ASSUME NEW r \in Requests, Answered(r)
      PROVE  Phases' /\ PollNeverRefused'
  <2>1. \E x \in {"failed", "cancelled", "done"} : at' = [at EXCEPT ![r] = x]
    BY <1>6, Zenon DEF Answered
  <2>2. UNCHANGED <<phase, closed, git>>
    BY <1>6 DEF Answered, diskVars, dispatchVars
  <2> QED BY <1>0, <2>1, <2>2 DEF Phases, PollNeverRefused, Active, TypeOK
<1>7. CASE DispatcherStep \/ Start \/ LifespanStep
  <2>1. UNCHANGED <<at, git>>
    BY <1>7, AsideCases DEF Aside, diskVars
  <2>2. CASE DispatcherStep \/ Start
    <3>1. closed' = closed
      BY <2>2 DEF DispatcherStep, Start, dispatchVars, SD!Begin, SD!Fail, SD!Finish
    <3>2. phase' = phase \/ (phase = "down" /\ phase' = "up")
      BY <2>2 DEF DispatcherStep, Start
    <3> QED BY <1>0, <2>1, <3>1, <3>2 DEF Phases, PollNeverRefused, Active
  <2>3. CASE LifespanStep
    <3>1. phase' \in {"closing", "drained", "off"} /\ \A p \in Polls : ~Active(p)
      BY <1>0, <2>3 DEF LifespanStep, StopDispatcher, DispatcherAborts, DispatcherDrains,
                       LifespanEnds, Phases
    <3> QED BY <1>0, <2>1, <3>1 DEF Phases, PollNeverRefused, Active
  <2> QED BY <1>7, <2>2, <2>3
<1>8. CASE Shutdown
  <2>1. phase = "up" /\ phase' = "stopping"
    BY <1>8 DEF Shutdown
  <2>2. ASSUME NEW p \in Polls, Active(p), Cancel(p)
        PROVE  Phases' /\ PollNeverRefused'
    <3>1. p \in Requests
      BY DEF Requests
    <3>2. at' = [at EXCEPT ![p] = "cancelled"] /\ closed' = closed
      BY <1>0, <2>2, <3>1, CancelFacts
    <3> QED BY <1>0, <2>1, <3>1, <3>2 DEF Phases, PollNeverRefused, Active, TypeOK
  <2>3. CASE UNCHANGED <<at, lockVars, diskVars, dispatchVars>>
    BY <1>0, <2>1, <2>3 DEF dispatchVars, Phases, PollNeverRefused, Active
  <2> QED BY <1>8, <2>2, <2>3, ShutdownCases
<1>9. CASE ProcessEnds
  BY <1>0, <1>9 DEF ProcessEnds, Phases, PollNeverRefused, Active, TypeOK
<1>10. CASE UNCHANGED vars
  BY <1>0, <1>10 DEF vars, diskVars, dispatchVars, Phases, PollNeverRefused, Active
<1> QED BY <1>1, <1>2, <1>3, <1>4, <1>5, <1>6, <1>7, <1>8, <1>9, <1>10, NextCases

(***************************************************************************)
(* The disk.  A sound worktree stays sound, for only a clone that was      *)
(* abandoned can end up removing one; a partial one is being cloned by the *)
(* holder of its lock or was abandoned.                                    *)
(***************************************************************************)
\* The end of r's git keeps every worktree sound, and a partial one only with its cloner.
LEMMA OnDiskSound ==
    ASSUME IInv, NEW r \in Requests, Path(r) \in Worktrees, git[r] /= "none",
           NEW ok \in BOOLEAN, OnDisk(r, ok)
    PROVE  /\ \A v \in Worktrees : Sound(v) => Sound(v)'
           /\ \A v \in Worktrees :
                 tree'[v] = "partial" =>
                     \/ v \in unfinished'
                     \/ tree[v] = "partial" /\ (v = Path(r) => git[r] /= "clone")
           /\ \A s \in Requests :
                 s /= r /\ at[s] = "git" /\ git[s] = "clone" /\ tree[Path(s)] = "partial" =>
                     tree'[Path(s)] = "partial" \/ Path(s) \in unfinished
           /\ (git[r] = "clone" => ok) => tree'[Path(r)] = "complete" \/ Path(r) \in unfinished
           /\ unfinished \subseteq unfinished'
<1>1. TypeOK /\ Fresh /\ Locked /\ Cloned
  BY DEF IInv
<1>2. /\ \A v \in Worktrees : v /= Path(r) => tree'[v] = tree[v]
      /\ git[r] = "clone" /\ ok => tree'[Path(r)] = "complete"
      /\ git[r] = "clone" /\ ~ok => tree'[Path(r)] = "absent" \/ Path(r) \in unfinished'
      /\ git[r] /= "clone" => tree'[Path(r)] \in {tree[Path(r)], "complete"}
      /\ unfinished \subseteq unfinished'
  BY <1>1, OnDiskFacts
<1>3. git[r] = "clone" => tree[Path(r)] /= "complete" \/ Path(r) \in unfinished
  BY <1>1 DEF Cloned
<1>4. git[r] /= "clone" => Sound(Path(r))
  BY <1>1 DEF Cloned, TypeOK
<1>5. \A v \in Worktrees : Sound(v) => Sound(v)'
  BY <1>2, <1>3 DEF Sound
<1>6. ASSUME NEW s \in Requests, s /= r, at[s] = "git", git[s] = "clone", tree[Path(s)] = "partial"
      PROVE  tree'[Path(s)] = "partial" \/ Path(s) \in unfinished
  <2>1. Path(s) \in Worktrees
    BY <1>1, <1>6, PathTyped
  <2>2. CASE Path(s) /= Path(r)
    BY <1>2, <1>6, <2>1, <2>2
  <2>3. CASE Path(s) = Path(r)
    <3>1. at[r] /= "git"
      BY <1>1, <1>6, <2>3 DEF Locked
    <3> QED BY <1>1, <1>4, <1>6, <2>3, <3>1 DEF Cloned, Sound
  <2> QED BY <2>2, <2>3
<1>7. (git[r] = "clone" => ok) => tree'[Path(r)] = "complete" \/ Path(r) \in unfinished
  BY <1>2, <1>4 DEF Sound
<1> QED BY <1>2, <1>5, <1>6, <1>7

\* git starts in an absent worktree as a clone, in any other only if it is sound.
LEMMA StartGitSound ==
    ASSUME IInv, NEW r \in Requests, NEW w \in Worktrees, at[r] /= "git",
           holder[w] \in {NoRequest, r}, StartGit(r, w)
    PROVE  /\ \A v \in Worktrees : Sound(v) => Sound(v)'
           /\ \/ git'[r] = "clone" /\ tree'[w] = "partial"
              \/ git'[r] = "fetch" /\ Sound(w)'
           /\ tree'[w] = tree[w] \/ tree[w] = "absent"
           /\ \A v \in Worktrees : v /= w => tree'[v] = tree[v]
           /\ \A s \in Requests : s /= r => git'[s] = git[s] /\ at'[s] = at[s]
           /\ at'[r] = "git"
           /\ unfinished' = unfinished
<1>1. TypeOK /\ Locked /\ Cloned
  BY DEF IInv
<1>2. /\ git' = [git EXCEPT ![r] = IF tree[w] = "absent" THEN "clone" ELSE "fetch"]
      /\ tree'[w] = IF tree[w] = "absent" THEN "partial" ELSE tree[w]
      /\ \A v \in Worktrees : v /= w => tree'[v] = tree[v]
      /\ at' = [at EXCEPT ![r] = "git"]
      /\ unfinished' = unfinished
  BY <1>1, StartGitFacts
<1>3. tree[w] /= "absent" => Sound(w)
  <2> SUFFICES ASSUME tree[w] = "partial", w \notin unfinished
               PROVE  FALSE
    BY <1>1 DEF Sound, TypeOK
  <2>1. PICK s \in Requests : at[s] = "git" /\ Path(s) = w
    BY <1>1 DEF Cloned
  <2>2. holder[w] = s /\ s /= NoRequest
    BY <1>1, <2>1, RequestAssumption DEF Locked, Requests
  <2> QED BY <2>1, <2>2
<1>4. \A v \in Worktrees : Sound(v) => Sound(v)'
  BY <1>2 DEF Sound
<1>5. \/ git'[r] = "clone" /\ tree'[w] = "partial"
      \/ git'[r] = "fetch" /\ Sound(w)'
  BY <1>1, <1>2, <1>3 DEF Sound, TypeOK
<1> QED BY <1>1, <1>2, <1>4, <1>5 DEF TypeOK

\* Whatever happens, a sound worktree stays sound.
LEMMA SoundKept ==
    ASSUME IInv, [Next]_vars
    PROVE  \A v \in Worktrees : Sound(v) => Sound(v)'
<1>0. TypeOK /\ Fresh
  BY DEF IInv
<1>1. ASSUME NEW r \in Requests, NEW i \in Issues, Enters(r, i)
      PROVE  \A v \in Worktrees : Sound(v) => Sound(v)'
  <2>1. at[r] /= "git" /\ WorktreeOf[i] \in Worktrees
    BY <1>1, EntersCases DEF Enters
  <2>2. CASE Takes(r, WorktreeOf[i])
    BY <2>1, <2>2, StartGitSound DEF Takes
  <2>3. CASE Waits(r, WorktreeOf[i])
    BY <2>3 DEF Waits, diskVars, Sound
  <2> QED BY <1>1, <2>2, <2>3, EntersCases
<1>2. ASSUME NEW r \in Requests, Acquire(r)
      PROVE  \A v \in Worktrees : Sound(v) => Sound(v)'
  BY <1>0, <1>2, PathTyped, StartGitSound DEF Acquire
<1>3. ASSUME NEW r \in Requests, NEW ok \in BOOLEAN, OnDisk(r, ok), git[r] /= "none"
      PROVE  \A v \in Worktrees : Sound(v) => Sound(v)'
  BY <1>0, <1>3, PathTyped, OnDiskSound DEF Fresh
<1>4. ASSUME NEW r \in Requests, Pulls(r) \/ Answered(r)
      PROVE  \A v \in Worktrees : Sound(v) => Sound(v)'
  BY <1>4 DEF Pulls, Answered, diskVars, Sound
<1>5. CASE DispatcherStep \/ Start \/ LifespanStep
  BY <1>5, AsideCases DEF Aside, diskVars, Sound
<1>6. CASE Shutdown
  <2>1. ASSUME NEW p \in Polls, Cancel(p)
        PROVE  tree' = tree /\ unfinished \subseteq unfinished'
    BY <2>1 DEF Cancel
  <2>2. tree' = tree /\ unfinished \subseteq unfinished'
    BY <1>6, <2>1, ShutdownCases DEF diskVars
  <2> QED BY <2>2 DEF Sound
<1>7. CASE ProcessEnds \/ UNCHANGED vars
  BY <1>7 DEF ProcessEnds, vars, diskVars, Sound
<1>8. ASSUME NEW r \in Requests, NEW ok \in BOOLEAN, Leaves(r, ok)
      PROVE  OnDisk(r, ok) /\ git[r] /= "none"
  BY <1>8 DEF Leaves
<1>9. ASSUME NEW r \in Requests, OrphanExits(r)
      PROVE  \E ok \in BOOLEAN : OnDisk(r, ok) /\ git[r] /= "none"
  BY <1>9 DEF OrphanExits
<1> QED BY <1>1, <1>2, <1>3, <1>4, <1>5, <1>6, <1>7, <1>8, <1>9, NextCases

\* Every call of dispatch() was made with a sound worktree, which stays sound.
LEMMA DispatchStep == IInv /\ [Next]_vars => DispatchNeedsClone'
<1> SUFFICES ASSUME IInv, [Next]_vars, NEW s \in Requests, outcome'[s] /= "none"
             PROVE  tree'[Path(s)'] = "complete" \/ Path(s)' \in unfinished'
  BY DEF DispatchNeedsClone
<1>0. TypeOK /\ Fresh /\ DispatchNeedsClone
  BY DEF IInv
<1>1. CASE outcome[s] /= "none"
  <2>1. at[s] /= "none" /\ Path(s) \in Worktrees /\ Path(s)' = Path(s)
    BY <1>0, <1>1, PathKept, PathTyped DEF Fresh
  <2>2. Sound(Path(s))
    BY <1>0, <1>1 DEF DispatchNeedsClone, Sound
  <2> QED BY <2>1, <2>2, SoundKept DEF Sound
<1>2. CASE outcome[s] = "none"
  <2>1. PICK r \in Requests, ok \in BOOLEAN : Leaves(r, ok)
    <3>1. ASSUME NEW r \in Requests,
                 \/ Acquire(r) \/ Pulls(r) \/ OrphanExits(r) \/ Answered(r)
                 \/ \E i \in Issues : Enters(r, i)
          PROVE  FALSE
      BY <1>2, <3>1 DEF Acquire, Pulls, OrphanExits, Answered, Enters, dispatchVars
    <3>2. ASSUME DispatcherStep \/ Start \/ LifespanStep
          PROVE  FALSE
      BY <1>0, <1>2, <3>2, AsideCases, DispatcherFacts
    <3>3. ASSUME Shutdown
          PROVE  FALSE
      <4>1. ASSUME NEW p \in Polls, Active(p), Cancel(p)
            PROVE  FALSE
        BY <1>0, <1>2, <4>1, CancelFacts DEF Requests
      <4> QED BY <1>2, <3>3, <4>1, ShutdownCases DEF dispatchVars
    <3>4. ASSUME ProcessEnds \/ UNCHANGED vars
          PROVE  FALSE
      BY <1>0, <1>2, <3>4 DEF ProcessEnds, vars, dispatchVars, TypeOK
    <3> QED BY <3>1, <3>2, <3>3, <3>4, NextCases
  <2>2. s = r /\ (git[r] = "clone" => ok)
    BY <1>0, <1>2, <2>1, LeavesFacts
  <2>3. /\ at[r] = "git" /\ git[r] /= "none" /\ OnDisk(r, ok)
        /\ Path(r)' = Path(r) /\ Path(r) \in Worktrees
    BY <1>0, <2>1, PathKept, PathTyped DEF Leaves
  <2> QED BY <2>2, <2>3, OnDiskSound
<1> QED BY <1>1, <1>2

\* The part of Cloned about one request and the part about one worktree.
ClonedBy(r) ==
    /\ git[r] = "clone" => \/ at[r] = "git" /\ tree[Path(r)] = "partial"
                           \/ Path(r) \in unfinished
    /\ git[r] \in {"fetch", "pull"} => Sound(Path(r))

PartialBy(w) ==
    tree[w] = "partial" =>
        \/ w \in unfinished
        \/ \E r \in Requests : git[r] = "clone" /\ at[r] = "git" /\ Path(r) = w

LEMMA ClonedParts ==
    Cloned <=> (\A r \in Requests : ClonedBy(r)) /\ (\A w \in Worktrees : PartialBy(w))
BY DEF Cloned, ClonedBy, PartialBy

\* A step that changes neither git nor the disk and takes no request away from git.
LEMMA QuietStep ==
    ASSUME IInv, [Next]_vars, UNCHANGED <<git, tree, unfinished>>,
           \A s \in Requests : at[s] = "git" => at'[s] = "git"
    PROVE  Cloned'
<1>0. TypeOK /\ Fresh /\ Cloned
  BY DEF IInv
<1>1. \A s \in Requests : git[s] /= "none" => Path(s)' = Path(s) /\ Path(s) \in Worktrees
  BY <1>0, PathKept, PathTyped DEF Fresh
<1> QED BY <1>0, <1>1 DEF Cloned, Sound

LEMMA StartGitClones ==
    ASSUME IInv, [Next]_vars, NEW r \in Requests, NEW w \in Worktrees, at[r] \in {"none", "lock"},
           holder[w] \in {NoRequest, r}, StartGit(r, w), Path(r)' = w
    PROVE  Cloned'
<1>0. TypeOK /\ Fresh /\ Cloned
  BY DEF IInv
<1>1. /\ \A v \in Worktrees : Sound(v) => Sound(v)'
      /\ \/ git'[r] = "clone" /\ tree'[w] = "partial"
         \/ git'[r] = "fetch" /\ Sound(w)'
      /\ tree'[w] = tree[w] \/ tree[w] = "absent"
      /\ \A v \in Worktrees : v /= w => tree'[v] = tree[v]
      /\ \A s \in Requests : s /= r => git'[s] = git[s] /\ at'[s] = at[s]
      /\ at'[r] = "git"
      /\ unfinished' = unfinished
  BY StartGitSound
<1>2. \A s \in Requests : git[s] /= "none" =>
          s /= r /\ Path(s)' = Path(s) /\ Path(s) \in Worktrees
  BY <1>0, PathKept, PathTyped DEF Fresh
<1>3. ASSUME NEW s \in Requests
      PROVE  ClonedBy(s)'
  <2>1. CASE s = r
    BY <1>1, <2>1 DEF ClonedBy, Sound
  <2>2. CASE s /= r /\ git[s] /= "none"
    BY <1>0, <1>1, <1>2, <2>2 DEF Cloned, ClonedBy, Sound
  <2>3. CASE s /= r /\ git[s] = "none"
    BY <1>1, <2>3 DEF ClonedBy
  <2> QED BY <2>1, <2>2, <2>3
<1>4. ASSUME NEW v \in Worktrees
      PROVE  PartialBy(v)'
  <2>1. CASE v = w
    BY <1>1, <2>1 DEF PartialBy, Sound
  <2>2. CASE v /= w
    BY <1>0, <1>1, <1>2, <2>2 DEF Cloned, PartialBy
  <2> QED BY <2>1, <2>2
<1>5. (\A s \in Requests : ClonedBy(s)') /\ (\A v \in Worktrees : PartialBy(v)')
  BY <1>3, <1>4
<1> QED BY <1>5 DEF Cloned, ClonedBy, PartialBy

LEMMA OnDiskClones ==
    ASSUME IInv, [Next]_vars, NEW r \in Requests, NEW ok \in BOOLEAN, git[r] /= "none", OnDisk(r, ok),
           \A s \in Requests : s /= r => at'[s] = at[s]
    PROVE  Cloned'
<1>0. TypeOK /\ Fresh /\ Cloned
  BY DEF IInv
<1>2. \A s \in Requests : git[s] /= "none" => Path(s)' = Path(s) /\ Path(s) \in Worktrees
  BY <1>0, PathKept, PathTyped DEF Fresh
<1>1. /\ \A v \in Worktrees : Sound(v) => Sound(v)'
      /\ \A v \in Worktrees :
            tree'[v] = "partial" =>
                \/ v \in unfinished'
                \/ tree[v] = "partial" /\ (v = Path(r) => git[r] /= "clone")
      /\ \A s \in Requests :
            s /= r /\ at[s] = "git" /\ git[s] = "clone" /\ tree[Path(s)] = "partial" =>
                tree'[Path(s)] = "partial" \/ Path(s) \in unfinished
      /\ unfinished \subseteq unfinished'
      /\ git' = [git EXCEPT ![r] = "none"]
  BY <1>0, <1>2, OnDiskSound, OnDiskFacts
<1>3. ASSUME NEW s \in Requests
      PROVE  ClonedBy(s)'
  <2>1. CASE s = r \/ git[s] = "none"
    BY <1>0, <1>1, <2>1 DEF ClonedBy, TypeOK
  <2>2. CASE s /= r /\ git[s] /= "none"
    <3>1. git'[s] = git[s] /\ at'[s] = at[s]
      BY <1>0, <1>1, <2>2 DEF TypeOK
    <3> QED BY <1>0, <1>1, <1>2, <2>2, <3>1 DEF Cloned, ClonedBy, Sound
  <2> QED BY <2>1, <2>2
<1>4. ASSUME NEW v \in Worktrees
      PROVE  PartialBy(v)'
  <2> SUFFICES ASSUME tree'[v] = "partial", v \notin unfinished'
               PROVE  \E s \in Requests : git'[s] = "clone" /\ at'[s] = "git" /\ Path(s)' = v
    BY <1>1 DEF PartialBy
  <2>1. PICK s \in Requests : git[s] = "clone" /\ at[s] = "git" /\ Path(s) = v
    BY <1>0, <1>1 DEF Cloned
  <2>2. s /= r
    BY <1>1, <2>1
  <2>3. git'[s] = "clone" /\ at'[s] = "git"
    BY <1>0, <1>1, <2>1, <2>2 DEF TypeOK
  <2> QED BY <1>2, <2>1, <2>3
<1>5. (\A s \in Requests : ClonedBy(s)') /\ (\A v \in Worktrees : PartialBy(v)')
  BY <1>3, <1>4
<1> QED BY <1>5 DEF Cloned, ClonedBy, PartialBy

LEMMA ClonedStep == IInv /\ [Next]_vars => Cloned'
<1> SUFFICES ASSUME IInv, [Next]_vars
             PROVE  Cloned'
  OBVIOUS
<1>0. TypeOK /\ Fresh /\ Cloned
  BY DEF IInv
<1>p. /\ \A s \in Requests : git[s] /= "none" => Path(s)' = Path(s) /\ Path(s) \in Worktrees
      /\ \A s \in Requests : at[s] /= "none" => Path(s)' = Path(s) /\ Path(s) \in Worktrees
  BY <1>0, PathKept, PathTyped DEF Fresh
<1>1. ASSUME NEW r \in Requests, NEW i \in Issues, Enters(r, i)
      PROVE  Cloned'
  <2>1. /\ WorktreeOf[i] \in Worktrees /\ at[r] = "none" /\ Path(r)' = WorktreeOf[i]
    BY <1>0, <1>1, EntersCases DEF Enters, Path, TypeOK
  <2>2. CASE Takes(r, WorktreeOf[i])
    BY <2>1, <2>2, StartGitClones DEF Takes
  <2>3. CASE Waits(r, WorktreeOf[i])
    BY <1>0, <2>1, <2>3, QuietStep DEF Waits, diskVars, TypeOK
  <2> QED BY <1>1, <2>2, <2>3, EntersCases
<1>2. ASSUME NEW r \in Requests, Acquire(r)
      PROVE  Cloned'
  BY <1>p, <1>2, StartGitClones DEF Acquire
<1>3. ASSUME NEW r \in Requests, Pulls(r)
      PROVE  Cloned'
  <2>1. /\ git[r] = "fetch" /\ git' = [git EXCEPT ![r] = "pull"]
        /\ UNCHANGED <<at, tree, unfinished>>
    BY <1>3 DEF Pulls
  <2>2. \A s \in Requests : ClonedBy(s)'
    BY <1>0, <1>p, <2>1 DEF Cloned, ClonedBy, Sound, TypeOK
  <2>3. \A v \in Worktrees : PartialBy(v)'
    BY <1>0, <1>p, <2>1 DEF Cloned, PartialBy, TypeOK
  <2> QED BY <2>2, <2>3 DEF Cloned, ClonedBy, PartialBy
<1>4. ASSUME NEW r \in Requests, NEW ok \in BOOLEAN, Leaves(r, ok)
      PROVE  Cloned'
  <2>1. \A s \in Requests : s /= r => at'[s] = at[s]
    BY <1>0, <1>4, LeavesFacts DEF TypeOK
  <2> QED BY <1>4, <2>1, OnDiskClones DEF Leaves
<1>5. ASSUME NEW r \in Requests, OrphanExits(r)
      PROVE  Cloned'
  BY <1>5, OnDiskClones DEF OrphanExits
<1>6. ASSUME NEW r \in Requests, Answered(r)
      PROVE  Cloned'
  <2>1. \E x \in {"failed", "cancelled", "done"} : at' = [at EXCEPT ![r] = x]
    BY <1>6, Zenon DEF Answered
  <2>2. at[r] = "dispatch" /\ UNCHANGED <<git, tree, unfinished>>
    BY <1>6 DEF Answered, diskVars
  <2> QED BY <1>0, <2>1, <2>2, QuietStep DEF TypeOK
<1>7. CASE DispatcherStep \/ Start \/ LifespanStep
  BY <1>7, AsideCases, QuietStep DEF Aside, diskVars
<1>8. CASE Shutdown
  <2>1. ASSUME NEW p \in Polls, Active(p), Cancel(p)
        PROVE  Cloned'
    <3>1. /\ p \in Requests
          /\ at' = [at EXCEPT ![p] = "cancelled"]
          /\ git' = git /\ tree' = tree
          /\ unfinished' = IF git[p] = "clone" THEN unfinished \cup {Path(p)} ELSE unfinished
          /\ Path(p)' = Path(p)
      BY <1>0, <1>p, <2>1, CancelFacts DEF Requests, Active
    <3>2. \A s \in Requests : ClonedBy(s)'
      BY <1>0, <1>p, <3>1 DEF Cloned, ClonedBy, Sound, TypeOK
    <3>3. ASSUME NEW v \in Worktrees
          PROVE  PartialBy(v)'
      BY <1>0, <1>p, <3>1 DEF Cloned, PartialBy, TypeOK
    <3>4. \A v \in Worktrees : PartialBy(v)'
      BY <3>3
    <3> QED BY <3>2, <3>4 DEF Cloned, ClonedBy, PartialBy
  <2>2. CASE UNCHANGED <<at, lockVars, diskVars, dispatchVars>>
    BY <2>2, QuietStep DEF diskVars
  <2> QED BY <1>8, <2>1, <2>2, ShutdownCases
<1>9. CASE ProcessEnds
  <2>1. /\ \A s \in Requests : git'[s] = "none"
        /\ tree' = tree
        /\ unfinished' = unfinished \cup {Path(s) : s \in {s \in Requests : git[s] = "clone"}}
    BY <1>9 DEF ProcessEnds
  <2> QED BY <1>0, <2>1 DEF Cloned
<1>10. CASE UNCHANGED vars
  BY <1>10, QuietStep DEF vars, diskVars
<1> QED BY <1>1, <1>2, <1>3, <1>4, <1>5, <1>6, <1>7, <1>8, <1>9, <1>10, NextCases

-----------------------------------------------------------------------------
THEOREM Invariance == Spec => []IInv
<1>1. IInv /\ [Next]_vars => IInv'
  BY TypeStep, FreshStep, LockedStep, PhasesStep, ClonedStep, DispatchStep DEF IInv
<1> QED
  BY InitHolds, <1>1, PTL DEF Spec

\* Type correctness of the whole service, for any issues, worktrees and requests.
THEOREM TypeCorrect == Spec => []TypeOK
BY Invariance, PTL DEF IInv

\* One git command runs at a time in a worktree, but for one that the shutdown left behind.
THEOREM GitIsAlone == Spec => []GitAlone
<1>1. IInv => GitAlone
  BY DEF IInv, Locked, GitAlone
<1> QED BY Invariance, <1>1, PTL

\* Only a completely cloned worktree is ever dispatched into, or one in which a clone
\* that failed or was cut off has left its directory.
THEOREM DispatchesHaveClones == Spec => []DispatchNeedsClone
BY Invariance, PTL DEF IInv

\* The poll task never meets a dispatcher that is stopping.
THEOREM PollIsServed == Spec => []PollNeverRefused
BY Invariance, PTL DEF IInv

=============================================================================
