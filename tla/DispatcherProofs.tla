-------------------------- MODULE DispatcherProofs --------------------------
(***************************************************************************)
(* Proofs about Dispatcher, for any set of calls and any process group:    *)
(* type correctness, the safety invariants, the action property, that      *)
(* Dispatcher implements SequentialDispatch, what a kill leaves behind,    *)
(* that every job ends and that stop() returns.                            *)
(*                                                                         *)
(* The inductive invariant IInv joins the invariants to what ties the      *)
(* tasks together: which job the worker has in hand (JobInHand), what each *)
(* phase of stop() knows of the worker (StopPhase), which futures are      *)
(* tracked and which callbacks are due (FuturesTracked), what is in the    *)
(* queue (QueueOK), which wrapper may be running (WrapperOK) and whom      *)
(* stop() is still waiting behind (BarrierOK).                             *)
(***************************************************************************)
EXTENDS Dispatcher, SequenceTheorems, TLAPS

Waiting(j) == caller[j] \in {"waiting", "cancelling"}
Live(j) == leader[j] \in {"alive", "zombie"}

JobInHand ==
    /\ job = NoJob <=> worker \in {"new", "get", "ended"}
    /\ cause /= "none" <=> worker \in {"grace", "reap"}

StopPhase ==
    /\ stopping <=> stopper /= "idle"
    /\ stopper = "idle" => ~cancelReq /\ worker \notin {"ended", "abort"} /\ cause /= "cancel"
    /\ stopper = "join" =>
          /\ worker \notin {"new", "ended"}
          /\ cancelReq \/ worker = "abort" \/ cause = "cancel"
    /\ stopper \in {"joined", "yield", "done"} => worker \in {"new", "ended"} /\ ~cancelReq
    /\ cancelReq => worker /= "abort" /\ cause /= "cancel"

FuturesTracked ==
    \A j \in Jobs :
        /\ future[j] = "none" <=> caller[j] \in {"idle", "refused"}
        /\ future[j] = "pending" => caller[j] = "waiting" /\ j \in pendingFutures
        /\ j \in ready <=> Done(j) /\ Waiting(j)

QueueOK ==
    /\ \A i \in DOMAIN queue : future[queue[i]] /= "none" /\ leader[queue[i]] = "none"
    /\ \A i, k \in DOMAIN queue : queue[i] = queue[k] => i = k
    /\ \A i \in DOMAIN queue : queue[i] /= job
    /\ \A j \in Jobs : future[j] = "pending" => job = j \/ InQueue(j)
    /\ \A j \in Jobs : future[j] = "none" => leader[j] = "none"

WrapperOK ==
    /\ \A j \in Jobs : Live(j) /\ worker /= "ended" => j = job
    /\ job /= NoJob => leader[job] /= "none"
    /\ \A j \in Jobs : exitCode[j] = "none" <=> leader[j] \in {"none", "alive"}

BarrierOK ==
    /\ ahead \subseteq ready
    /\ stopper = "yield" => \A j \in Jobs : Waiting(j) => j \in ahead
    /\ stopper = "done" => \A j \in Jobs : ~Waiting(j)

IInv ==
    /\ TypeOK
    /\ JobInHand
    /\ StopPhase
    /\ FuturesTracked
    /\ QueueOK
    /\ WrapperOK
    /\ OneWrapper
    /\ ResultAfterExit
    /\ BarrierOK

(***************************************************************************)
(* The queue as a sequence: what get() and put() leave in it.              *)
(***************************************************************************)
LEMMA TailFacts ==
    ASSUME NEW S, NEW s \in Seq(S), s /= <<>>
    PROVE  /\ Tail(s) \in Seq(S)
           /\ Head(s) \in S
           /\ 1 \in DOMAIN s /\ Head(s) = s[1]
           /\ \A i \in DOMAIN Tail(s) :
                 i \in Nat /\ i + 1 \in DOMAIN s /\ Tail(s)[i] = s[i + 1]
           /\ \A k \in DOMAIN s : k \in Nat /\ (k /= 1 => k - 1 \in DOMAIN Tail(s))
OBVIOUS

LEMMA AppendFacts ==
    ASSUME NEW S, NEW s \in Seq(S), NEW e \in S
    PROVE  /\ Append(s, e) \in Seq(S)
           /\ \A i \in DOMAIN s : i \in DOMAIN Append(s, e) /\ Append(s, e)[i] = s[i]
           /\ Len(s) + 1 \in DOMAIN Append(s, e) /\ Append(s, e)[Len(s) + 1] = e
           /\ \A i \in DOMAIN Append(s, e) : i \in DOMAIN s \/ i = Len(s) + 1
OBVIOUS

(***************************************************************************)
(* The initial states satisfy the invariant.                               *)
(***************************************************************************)
LEMMA InitInv == Init => IInv
<1>1. Init => stopping \in BOOLEAN /\ cancelReq \in BOOLEAN
  BY Zenon DEF Init
<1>2. Init => queue \in Seq(Jobs) /\ DOMAIN queue = {}
  BY DEF Init
<1> QED
  BY <1>1, <1>2, NoJobAssumption
   DEF Init, IInv, TypeOK, JobInHand, StopPhase, FuturesTracked, QueueOK, WrapperOK,
       OneWrapper, ResultAfterExit, BarrierOK, InQueue, Waiting, Live, Done, Settled,
       Results, Members

(***************************************************************************)
(* The three ways a job or the queue is brought to an end, each shared by  *)
(* several actions: the worker reports a result, the worker ends, stop()   *)
(* drains.                                                                 *)
(***************************************************************************)
LEMMA JobReturnsInv ==
    ASSUME IInv, NEW r \in Results, JobReturns(r), UNCHANGED osVars,
           worker \in {"communicate", "grace", "reap"}, cause /= "cancel", ~cancelReq,
           leader[job] = "reaped", r /= "timeout" => r = exitCode[job]
    PROVE  IInv'
BY NoJobAssumption
   DEF JobReturns, Settle, stopVars, osVars, IInv, TypeOK, JobInHand, StopPhase,
       FuturesTracked, QueueOK, WrapperOK, OneWrapper, ResultAfterExit, BarrierOK,
       InQueue, Waiting, Live, Done, Settled, Results, Members

LEMMA WorkerEndsInv ==
    ASSUME IInv, WorkerEnds, UNCHANGED osVars, stopper = "join"
    PROVE  IInv'
<1>1. cancelReq' \in BOOLEAN
  BY Zenon DEF WorkerEnds
<1> QED
  BY <1>1, NoJobAssumption
     DEF WorkerEnds, Settle, osVars, IInv, TypeOK, JobInHand, StopPhase,
         FuturesTracked, QueueOK, WrapperOK, OneWrapper, ResultAfterExit, BarrierOK,
         InQueue, Waiting, Live, Done, Settled, Results, Members

LEMMA DrainInv ==
    ASSUME IInv, Drain, stopping' = TRUE, UNCHANGED <<workerVars, osVars>>,
           worker \in {"new", "ended"}, ~cancelReq
    PROVE  IInv'
<1>1. stopping' \in BOOLEAN
  BY Zenon
<1>2. \A j \in Jobs : future'[j] /= "pending"
  BY DEF Drain, Settle, ToSet, IInv, TypeOK, FuturesTracked
<1>3. queue' \in Seq(Jobs) /\ DOMAIN queue' = {}
  BY DEF Drain
<1> USE DEF Drain, Settle, workerVars, osVars, IInv, TypeOK
<1>4. TypeOK'
  <2>1. /\ future' \in [Jobs -> Settled \cup {"none", "pending"}]
        /\ ready' \subseteq Jobs /\ ahead' \subseteq Jobs
    BY DEF Settled, ToSet
  <2>2. stopper' \in {"idle", "join", "joined", "yield", "done"}
    OBVIOUS
  <2> QED BY <1>1, <1>3, <2>1, <2>2, Zenon
<1>5. JobInHand' /\ StopPhase' /\ WrapperOK' /\ OneWrapper'
  BY <1>1 DEF JobInHand, StopPhase, WrapperOK, OneWrapper, Live
<1>6. FuturesTracked' /\ BarrierOK' /\ ResultAfterExit'
  BY <1>2 DEF FuturesTracked, BarrierOK, ResultAfterExit, Waiting, Done, Settled, Results
<1>7. QueueOK'
  BY <1>2, <1>3 DEF QueueOK
<1> QED BY <1>4, <1>5, <1>6, <1>7

(***************************************************************************)
(* The actions that change the queue.                                      *)
(***************************************************************************)
LEMMA DispatchInv ==
    ASSUME IInv, NEW j \in Jobs, Dispatch(j)
    PROVE  IInv'
<1> USE DEF IInv, TypeOK, InQueue, Dispatch, workerVars, stopVars, osVars
<1>1. CASE stopping
  BY <1>1
     DEF JobInHand, StopPhase, FuturesTracked, QueueOK, WrapperOK, OneWrapper,
         ResultAfterExit, BarrierOK, Waiting, Live, Done, Settled, Results, Members
<1>2. CASE ~stopping
  <2> USE <1>2
  <2>1. /\ queue' \in Seq(Jobs)
        /\ \A i \in DOMAIN queue : i \in DOMAIN queue' /\ queue'[i] = queue[i]
        /\ Len(queue) + 1 \in DOMAIN queue' /\ queue'[Len(queue) + 1] = j
        /\ \A i \in DOMAIN queue' : i \in DOMAIN queue \/ i = Len(queue) + 1
    <3>1. queue \in Seq(Jobs) /\ queue' = Append(queue, j)
      OBVIOUS
    <3> QED BY ONLY <3>1, AppendFacts, j \in Jobs
  <2>2. future[j] = "none" /\ leader[j] = "none" /\ j /= job
    BY NoJobAssumption DEF FuturesTracked, QueueOK, WrapperOK
  <2>3. \A i \in DOMAIN queue : queue[i] \in Jobs /\ queue[i] /= j
    BY <2>2 DEF QueueOK
  <2>4. QueueOK'
    BY <2>1, <2>2, <2>3 DEF QueueOK
  <2>5. TypeOK'
    <3>1. future' \in [Jobs -> Settled \cup {"none", "pending"}]
      OBVIOUS
    <3>2. /\ caller' \in [Jobs -> Settled \cup {"idle", "waiting", "cancelling", "refused"}]
          /\ pendingFutures' \subseteq Jobs
      OBVIOUS
    <3> QED BY <2>1, <3>1, <3>2
  <2>6. FuturesTracked'
    BY <2>2 DEF FuturesTracked, Waiting, Done, Settled, Results
  <2>7. BarrierOK'
    BY DEF BarrierOK, StopPhase, Waiting
  <2>8. JobInHand' /\ StopPhase' /\ WrapperOK' /\ OneWrapper' /\ ResultAfterExit'
    BY DEF JobInHand, StopPhase, WrapperOK, OneWrapper, ResultAfterExit, Live, Results
  <2> QED BY <2>4, <2>5, <2>6, <2>7, <2>8
<1> QED BY <1>1, <1>2

\* What Take and TakeFails leave in the queue.
LEMMA GetFacts ==
    ASSUME IInv, queue /= <<>>, queue' = Tail(queue)
    PROVE  /\ Head(queue) \in Jobs /\ InQueue(Head(queue))
           /\ queue' \in Seq(Jobs)
           /\ \A i \in DOMAIN queue' : queue'[i] /= Head(queue) /\ InQueue(queue'[i])
           /\ \A i, k \in DOMAIN queue' : queue'[i] = queue'[k] => i = k
           /\ \A j \in Jobs : InQueue(j) => j = Head(queue) \/ InQueue(j)'
<1> USE DEF IInv, TypeOK, QueueOK, InQueue
<1>1. /\ Head(queue) \in Jobs /\ queue' \in Seq(Jobs)
      /\ 1 \in DOMAIN queue /\ Head(queue) = queue[1]
      /\ \A i \in DOMAIN queue' : i \in Nat /\ i + 1 \in DOMAIN queue /\ queue'[i] = queue[i + 1]
      /\ \A k \in DOMAIN queue : k \in Nat /\ (k /= 1 => k - 1 \in DOMAIN queue')
  BY TailFacts
<1>2. \A i \in DOMAIN queue' : queue'[i] /= Head(queue)
  BY <1>1
<1>3. \A i, k \in DOMAIN queue' : queue'[i] = queue'[k] => i = k
  BY <1>1
<1>4. ASSUME NEW j \in Jobs, InQueue(j), j /= Head(queue)
      PROVE  InQueue(j)'
  <2>1. PICK k \in DOMAIN queue : queue[k] = j
    BY <1>4
  <2>2. k - 1 \in DOMAIN queue' /\ queue'[k - 1] = j
    BY <2>1, <1>1, <1>4
  <2> QED BY <2>2
<1> QED BY <1>1, <1>2, <1>3, <1>4

LEMMA TakeInv ==
    ASSUME IInv, Take
    PROVE  IInv'
<1> USE DEF IInv, TypeOK, Take, stopVars, osVars
<1>1. /\ Head(queue) \in Jobs /\ InQueue(Head(queue)) /\ queue' \in Seq(Jobs)
      /\ \A i \in DOMAIN queue' : queue'[i] /= Head(queue) /\ InQueue(queue'[i])
      /\ \A i, k \in DOMAIN queue' : queue'[i] = queue'[k] => i = k
      /\ \A j \in Jobs : InQueue(j) => j = Head(queue) \/ InQueue(j)'
  BY GetFacts
<1>2. job = NoJob /\ leader[Head(queue)] = "none" /\ future[Head(queue)] /= "none"
  BY <1>1 DEF JobInHand, QueueOK, InQueue
<1>3. \A j \in Jobs : ~Live(j)
  BY <1>2, NoJobAssumption DEF WrapperOK
<1>4. QueueOK'
  <2>1. \A i \in DOMAIN queue' : future[queue'[i]] /= "none" /\ leader[queue'[i]] = "none"
    BY <1>1 DEF QueueOK, InQueue
  <2> QED BY <1>1, <1>2, <2>1, NoJobAssumption DEF QueueOK
<1>5. TypeOK' /\ JobInHand' /\ StopPhase' /\ FuturesTracked' /\ BarrierOK'
  BY <1>1, <1>2, NoJobAssumption
     DEF JobInHand, StopPhase, FuturesTracked, BarrierOK, Waiting, Done
<1>6. WrapperOK' /\ OneWrapper'
  BY <1>1, <1>2, <1>3 DEF WrapperOK, OneWrapper, Live
<1>7. ResultAfterExit'
  BY <1>1, <1>2 DEF ResultAfterExit, Results
<1> QED BY <1>4, <1>5, <1>6, <1>7

LEMMA TakeFailsInv ==
    ASSUME IInv, TakeFails
    PROVE  IInv'
<1> USE DEF IInv, TypeOK, TakeFails, Settle, workerVars, stopVars, osVars
<1>1. /\ Head(queue) \in Jobs /\ InQueue(Head(queue)) /\ queue' \in Seq(Jobs)
      /\ \A i \in DOMAIN queue' : queue'[i] /= Head(queue) /\ InQueue(queue'[i])
      /\ \A i, k \in DOMAIN queue' : queue'[i] = queue'[k] => i = k
      /\ \A j \in Jobs : InQueue(j) => j = Head(queue) \/ InQueue(j)'
  BY GetFacts
<1>2. QueueOK'
  <2>1. \A i \in DOMAIN queue' : /\ queue'[i] \in Jobs
                                 /\ future[queue'[i]] /= "none"
                                 /\ leader[queue'[i]] = "none"
                                 /\ queue'[i] /= job
    BY <1>1 DEF QueueOK, InQueue
  <2>2. \A j \in Jobs : /\ future'[j] = "none" => future[j] = "none"
                        /\ future'[j] = "pending" => future[j] = "pending" /\ j /= Head(queue)
                        /\ future[j] /= "none" => future'[j] /= "none"
    OBVIOUS
  <2> QED BY <1>1, <2>1, <2>2 DEF QueueOK
<1>3. TypeOK' /\ FuturesTracked' /\ BarrierOK'
  BY <1>1 DEF FuturesTracked, BarrierOK, StopPhase, Waiting, Done, Settled, Results
<1>4. JobInHand' /\ StopPhase' /\ WrapperOK' /\ OneWrapper' /\ ResultAfterExit'
  BY DEF JobInHand, StopPhase, WrapperOK, OneWrapper, ResultAfterExit, Live, Results
<1> QED BY <1>2, <1>3, <1>4

(***************************************************************************)
(* Every step preserves the invariant: one case per action.                *)
(***************************************************************************)
LEMMA StepInv == IInv /\ [Next]_vars => IInv'
<1> SUFFICES ASSUME IInv, [Next]_vars
             PROVE  IInv'
  OBVIOUS
<1>1. CASE Start
  <2>1. stopping' \in BOOLEAN
    BY <1>1, Zenon DEF Start
  <2> QED
    BY <1>1, <2>1, NoJobAssumption
       DEF Start, futureVars, osVars, IInv, TypeOK, JobInHand, StopPhase, FuturesTracked,
           QueueOK, WrapperOK, OneWrapper, ResultAfterExit, BarrierOK, InQueue, Waiting,
           Live, Done, Settled, Results, Members
<1>2. CASE Stop
  <2>1. CASE worker \in {"new", "ended"}
    <3>1. ~cancelReq
      BY <1>2, <2>1 DEF Stop, IInv, StopPhase
    <3> QED
      BY <1>2, <2>1, <3>1, DrainInv DEF Stop, workerVars
  <2>2. CASE worker \notin {"new", "ended"}
    <3>1. stopping' \in BOOLEAN /\ cancelReq' \in BOOLEAN
      BY <1>2, <2>2, Zenon DEF Stop
    <3> QED
      BY <1>2, <2>2, <3>1
         DEF Stop, futureVars, osVars, IInv, TypeOK, JobInHand, StopPhase, FuturesTracked,
             QueueOK, WrapperOK, OneWrapper, ResultAfterExit, BarrierOK, InQueue, Waiting,
             Live, Done, Settled, Results, Members
  <2> QED BY <2>1, <2>2
<1>3. CASE Take
  BY <1>3, TakeInv
<1>4. CASE TakeFails
  BY <1>4, TakeFailsInv
<1>5. CASE SpawnReturns
  BY <1>5
     DEF SpawnReturns, futureVars, stopVars, osVars, IInv, TypeOK, JobInHand, StopPhase,
         FuturesTracked, QueueOK, WrapperOK, OneWrapper, ResultAfterExit, BarrierOK,
         InQueue, Waiting, Live, Done, Settled, Results, Members
<1>6. CASE CommunicateReturns
  <2>1. exitCode[job] \in Results /\ cause /= "cancel"
    BY <1>6 DEF CommunicateReturns, IInv, TypeOK, JobInHand, WrapperOK, Results
  <2> QED
    BY <1>6, <2>1, JobReturnsInv DEF CommunicateReturns
<1>7. CASE TimeoutFires
  <2>1. CASE leader[job] = "reaped"
    BY <1>7, <2>1, JobReturnsInv DEF TimeoutFires, Results, IInv, JobInHand
  <2>2. CASE leader[job] /= "reaped"
    BY <1>7, <2>2
       DEF TimeoutFires, futureVars, stopVars, osVars, IInv, TypeOK, JobInHand, StopPhase,
           FuturesTracked, QueueOK, WrapperOK, OneWrapper, ResultAfterExit, BarrierOK,
           InQueue, Waiting, Live, Done, Settled, Results, Members
  <2> QED BY <2>1, <2>2
<1>8. CASE GraceReturns
  <2>1. CASE cause = "timeout"
    BY <1>8, <2>1, JobReturnsInv DEF GraceReturns, Results
  <2>2. CASE cause /= "timeout"
    <3>1. stopper = "join"
      BY <1>8, <2>2 DEF GraceReturns, IInv, TypeOK, JobInHand, StopPhase
    <3> QED BY <1>8, <2>2, <3>1, WorkerEndsInv DEF GraceReturns
  <2> QED BY <2>1, <2>2
<1>9. CASE GraceExpires
  BY <1>9
     DEF GraceExpires, KillGroup, futureVars, stopVars, IInv, TypeOK, JobInHand, StopPhase,
         FuturesTracked, QueueOK, WrapperOK, OneWrapper, ResultAfterExit, BarrierOK,
         InQueue, Waiting, Live, Done, Settled, Results, Members
<1>10. CASE ReapReturns
  <2>1. CASE cause = "timeout"
    BY <1>10, <2>1, JobReturnsInv DEF ReapReturns, Results
  <2>2. CASE cause /= "timeout"
    <3>1. stopper = "join"
      BY <1>10, <2>2 DEF ReapReturns, IInv, TypeOK, JobInHand, StopPhase
    <3> QED BY <1>10, <2>2, <3>1, WorkerEndsInv DEF ReapReturns
  <2> QED BY <2>1, <2>2
<1>11. CASE CancelledAtGet \/ CancelledInTimeoutKill
  <2>1. stopper = "join"
    BY <1>11 DEF CancelledAtGet, CancelledInTimeoutKill, IInv, TypeOK, StopPhase
  <2> QED BY <1>11, <2>1, WorkerEndsInv DEF CancelledAtGet, CancelledInTimeoutKill
<1>12. CASE CancelledAtSpawn
  <2>1. cancelReq' \in BOOLEAN
    BY <1>12, Zenon DEF CancelledAtSpawn
  <2> QED
    BY <1>12, <2>1
       DEF CancelledAtSpawn, futureVars, stopVars, IInv, TypeOK, JobInHand, StopPhase,
           FuturesTracked, QueueOK, WrapperOK, OneWrapper, ResultAfterExit, BarrierOK,
           InQueue, Waiting, Live, Done, Settled, Results, Members
<1>13. CASE AbortReturns
  <2>1. stopper = "join"
    BY <1>13 DEF AbortReturns, IInv, TypeOK, StopPhase
  <2> QED BY <1>13, <2>1, WorkerEndsInv DEF AbortReturns
<1>14. CASE CancelledAtCommunicate
  <2>1. stopper = "join"
    BY <1>14 DEF CancelledAtCommunicate, IInv, TypeOK, StopPhase
  <2>2. CASE leader[job] = "reaped"
    BY <1>14, <2>1, <2>2, WorkerEndsInv DEF CancelledAtCommunicate
  <2>3. CASE leader[job] /= "reaped"
    <3>1. cancelReq' \in BOOLEAN
      BY <1>14, <2>3, Zenon DEF CancelledAtCommunicate
    <3> QED
      BY <1>14, <2>1, <2>3, <3>1
         DEF CancelledAtCommunicate, futureVars, stopVars, osVars, IInv, TypeOK, JobInHand,
             StopPhase, FuturesTracked, QueueOK, WrapperOK, OneWrapper, ResultAfterExit,
             BarrierOK, InQueue, Waiting, Live, Done, Settled, Results, Members
  <2> QED BY <2>2, <2>3
<1>15. CASE StopDrains
  <2>1. /\ stopping' = TRUE /\ UNCHANGED <<workerVars, osVars>>
        /\ worker \in {"new", "ended"} /\ ~cancelReq /\ Drain
    BY <1>15 DEF StopDrains, IInv, TypeOK, StopPhase
  <2> QED BY <2>1, DrainInv
<1>16. CASE StopReturns
  BY <1>16
     DEF StopReturns, futureVars, workerVars, osVars, IInv, TypeOK, JobInHand, StopPhase,
         FuturesTracked, QueueOK, WrapperOK, OneWrapper, ResultAfterExit, BarrierOK,
         InQueue, Waiting, Live, Done, Settled, Results, Members
<1>17. ASSUME NEW j \in Jobs, Dispatch(j)
       PROVE  IInv'
  BY <1>17, DispatchInv
<1>18. ASSUME NEW j \in Jobs, CancelCaller(j) \/ RunCallbacks(j)
       PROVE  IInv'
  BY <1>18
     DEF CancelCaller, RunCallbacks, Settle, workerVars, stopVars, osVars, IInv, TypeOK,
         JobInHand, StopPhase, FuturesTracked, QueueOK, WrapperOK, OneWrapper,
         ResultAfterExit, BarrierOK, InQueue, Waiting, Live, Done, Settled, Results, Members
<1>19. ASSUME NEW j \in Jobs, ProcessStep(j)
       PROVE  IInv'
  BY <1>19
     DEF ProcessStep, Fork, MemberExits, LeaderExits, LeaderReaped, futureVars, workerVars,
         stopVars, IInv, TypeOK, JobInHand, StopPhase, FuturesTracked, QueueOK, WrapperOK,
         OneWrapper, ResultAfterExit, BarrierOK, InQueue, Waiting, Live, Done, Settled,
         Results, Members
<1>20. CASE UNCHANGED vars
  BY <1>20
     DEF vars, futureVars, workerVars, stopVars, osVars, IInv, TypeOK, JobInHand,
         StopPhase, FuturesTracked, QueueOK, WrapperOK, OneWrapper, ResultAfterExit,
         BarrierOK, InQueue, Waiting, Live, Done, Settled, Results, Members
<1> QED
  BY <1>1, <1>2, <1>3, <1>4, <1>5, <1>6, <1>7, <1>8, <1>9, <1>10, <1>11, <1>12, <1>13,
     <1>14, <1>15, <1>16, <1>17, <1>18, <1>19, <1>20
     DEF Next, WorkerStep, StopStep, CallerStep

THEOREM Invariance == Spec => []IInv
BY InitInv, StepInv, PTL DEF Spec

(***************************************************************************)
(* The properties of Dispatcher.                                           *)
(***************************************************************************)

\* Every variable keeps the type its comment gives it, whatever the size of the
\* queue and of the process groups.
THEOREM TypeCorrect == Spec => []TypeOK
BY Invariance, PTL DEF IInv

\* dispatch() and _worker lose no call and run none twice.
THEOREM CallsNeverLost == Spec => []NoLostCall
<1>1. IInv => NoLostCall
  BY DEF IInv, NoLostCall, QueueOK, FuturesTracked, InQueue
<1> QED BY <1>1, Invariance, PTL

\* Decision 8 (sequential dispatch) for the bash wrappers.
THEOREM WrappersAreSerial == Spec => []OneWrapper
BY Invariance, PTL DEF IInv

\* A result in a future is the wrapper's own, and the wrapper is gone.
THEOREM ResultsFollowExit == Spec => []ResultAfterExit
BY Invariance, PTL DEF IInv

\* The contract of stop() towards the callers of dispatch().
THEOREM StopSettles == Spec => []StopSettlesCallers
<1>1. IInv => StopSettlesCallers
  BY DEF IInv, StopSettlesCallers, BarrierOK, Waiting
<1> QED BY <1>1, Invariance, PTL

\* No step of a stopping dispatcher launches a wrapper: only Take does, and the
\* cancellation of the worker reaches it before its next get().
THEOREM NothingLaunchedAfterStop == Spec => NoLaunchAfterStop
<1>1. ASSUME IInv, [Next]_vars, stopping, NEW j \in Jobs, leader[j] = "none"
      PROVE  leader'[j] = "none"
  <2> USE <1>1 DEF IInv, TypeOK
  <2>1. ~Take
    BY DEF StopPhase, JobInHand, Take
  <2>2. CASE GraceExpires \/ CancelledAtSpawn
    BY <2>2 DEF GraceExpires, KillGroup, CancelledAtSpawn
  <2>3. CASE \E i \in Jobs : ProcessStep(i)
    BY <2>3 DEF ProcessStep, Fork, MemberExits, LeaderExits, LeaderReaped
  <2>4. CASE UNCHANGED osVars
    BY <2>4 DEF osVars
  <2>5. GraceExpires \/ CancelledAtSpawn \/ (\E i \in Jobs : ProcessStep(i)) \/ UNCHANGED osVars
    BY <2>1
       DEF Next, vars, Start, Stop, WorkerStep, StopStep, CallerStep, TakeFails,
           SpawnReturns, CommunicateReturns, TimeoutFires, GraceReturns, ReapReturns,
           CancelledAtGet, AbortReturns, CancelledAtCommunicate, CancelledInTimeoutKill,
           StopDrains, StopReturns, Dispatch, CancelCaller, RunCallbacks
  <2> QED BY <2>2, <2>3, <2>4, <2>5
<1>2. IInv /\ [Next]_vars => [stopping => \A j \in Jobs : leader[j] = "none" => leader'[j] = "none"]_vars
  BY <1>1
<1> QED BY <1>2, Invariance, PTL DEF Spec, NoLaunchAfterStop

(***************************************************************************)
(* Dispatcher implements SequentialDispatch: calls are served first come   *)
(* first served, one at a time, each is settled exactly once and nothing   *)
(* begins or completes after stop().                                       *)
(***************************************************************************)

\* A settled set of futures, seen as a single EXCEPT when it has one member.
LEMMA SettleOne ==
    ASSUME IInv, NEW j \in Jobs, NEW o, Settle({j}, o)
    PROVE  future' = [future EXCEPT ![j] = IF @ = "pending" THEN o ELSE @]
BY DEF Settle, IInv, TypeOK

LEMMA JobReturnsRefines ==
    ASSUME IInv, NEW r \in Results, JobReturns(r), job /= NoJob, ~stopping
    PROVE  SD!Finish
<1>1. job \in Jobs
  BY DEF IInv, TypeOK
<1>2. future' = [future EXCEPT ![job] = IF @ = "pending" THEN r ELSE @]
  BY <1>1, SettleOne DEF JobReturns
<1> QED
  BY <1>1, <1>2 DEF SD!Finish, SD!Produced, JobReturns, stopVars, Results

LEMMA WorkerEndsRefines ==
    ASSUME IInv, WorkerEnds, stopping
    PROVE  SD!Abort \/ UNCHANGED SD!vars
<1>1. CASE job = NoJob
  BY <1>1, NoJobAssumption DEF WorkerEnds, Settle, SD!vars, IInv, TypeOK
<1>2. CASE job /= NoJob
  <2>1. job \in Jobs /\ {job} \cap Jobs = {job}
    BY <1>2 DEF IInv, TypeOK
  <2>2. future' = [future EXCEPT ![job] = IF @ = "pending" THEN "cancelled" ELSE @]
    BY <2>1, SettleOne DEF WorkerEnds
  <2> QED
    BY <1>2, <2>2 DEF WorkerEnds, SD!Abort
<1> QED BY <1>1, <1>2

LEMMA DrainRefines ==
    ASSUME IInv, Drain, stopping' = TRUE, job' = job, job = NoJob
    PROVE  SD!CancelRest
<1>1. \A j \in Jobs : future[j] = "pending" => j \in ToSet(queue) \cup pendingFutures
  BY DEF IInv, FuturesTracked
<1> QED
  BY <1>1 DEF Drain, Settle, SD!CancelRest, SD!Pending, IInv, TypeOK

LEMMA StepRefines == IInv /\ [Next]_vars => [SD!Next]_(SD!vars)
<1> SUFFICES ASSUME IInv, [Next]_vars
             PROVE  SD!Next \/ UNCHANGED SD!vars
  OBVIOUS
<1>0. /\ cancelReq \/ worker = "abort" \/ cause = "cancel" => stopping
      /\ stopping /\ worker \notin {"new", "ended"} => cancelReq \/ worker = "abort" \/ cause = "cancel"
      /\ worker \notin {"grace", "reap"} => cause = "none"
      /\ job = NoJob <=> worker \in {"new", "get", "ended"}
  BY DEF IInv, TypeOK, StopPhase, JobInHand
<1>1. CASE Start
  <2>1. stopping \in BOOLEAN /\ ~stopping
    BY <1>1 DEF Start, IInv, TypeOK, StopPhase
  <2>2. stopping = FALSE /\ stopping' = FALSE
    BY <1>1, <2>1, Zenon DEF Start
  <2> QED
    BY <1>1, <2>2, Zenon DEF Start, futureVars, SD!vars
<1>2. CASE Stop
  <2>1. CASE worker \in {"new", "ended"}
    BY <1>2, <2>1, <1>0, DrainRefines DEF Stop, SD!Next
  <2>2. CASE worker \notin {"new", "ended"}
    <3>1. ~stopping
      BY <1>2, <2>2 DEF Stop, IInv, StopPhase
    <3> QED
      BY <1>2, <2>2, <3>1 DEF Stop, futureVars, SD!Close, SD!Next
  <2> QED BY <2>1, <2>2
<1>3. CASE Take
  BY <1>3, <1>0 DEF Take, stopVars, SD!Begin, SD!Next
<1>4. CASE TakeFails
  <2>1. Head(queue) \in Jobs
    BY <1>4, TailFacts DEF TakeFails, IInv, TypeOK
  <2>2. future' = [future EXCEPT ![Head(queue)] = IF @ = "pending" THEN "exception" ELSE @]
    BY <1>4, <2>1, SettleOne DEF TakeFails
  <2> QED
    BY <1>4, <2>2, <1>0 DEF TakeFails, workerVars, stopVars, SD!Fail, SD!Next
<1>5. CASE CommunicateReturns
  <2>1. exitCode[job] \in Results
    BY <1>5, <1>0 DEF CommunicateReturns, IInv, TypeOK, WrapperOK, Results
  <2> QED
    BY <1>5, <2>1, <1>0, JobReturnsRefines DEF CommunicateReturns, SD!Next
<1>6. CASE TimeoutFires
  BY <1>6, <1>0, JobReturnsRefines
     DEF TimeoutFires, futureVars, stopVars, SD!Next, SD!vars, Results
<1>7. CASE GraceReturns \/ ReapReturns
  <2>1. CASE cause = "timeout"
    BY <1>7, <2>1, <1>0, JobReturnsRefines DEF GraceReturns, ReapReturns, SD!Next, Results
  <2>2. CASE cause /= "timeout"
    <3>1. cause = "cancel"
      BY <1>7, <2>2 DEF GraceReturns, ReapReturns, IInv, TypeOK, JobInHand
    <3> QED
      BY <1>7, <2>2, <3>1, <1>0, WorkerEndsRefines DEF GraceReturns, ReapReturns, SD!Next
  <2> QED BY <2>1, <2>2
<1>8. CASE CancelledAtGet \/ AbortReturns \/ CancelledInTimeoutKill
  BY <1>8, <1>0, WorkerEndsRefines
     DEF CancelledAtGet, AbortReturns, CancelledInTimeoutKill, SD!Next
<1>9. CASE CancelledAtCommunicate
  BY <1>9, <1>0, WorkerEndsRefines
     DEF CancelledAtCommunicate, futureVars, stopVars, SD!Next, SD!vars
<1>10. CASE SpawnReturns \/ GraceExpires \/ CancelledAtSpawn \/ StopReturns
  BY <1>10
     DEF SpawnReturns, GraceExpires, CancelledAtSpawn, StopReturns, futureVars, workerVars,
         stopVars, SD!vars
<1>11. CASE StopDrains
  <2>1. stopping' = TRUE /\ job' = job /\ job = NoJob /\ Drain
    BY <1>11, <1>0 DEF StopDrains, workerVars, IInv, TypeOK, StopPhase
  <2> QED BY <2>1, DrainRefines DEF SD!Next
<1>12. ASSUME NEW j \in Jobs, Dispatch(j)
       PROVE  SD!Next \/ UNCHANGED SD!vars
  <2>1. future[j] = "none"
    BY <1>12 DEF Dispatch, IInv, FuturesTracked
  <2> QED
    BY <1>12, <2>1 DEF Dispatch, workerVars, stopVars, SD!Submit, SD!Next, SD!vars
<1>13. ASSUME NEW j \in Jobs, CancelCaller(j)
       PROVE  SD!Next \/ UNCHANGED SD!vars
  <2>1. future' = [future EXCEPT ![j] = IF @ = "pending" THEN "cancelled" ELSE @]
    BY <1>13, SettleOne DEF CancelCaller
  <2> QED
    BY <1>13, <2>1
       DEF CancelCaller, workerVars, stopVars, SD!Withdraw, SD!Next, SD!vars, IInv, TypeOK
<1>14. ASSUME NEW j \in Jobs, RunCallbacks(j) \/ ProcessStep(j)
       PROVE  UNCHANGED SD!vars
  BY <1>14
     DEF RunCallbacks, ProcessStep, Fork, MemberExits, LeaderExits, LeaderReaped,
         futureVars, workerVars, stopVars, SD!vars
<1>15. CASE UNCHANGED vars
  BY <1>15 DEF vars, futureVars, workerVars, stopVars, SD!vars
<1> QED
  BY <1>1, <1>2, <1>3, <1>4, <1>5, <1>6, <1>7, <1>8, <1>9, <1>10, <1>11, <1>12, <1>13,
     <1>14, <1>15
     DEF Next, WorkerStep, StopStep, CallerStep

\* dispatch() keeps the promise SequentialDispatch states.
THEOREM Refinement == Spec => SequentialSpec
<1>1. Init => SD!Init
  BY DEF Init, SD!Init
<1> QED
  BY <1>1, StepRefines, Invariance, PTL DEF Spec, SequentialSpec, SD!Spec

(***************************************************************************)
(* What that promise comes to for the futures and the queue.               *)
(***************************************************************************)

\* What `if not future.done()` and stop() are for: a call that was settled keeps its outcome,
\* however late a result, a cancellation or the drain comes; and once stop() has begun, a call
\* that is not settled yet can only be cancelled, although its job may still be ending.
FuturesFinal ==
    [][\A j \in Jobs :
          /\ Done(j) => future'[j] = future[j]
          /\ stopping /\ future'[j] /= future[j] => future'[j] = "cancelled"]_vars

\* No call overtakes another: of two calls in the queue the later one stays behind the
\* earlier as long as that is in the queue, also when their callers have given up.
FirstComeFirstServed ==
    [][\A i, k \in DOMAIN queue :
          i < k /\ (\E n \in DOMAIN queue' : queue'[n] = queue[i])
             => \E p, q \in DOMAIN queue' :
                   p < q /\ queue'[p] = queue[i] /\ queue'[q] = queue[k]]_vars

\* A job that has left the queue is never in it again, nor taken a second time.
AtMostOnce ==
    [][\A j \in Jobs :
          future[j] /= "none" /\ ~InQueue(j)
             => ~InQueue(j)' /\ (job' = j => job = j)]_vars

\* What a step of the promise does to the line, the running call and the outcomes.
LEMMA PromiseStep ==
    ASSUME IInv, [SD!Next]_(SD!vars)
    PROVE  /\ \/ queue' = queue \/ queue' = <<>>
              \/ queue /= <<>> /\ queue' = Tail(queue)
              \/ \E j \in Jobs : future[j] = "none" /\ queue' = Append(queue, j)
           /\ job' \in {job, NoJob} \/ (queue /= <<>> /\ job' = Head(queue))
           /\ \A j \in Jobs :
                 /\ Done(j) => future'[j] = future[j]
                 /\ stopping /\ future'[j] /= future[j] => future'[j] = "cancelled"
<1> USE DEF IInv, TypeOK, Done, Settled, Results
<1>1. CASE \E j \in Jobs : SD!Submit(j)
  BY <1>1 DEF SD!Submit
<1>2. CASE \E j \in Jobs : SD!Withdraw(j)
  BY <1>2 DEF SD!Withdraw
<1>3. CASE SD!Begin \/ SD!Close
  BY <1>3 DEF SD!Begin, SD!Close
<1>4. CASE SD!Fail
  BY <1>4 DEF SD!Fail
<1>5. CASE SD!Finish
  BY <1>5 DEF SD!Finish
<1>6. CASE SD!Abort
  BY <1>6 DEF SD!Abort
<1>7. CASE SD!CancelRest
  BY <1>7 DEF SD!CancelRest, SD!Pending
<1>8. CASE UNCHANGED SD!vars
  BY <1>8 DEF SD!vars
<1> QED BY <1>1, <1>2, <1>3, <1>4, <1>5, <1>6, <1>7, <1>8 DEF SD!Next

\* Every call is settled once, and by nothing but a cancellation after stop() has begun.
THEOREM SettledForGood == Spec => FuturesFinal
<1>1. IInv /\ [Next]_vars
        => [\A j \in Jobs :
              /\ Done(j) => future'[j] = future[j]
              /\ stopping /\ future'[j] /= future[j] => future'[j] = "cancelled"]_vars
  BY StepRefines, PromiseStep
<1> QED BY <1>1, Invariance, PTL DEF Spec, FuturesFinal

\* Calls are served in the order they were made.
THEOREM ServedInOrder == Spec => FirstComeFirstServed
<1>1. ASSUME IInv, [Next]_vars, NEW i \in DOMAIN queue, NEW k \in DOMAIN queue,
             i < k, NEW n \in DOMAIN queue', queue'[n] = queue[i]
      PROVE  \E p, q \in DOMAIN queue' :
                p < q /\ queue'[p] = queue[i] /\ queue'[q] = queue[k]
  <2> USE <1>1
  <2>0. queue \in Seq(Jobs) /\ \A m \in DOMAIN queue : m \in Nat
    BY DEF IInv, TypeOK
  <2>1. CASE queue' = queue
    BY <2>1
  <2>2. CASE queue' = <<>>
    BY <2>2 DEF InQueue
  <2>3. CASE queue /= <<>> /\ queue' = Tail(queue)
    <3>1. /\ \A m \in DOMAIN queue' : queue'[m] /= Head(queue)
          /\ Head(queue) = queue[1]
          /\ \A m \in DOMAIN queue : m /= 1 => m - 1 \in DOMAIN queue' /\ queue'[m - 1] = queue[m]
      <4>1. \A m \in DOMAIN queue' : queue'[m] /= Head(queue)
        BY <2>3, GetFacts
      <4>2. /\ Head(queue) = queue[1]
            /\ \A m \in DOMAIN queue' : m + 1 \in DOMAIN queue /\ queue'[m] = queue[m + 1]
            /\ \A m \in DOMAIN queue : m \in Nat /\ (m /= 1 => m - 1 \in DOMAIN queue')
        BY <2>0, <2>3, TailFacts
      <4> QED BY <4>1, <4>2
    <3>2. i /= 1 /\ k /= 1
      BY <3>1, <2>0 DEF InQueue
    <3>3. i - 1 < k - 1
      BY <2>0
    <3> QED BY <3>1, <3>2, <3>3
  <2>4. ASSUME NEW j \in Jobs, queue' = Append(queue, j)
        PROVE  \A m \in DOMAIN queue : m \in DOMAIN queue' /\ queue'[m] = queue[m]
    BY ONLY <2>0, <2>4, AppendFacts, j \in Jobs
  <2> QED BY <2>1, <2>2, <2>3, <2>4, StepRefines, PromiseStep
<1>2. IInv /\ [Next]_vars
        => [\A i, k \in DOMAIN queue :
              i < k /\ (\E n \in DOMAIN queue' : queue'[n] = queue[i])
                 => \E p, q \in DOMAIN queue' :
                       p < q /\ queue'[p] = queue[i] /\ queue'[q] = queue[k]]_vars
  BY <1>1
<1> QED BY <1>2, Invariance, PTL DEF Spec, FirstComeFirstServed

\* No call is run twice.
THEOREM RunAtMostOnce == Spec => AtMostOnce
<1>1. ASSUME IInv, [Next]_vars, NEW j \in Jobs, future[j] /= "none", ~InQueue(j)
      PROVE  ~InQueue(j)' /\ (job' = j => job = j)
  <2> USE <1>1
  <2>0. queue \in Seq(Jobs) /\ j /= NoJob
    BY NoJobAssumption DEF IInv, TypeOK
  <2>1. job' = j => job = j
    <3>1. queue /= <<>> => InQueue(Head(queue))
      BY <2>0, TailFacts DEF InQueue
    <3> QED BY <2>0, <3>1, StepRefines, PromiseStep
  <2>2. CASE queue /= <<>> /\ queue' = Tail(queue)
    <3>1. InQueue(Head(queue)) /\ \A m \in DOMAIN queue' : InQueue(queue'[m])
      BY <2>2, GetFacts
    <3> QED BY <2>0, <2>2, <3>1, StepRefines, PromiseStep DEF InQueue
  <2>3. CASE queue' = queue \/ queue' = <<>>
    BY <2>3, <2>1 DEF InQueue
  <2>4. ASSUME NEW i \in Jobs, future[i] = "none", queue' = Append(queue, i)
        PROVE  ~InQueue(j)'
    BY <2>4 DEF InQueue
  <2> QED BY <2>1, <2>2, <2>3, <2>4, StepRefines, PromiseStep
<1>2. IInv /\ [Next]_vars
        => [\A j \in Jobs :
              future[j] /= "none" /\ ~InQueue(j)
                 => ~InQueue(j)' /\ (job' = j => job = j)]_vars
  BY <1>1
<1> QED BY <1>2, Invariance, PTL DEF Spec, AtMostOnce

(***************************************************************************)
(* The awaits of a job.                                                    *)
(***************************************************************************)

\* _kill_process_group and asyncio's own clean-up of a spawn await the wrapper without a
\* limit: they do so only for a wrapper that SIGKILL has reached, and, after the kill of a
\* group, with nothing of that group left.
KilledAwaits ==
    /\ worker \in {"reap", "abort"} => leader[job] \in {"zombie", "reaped"}
    /\ worker = "reap" => group[job] = {}

\* Where a wrapper may be left behind: the worker gives up a job whose wrapper was not reaped
\* only when stop() cancels it in the kill of a timed-out job, and one whose wrapper still
\* runs only in the grace of that kill (the except clause of _run does not cover it).
AbandonedInTimeoutKill ==
    [][job /= NoJob /\ job' /= job /\ leader[job] /= "reaped"
          => /\ cause = "timeout" /\ cancelReq
             /\ leader[job] = "alive" => worker = "grace"]_vars

\* A timeout whose kill went as far as SIGKILL has left nothing of the group: members only
\* survive a wrapper that ended within the grace.
KilledLeavesNobody ==
    [][worker = "reap" /\ worker' = "get" => group[job] = {}]_vars

\* How many awaits of _run the job in hand still has before it, at most.
StepsLeft ==
    [new |-> 0, get |-> 0, ended |-> 0, abort |-> 1, reap |-> 1, grace |-> 2,
     communicate |-> 3, spawn |-> 4][worker]

\* Whatever is cancelled, times out or exits, the worker goes through the awaits of a job in
\* one direction, and takes no other before it has let go of it.
JobsAdvance ==
    [][job /= NoJob => \/ worker' = worker /\ job' = job
                       \/ StepsLeft' < StepsLeft /\ job' \in {job, NoJob}]_vars

\* A wrapper and its group only go one way.
LEMMA WrapperStep ==
    ASSUME IInv, [Next]_vars, NEW j \in Jobs
    PROVE  /\ leader[j] = "reaped" => leader'[j] = "reaped"
           /\ leader[j] = "zombie" => leader'[j] \in {"zombie", "reaped"}
           /\ leader[j] /= "alive" /\ group[j] = {} => group'[j] = {}
<1> USE DEF IInv, TypeOK
<1>1. CASE Take
  <2>1. Head(queue) \in Jobs /\ leader[Head(queue)] = "none"
    BY <1>1, GetFacts DEF Take, QueueOK, InQueue
  <2> QED BY <1>1, <2>1 DEF Take
<1>2. CASE GraceExpires \/ CancelledAtSpawn
  BY <1>2 DEF GraceExpires, KillGroup, CancelledAtSpawn
<1>3. ASSUME NEW i \in Jobs, ProcessStep(i)
      PROVE  /\ leader[j] = "reaped" => leader'[j] = "reaped"
             /\ leader[j] = "zombie" => leader'[j] \in {"zombie", "reaped"}
             /\ leader[j] /= "alive" /\ group[j] = {} => group'[j] = {}
  BY <1>3 DEF ProcessStep, Fork, MemberExits, LeaderExits, LeaderReaped
<1>4. CASE UNCHANGED <<leader, group>>
  BY <1>4
<1>5. \/ Take \/ GraceExpires \/ CancelledAtSpawn \/ (\E i \in Jobs : ProcessStep(i))
      \/ UNCHANGED <<leader, group>>
  BY DEF Next, vars, osVars, Start, Stop, WorkerStep, StopStep, CallerStep, TakeFails,
         SpawnReturns, CommunicateReturns, TimeoutFires, GraceReturns, ReapReturns,
         CancelledAtGet, AbortReturns, CancelledAtCommunicate, CancelledInTimeoutKill,
         StopDrains, StopReturns, Dispatch, CancelCaller, RunCallbacks
<1> QED BY <1>1, <1>2, <1>3, <1>4, <1>5

\* Only its own steps move the worker, but for start() and stop().
LEMMA TaskStep == [Next]_vars => Start \/ Stop \/ WorkerStep \/ UNCHANGED workerVars
BY DEF Next, vars, StopStep, StopDrains, StopReturns, CallerStep, Dispatch, CancelCaller,
       RunCallbacks, ProcessStep, Fork, MemberExits, LeaderExits, LeaderReaped

\* A step of the worker with a job in hand.
LEMMA JobStep ==
    ASSUME IInv, WorkerStep, job /= NoJob
    PROVE  /\ \/ job' = job /\ worker' \notin {"new", "get", "ended"}
              \/ job' = NoJob /\ worker' \in {"get", "ended"}
           /\ StepsLeft' < StepsLeft
           /\ leader[job] /= "reaped" /\ job' /= job
                 => cause = "timeout" /\ cancelReq /\ worker \in {"grace", "reap"}
<1> USE DEF IInv, JobInHand, TypeOK, StepsLeft, JobReturns, WorkerEnds
<1>1. CASE SpawnReturns \/ CancelledAtSpawn
  BY <1>1 DEF SpawnReturns, CancelledAtSpawn
<1>2. CASE CommunicateReturns \/ TimeoutFires
  BY <1>2 DEF CommunicateReturns, TimeoutFires
<1>3. CASE GraceReturns \/ GraceExpires
  BY <1>3 DEF GraceReturns, GraceExpires
<1>4. CASE ReapReturns \/ AbortReturns
  BY <1>4 DEF ReapReturns, AbortReturns
<1>5. CASE CancelledAtCommunicate \/ CancelledInTimeoutKill
  BY <1>5 DEF CancelledAtCommunicate, CancelledInTimeoutKill, StopPhase
<1>6. ~(Take \/ TakeFails \/ CancelledAtGet)
  BY DEF Take, TakeFails, CancelledAtGet
<1> QED BY <1>1, <1>2, <1>3, <1>4, <1>5, <1>6 DEF WorkerStep

LEMMA KilledStep == IInv /\ KilledAwaits /\ [Next]_vars => KilledAwaits'
<1> SUFFICES ASSUME IInv, KilledAwaits, [Next]_vars PROVE KilledAwaits'
  OBVIOUS
<1> USE DEF IInv, TypeOK, JobInHand, KilledAwaits
<1>1. CASE Start
  BY <1>1 DEF Start
<1>2. CASE WorkerStep
  <2>1. CASE GraceExpires \/ CancelledAtSpawn
    BY <1>2, <2>1 DEF GraceExpires, CancelledAtSpawn, KillGroup, WrapperOK
  <2>2. CASE worker' \notin {"reap", "abort"}
    BY <2>2
  <2> QED BY <1>2, <2>1, <2>2
          DEF WorkerStep, Take, TakeFails, SpawnReturns, CommunicateReturns, TimeoutFires,
              GraceReturns, ReapReturns, CancelledAtGet, AbortReturns,
              CancelledAtCommunicate, CancelledInTimeoutKill, JobReturns, WorkerEnds,
              workerVars
<1>3. CASE UNCHANGED <<worker, job>>
  <2>1. CASE worker \in {"reap", "abort"}
    <3>1. job \in Jobs
      BY <2>1
    <3> QED BY <1>3, <2>1, <3>1, WrapperStep
  <2> QED BY <1>3, <2>1
<1> QED BY <1>1, <1>2, <1>3, TaskStep DEF Stop, workerVars

LEMMA KilledInvariant == Spec => [](IInv /\ KilledAwaits)
<1>1. Init => KilledAwaits
  BY DEF Init, KilledAwaits
<1> QED BY <1>1, KilledStep, InitInv, StepInv, PTL DEF Spec

\* No await without a limit is on a process that may still be running.
THEOREM OnlyKilledAwaited == Spec => []KilledAwaits
BY KilledInvariant, PTL

\* The worker never goes back within a job.
THEOREM JobsOnlyAdvance == Spec => JobsAdvance
<1>1. IInv /\ [Next]_vars
        => [job /= NoJob => \/ worker' = worker /\ job' = job
                            \/ StepsLeft' < StepsLeft /\ job' \in {job, NoJob}]_vars
  BY TaskStep, JobStep DEF IInv, JobInHand, Start, Stop, workerVars
<1> QED BY <1>1, Invariance, PTL DEF Spec, JobsAdvance

\* The kill of a timed-out group is complete where it had to escalate.
THEOREM KillLeavesNobody == Spec => KilledLeavesNobody
<1>1. IInv /\ KilledAwaits /\ [Next]_vars
        => [worker = "reap" /\ worker' = "get" => group[job] = {}]_vars
  BY DEF KilledAwaits
<1> QED BY <1>1, KilledInvariant, PTL DEF Spec, KilledLeavesNobody

\* A wrapper that is not reaped is given up in one place only.
THEOREM AbandonedOnlyThen == Spec => AbandonedInTimeoutKill
<1>1. IInv /\ KilledAwaits /\ [Next]_vars
        => [job /= NoJob /\ job' /= job /\ leader[job] /= "reaped"
               => /\ cause = "timeout" /\ cancelReq
                  /\ leader[job] = "alive" => worker = "grace"]_vars
  <2> SUFFICES ASSUME IInv, KilledAwaits, [Next]_vars,
                      job /= NoJob, job' /= job, leader[job] /= "reaped"
               PROVE  cause = "timeout" /\ cancelReq /\ (leader[job] = "alive" => worker = "grace")
    OBVIOUS
  <2>1. WorkerStep
    BY TaskStep DEF IInv, JobInHand, Start, Stop, workerVars
  <2> QED BY <2>1, JobStep DEF KilledAwaits
<1> QED BY <1>1, KilledInvariant, PTL DEF Spec, AbandonedInTimeoutKill

(***************************************************************************)
(* Jobs end, and stop() returns.                                           *)
(***************************************************************************)

\* Where the worker can go on: at every await that has a timeout or a cancellation, and at
\* the others once the wrapper is reaped; what is awaited there; and where stop() can.
JobMayStep ==
    \/ worker \in {"spawn", "communicate", "grace"}
    \/ worker = "reap" /\ cancelReq
    \/ worker \in {"reap", "abort"} /\ leader[job] = "reaped"

WorkerMayStep == JobMayStep \/ (worker = "get" /\ cancelReq)

ZombieAwaited == worker \in {"reap", "abort"} /\ leader[job] = "zombie"

StopMayStep == stopper \in {"joined", "yield"} /\ ahead = {}

Reap == \E j \in Jobs : j = job /\ LeaderReaped(j)

\* Weak fairness of the worker, of the child watcher for the wrapper it awaits and of stop(),
\* as Fairness has it, with these guards for its ENABLEDs; and the ready queue of asyncio,
\* first in first out, gets through the callbacks that are ahead of stop().
WorkerRuns == []<>~WorkerMayStep \/ []<><<WorkerStep>>_vars
ChildrenWatched == []<>~ZombieAwaited \/ []<><<Reap>>_vars
StopRuns == []<>~StopMayStep \/ []<><<StopStep>>_vars
LoopRuns == []<>(ahead = {})

\* Every job the worker takes comes to an end, although nothing obliges its processes to:
\* each await has a limit, or is on a wrapper that was killed.
JobsEnd == job /= NoJob ~> job = NoJob

\* A job in hand with at most n awaits before it; and what becomes of it: it waits for the
\* worker, or for its wrapper to be reaped, until it has at most m before it.
Within(n) == StepsLeft \in 1 .. n
Free      == job = NoJob

Rung(n, m) ==
    /\ Within(n) => Within(n)' \/ Free'
    /\ Within(n) /\ JobMayStep => (Within(n)' /\ JobMayStep') \/ Within(m)' \/ Free'
    /\ Within(n) /\ ZombieAwaited
         => (Within(n)' /\ (ZombieAwaited' \/ JobMayStep')) \/ Within(m)' \/ Free'
    /\ Within(n) /\ <<WorkerStep>>_vars => Within(m)' \/ Free'

LEMMA StepsFacts ==
    ASSUME IInv
    PROVE  StepsLeft \in 0 .. 4 /\ (StepsLeft = 0 <=> Free)
BY DEF IInv, TypeOK, JobInHand, StepsLeft, Free

LEMMA RungHolds ==
    ASSUME IInv, [Next]_vars, NEW n \in 1 .. 4
    PROVE  Rung(n, n - 1)
<1> SUFFICES ASSUME Within(n), ~Free' PROVE Rung(n, n - 1)
  BY DEF Rung
<1>1. job /= NoJob /\ StepsLeft \in 1 .. n /\ job \in Jobs
  BY StepsFacts DEF Within, Free, IInv, TypeOK
<1>2. StepsLeft' \in 1 .. 4
  <2>1. IInv'
    BY StepInv
  <2> QED BY <2>1 DEF IInv, TypeOK, JobInHand, StepsLeft, Free
<1>3. CASE WorkerStep
  <2>1. StepsLeft' < StepsLeft
    BY <1>1, <1>3, JobStep
  <2>2. Within(n - 1)' /\ Within(n)'
    BY <1>1, <1>2, <2>1 DEF Within
  <2> QED BY <2>2 DEF Rung
<1>4. CASE ~WorkerStep
  <2>1. worker' = worker /\ job' = job /\ (cancelReq => cancelReq')
    BY <1>1, <1>4, TaskStep DEF Start, Stop, workerVars, IInv, JobInHand
  <2>2. Within(n)'
    BY <2>1, <1>1 DEF Within, StepsLeft
  <2>3. JobMayStep => JobMayStep'
    BY <1>1, <2>1, WrapperStep DEF JobMayStep
  <2>4. ZombieAwaited => ZombieAwaited' \/ JobMayStep'
    BY <1>1, <2>1, WrapperStep DEF JobMayStep, ZombieAwaited
  <2> QED BY <1>4, <2>2, <2>3, <2>4 DEF Rung
<1> QED BY <1>3, <1>4

LEMMA ReapEndsWait == IInv /\ <<Reap>>_vars => ~ZombieAwaited'
<1> SUFFICES ASSUME IInv, Reap PROVE ~ZombieAwaited'
  OBVIOUS
<1>1. job \in Jobs /\ LeaderReaped(job)
  BY DEF Reap
<1> QED BY <1>1 DEF LeaderReaped, ZombieAwaited, workerVars, IInv, TypeOK

\* No job holds up the queue for ever.
THEOREM EveryJobEnds == Spec /\ WorkerRuns /\ ChildrenWatched => JobsEnd
<1>1. IInv /\ [Next]_vars => Rung(1, 0) /\ Rung(2, 1) /\ Rung(3, 2) /\ Rung(4, 3)
  <2>1. ASSUME IInv, [Next]_vars, NEW n \in 1 .. 4 PROVE Rung(n, n - 1)
    BY <2>1, RungHolds
  <2> QED BY <2>1
<1>2. IInv /\ ~Free => Within(4)
  BY StepsFacts DEF Within
<1>3. ~Within(0)
  BY DEF Within
<1>4. IInv /\ KilledAwaits /\ ~Free => JobMayStep \/ ZombieAwaited
  BY DEF IInv, TypeOK, JobInHand, KilledAwaits, Free, JobMayStep, ZombieAwaited
<1>5. job /= NoJob <=> ~Free
  BY DEF Free
<1>6. job = NoJob <=> Free
  BY DEF Free
<1> QED BY <1>1, <1>2, <1>3, <1>4, <1>5, <1>6, ReapEndsWait, KilledInvariant, PTL
        DEF Spec, WorkerRuns, ChildrenWatched, WorkerMayStep, JobsEnd, Rung

\* While stop() awaits the worker, the job in hand can only end with it.
LEMMA JoinStep ==
    ASSUME IInv, [Next]_vars, stopper = "join"
    PROVE  \/ stopper' = "joined"
           \/ stopper' = "join" /\ job' = job /\ (WorkerStep => job /= NoJob)
<1> USE DEF IInv, TypeOK, JobInHand, StopPhase
<1>1. CASE WorkerStep
  <2>1. ~(Take \/ TakeFails \/ SpawnReturns \/ CommunicateReturns \/ TimeoutFires)
    BY DEF Take, TakeFails, SpawnReturns, CommunicateReturns, TimeoutFires
  <2>2. CASE GraceReturns \/ ReapReturns \/ CancelledAtGet \/ AbortReturns \/ CancelledInTimeoutKill
    BY <2>2 DEF GraceReturns, ReapReturns, CancelledAtGet, AbortReturns,
                CancelledInTimeoutKill, WorkerEnds
  <2>3. CASE GraceExpires \/ CancelledAtSpawn \/ CancelledAtCommunicate
    BY <2>3 DEF GraceExpires, CancelledAtSpawn, CancelledAtCommunicate, WorkerEnds, stopVars
  <2> QED BY <1>1, <2>1, <2>2, <2>3 DEF WorkerStep
<1>2. ~(Start \/ Stop \/ StopStep)
  BY DEF Start, Stop, StopStep, StopDrains, StopReturns
<1>3. ASSUME NEW j \in Jobs, CallerStep(j) \/ RunCallbacks(j) \/ ProcessStep(j)
      PROVE  stopper' = stopper
  BY <1>3 DEF CallerStep, Dispatch, CancelCaller, RunCallbacks, ProcessStep, Fork, MemberExits,
              LeaderExits, LeaderReaped, stopVars
<1>4. CASE UNCHANGED vars
  BY <1>1, <1>4 DEF vars, workerVars, stopVars
<1> QED BY <1>1, <1>2, <1>3, <1>4, TaskStep DEF Next, workerVars

\* Once the worker has ended nothing is scheduled ahead of stop() any more.
LEMMA BehindStep ==
    ASSUME IInv, [Next]_vars, stopper \in {"joined", "yield"}
    PROVE  \/ stopper' = stopper /\ ahead' \subseteq ahead
           \/ stopper' = IF stopper = "joined" THEN "yield" ELSE "done"
<1> USE DEF IInv, TypeOK, JobInHand, StopPhase
<1>1. CASE StopStep
  BY <1>1 DEF StopStep, StopDrains, StopReturns, Drain
<1>2. ~(Start \/ Stop \/ WorkerStep)
  BY DEF Start, Stop, WorkerStep, Take, TakeFails, SpawnReturns, CommunicateReturns,
         TimeoutFires, GraceReturns, GraceExpires, ReapReturns, CancelledAtGet, CancelledAtSpawn,
         AbortReturns, CancelledAtCommunicate, CancelledInTimeoutKill
<1>3. ASSUME NEW j \in Jobs, CallerStep(j) \/ RunCallbacks(j) \/ ProcessStep(j)
      PROVE  stopper' = stopper /\ ahead' \subseteq ahead
  BY <1>3 DEF CallerStep, Dispatch, CancelCaller, RunCallbacks, ProcessStep, Fork, MemberExits,
              LeaderExits, LeaderReaped, stopVars
<1>4. CASE UNCHANGED vars
  BY <1>4 DEF vars, stopVars
<1> QED BY <1>1, <1>2, <1>3, <1>4 DEF Next

\* stop() returns, for any number of calls queued behind the worker and any process group:
\* the job in hand ends, the worker with it, and the callbacks ahead of stop() run.
THEOREM StopEnds ==
    Spec /\ WorkerRuns /\ ChildrenWatched /\ StopRuns /\ LoopRuns => StopTerminates
<1>1. IInv /\ [Next]_vars /\ stopper = "join" =>
         \/ (stopper = "join")' /\ (Free' => Free)
         \/ (stopper = "joined")'
  BY JoinStep DEF Free
<1>2. IInv /\ [Next]_vars /\ stopper = "join" /\ Free =>
         \/ (stopper = "join")' /\ Free'
         \/ (stopper = "joined")'
  BY JoinStep DEF Free
<1>3. IInv /\ stopper = "join" /\ Free => worker = "get" /\ cancelReq
  BY DEF IInv, TypeOK, JobInHand, StopPhase, Free
<1>4. IInv /\ [Next]_vars /\ <<WorkerStep>>_vars /\ stopper = "join" /\ Free => (stopper = "joined")'
  BY JoinStep DEF Free
<1>5. IInv /\ [Next]_vars /\ stopper = "joined" =>
         \/ (stopper = "joined")' /\ (ahead = {} => (ahead = {})')
         \/ (stopper = "yield")'
  BY BehindStep
<1>6. IInv /\ [Next]_vars /\ stopper = "yield" =>
         \/ (stopper = "yield")' /\ (ahead = {} => (ahead = {})')
         \/ (stopper = "done")'
  BY BehindStep
<1>7. IInv /\ <<StopStep>>_vars =>
         /\ stopper = "joined" => (stopper = "yield")'
         /\ stopper = "yield" => (stopper = "done")'
  BY DEF StopStep, StopDrains, StopReturns, Drain
<1>8. (stopper = "joined" \/ stopper = "yield") /\ ahead = {} => StopMayStep
  BY DEF StopMayStep
<1>9. job /= NoJob <=> ~Free
  BY DEF Free
<1>10. job = NoJob <=> Free
  BY DEF Free
<1> QED BY <1>1, <1>2, <1>3, <1>4, <1>5, <1>6, <1>7, <1>8, <1>9, <1>10, EveryJobEnds,
           Invariance, PTL
        DEF Spec, WorkerRuns, StopRuns, LoopRuns, WorkerMayStep, JobsEnd, StopTerminates
=============================================================================
