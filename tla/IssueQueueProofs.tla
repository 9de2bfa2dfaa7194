-------------------------- MODULE IssueQueueProofs --------------------------
(***************************************************************************)
(* Theorems about IssueQueue, for every number of sentinels, issues and    *)
(* mishaps, every page size and every choice of logins: type correctness,  *)
(* what the labels promise (LabelsOK, on top of ControlOK and WorldOK, is  *)
(* the inductive invariant), the refinement of WorkBoard, and that SIGTERM *)
(* ends a sentinel.                                                        *)
(***************************************************************************)
EXTENDS IssueQueue, TLAPS

Places == {"off", "sleep"} \cup Claiming \cup InHand

\* The variables of a sentinel fit together.
ControlOK ==
    /\ pc \in [Sentinels -> Places]
    /\ found \in [Sentinels -> SUBSET Issues]
    /\ work \in [Sentinels -> Issues \cup {NoIssue}]
    /\ killed \in [Sentinels -> BOOLEAN]
    /\ verdict \in [Sentinels -> Statuses \cup {"none"}]
    /\ again \in [Sentinels -> BOOLEAN]
    /\ \A s \in Sentinels : pc[s] \in Claiming \cup InHand <=> work[s] /= NoIssue
    /\ \A s \in Sentinels : pc[s] \in Reports <=> verdict[s] /= "none"
    /\ \A s \in Sentinels : pc[s] \in {"assign", "verify"} => LoginOf[s] /= NoLogin

WorldOK ==
    /\ labels \in [Issues -> SUBSET Labels]
    /\ assignees \in [Issues -> SUBSET Logins]
    /\ queuings \in Nat
    /\ mishaps \in Nat
    /\ flagged \in [Sentinels -> BOOLEAN]
    /\ taken \in [Sentinels -> SUBSET Issues]
    /\ owed \subseteq Issues
    /\ earned \subseteq Issues
    /\ dropped \subseteq Issues

LEMMA TypeParts == TypeOK <=> ControlOK /\ WorldOK
BY DEF TypeOK, ControlOK, WorldOK, Places

-----------------------------------------------------------------------------
(* Type correctness.                                                       *)

LEMMA GotoOK ==
    ASSUME ControlOK, NEW s \in Sentinels,
           NEW p \in Places \ Reports,
           NEW i \in Issues \cup {NoIssue},
           NEW rest \in SUBSET Issues,
           p \in Claiming \cup InHand <=> i /= NoIssue,
           p \in {"assign", "verify"} => LoginOf[s] /= NoLogin,
           Goto(s, p, i, rest)
    PROVE  ControlOK'
BY DEF ControlOK, Goto, Places, Reports, InHand, Claiming, Commands, Statuses

LEMMA RestOK ==
    ASSUME ControlOK, NEW s \in Sentinels, Rest(s)
    PROVE  ControlOK'
<1>1. "sleep" \in Places \ Reports /\ "sleep" \notin Claiming \cup InHand
    BY DEF Places, Reports, Claiming, InHand, Commands
<1> QED BY <1>1, GotoOK DEF Rest

\* While a sentinel has an issue it may go on with it, and else without.
LEMMA ContinueOK ==
    ASSUME ControlOK, NEW s \in Sentinels,
           NEW p \in Places \ Reports,
           p \in Claiming \cup InHand <=> pc[s] \in Claiming \cup InHand,
           p \in {"assign", "verify"} => pc[s] \in {"assign", "verify"},
           Continue(s, p)
    PROVE  ControlOK'
<1>1. /\ work[s] \in Issues \cup {NoIssue}
      /\ found[s] \in SUBSET Issues
      /\ p \in Claiming \cup InHand <=> work[s] /= NoIssue
      /\ p \in {"assign", "verify"} => LoginOf[s] /= NoLogin
    BY DEF ControlOK
<1> QED BY <1>1, GotoOK DEF Continue

LEMMA NextTaskOK ==
    ASSUME ControlOK, NEW s \in Sentinels, NEW rest \in SUBSET Issues,
           NextTask(s, rest)
    PROVE  ControlOK'
<1>1. CASE Rest(s)
    BY <1>1, RestOK
<1>2. ASSUME NEW i \in rest,
             Goto(s, IF LoginOf[s] = NoLogin THEN "unlabel" ELSE "assign", i, rest \ {i})
      PROVE  ControlOK'
    <2> DEFINE p == IF LoginOf[s] = NoLogin THEN "unlabel" ELSE "assign"
    <2>1. /\ p \in Places \ Reports /\ p \in Claiming \cup InHand
          /\ p \in {"assign", "verify"} => LoginOf[s] /= NoLogin
        BY DEF Places, Reports, Claiming, InHand, Commands
    <2>2. i \in Issues \cup {NoIssue} /\ i /= NoIssue /\ rest \ {i} \in SUBSET Issues
        BY IssueAssumption
    <2>3. Goto(s, p, i, rest \ {i})
        BY <1>2
    <2> HIDE DEF p
    <2> QED BY <2>1, <2>2, <2>3, GotoOK
<1> QED BY <1>1, <1>2 DEF NextTask

LEMMA ReportOK ==
    ASSUME ControlOK, NEW s \in Sentinels, pc[s] \in InHand,
           NEW v \in Statuses, NEW e \in BOOLEAN, Report(s, v, e)
    PROVE  ControlOK'
BY DEF ControlOK, Report, Places, Reports, InHand, Claiming, Commands, Statuses

LEMMA OnwardOK ==
    ASSUME ControlOK, NEW s \in Sentinels, pc[s] \in Reports,
           NEW p \in Reports, Onward(s, p)
    PROVE  ControlOK'
BY DEF ControlOK, Onward, Places, Reports, InHand, Claiming, Commands, Statuses

LEMMA RaisedOK ==
    ASSUME ControlOK, NEW s \in Sentinels, pc[s] \in Reports, Raised(s)
    PROVE  ControlOK'
<1>1. CASE Continue(s, "stop")
    <2>1. /\ "stop" \in Places \ Reports
          /\ "stop" \in Claiming \cup InHand <=> pc[s] \in Claiming \cup InHand
        BY DEF Places, Reports, Claiming, InHand, Commands
    <2> QED BY <1>1, <2>1, ContinueOK
<1>2. CASE Report(s, "infra-failure", TRUE)
    BY <1>2, ReportOK DEF InHand, Statuses
<1> QED BY <1>1, <1>2 DEF Raised

LEMMA ReturnedOK ==
    ASSUME ControlOK, NEW s \in Sentinels, pc[s] \in Commands,
           NEW success \in BOOLEAN, Returned(s, success)
    PROVE  ControlOK'
<1>1. CASE Rest(s)
    BY <1>1, RestOK
<1>2. CASE Continue(s, "start") \/ Continue(s, "prompt")
    <2>1. /\ {"start", "prompt"} \subseteq Places \ Reports
          /\ pc[s] \in Claiming \cup InHand
          /\ {"start", "prompt"} \subseteq Claiming \cup InHand
        BY DEF Places, Reports, Claiming, InHand, Commands
    <2> QED BY <1>2, <2>1, ContinueOK
<1>3. CASE \E v \in Statuses : Report(s, v, FALSE)
    BY <1>3, ReportOK DEF InHand
<1> QED BY <1>1, <1>2, <1>3 DEF Returned, Statuses

\* One step, by the request or event it belongs to.  What a request does to the labels
\* is nobody's type; where it leads the sentinel is the lemmas above.
LEMMA RequestTypes ==
    ASSUME ControlOK, WorldOK, NEW s \in Sentinels, RequestEnds(s)
    PROVE  ControlOK' /\ WorldOK'
<1>0. ControlOK /\ WorldOK
    OBVIOUS
<1>1. PICK made \in BOOLEAN, answer \in Answers :
          /\ Request(made, answer)
          /\ \/ Assign(s, made, answer) \/ Unlabel(s, made, answer) \/ Label(s, made, answer)
             \/ Tidy(s, made, answer) \/ Status(s, made, answer)
             \/ Verify(s, answer) \/ Announce(s, answer) \/ Tell(s, answer)
    BY DEF RequestEnds
<1>2. mishaps' \in Nat
    BY <1>0, <1>1 DEF WorldOK, Request, Mishap
<1>3. /\ work[s] \in Issues \cup {NoIssue}
      /\ found[s] \in SUBSET Issues
    BY <1>0 DEF ControlOK
<1>4. CASE Assign(s, made, answer)
    <2>1. /\ work[s] \in Issues
          /\ LoginOf[s] \in Logins
        BY <1>0, <1>3, <1>4, LoginAssumption DEF ControlOK, Assign, Claiming
    <2>2. ASSUME Continue(s, "verify") PROVE ControlOK'
        BY <1>0, <1>4, <2>2, ContinueOK
           DEF Assign, Places, Reports, Claiming, InHand, Commands
    <2>3. ControlOK'
        BY <1>0, <1>3, <1>4, <2>2, NextTaskOK, RestOK DEF Assign
    <2>4. assignees' \in [Issues -> SUBSET Logins]
        BY <1>0, <1>4, <2>1 DEF Assign, WorldOK
    <2> QED BY <1>0, <1>2, <1>4, <2>3, <2>4 DEF Assign, WorldOK, history
<1>5. CASE Verify(s, answer)
    <2>1. ASSUME Continue(s, "unlabel") PROVE ControlOK'
        BY <1>0, <1>5, <2>1, ContinueOK
           DEF Verify, Places, Reports, Claiming, InHand, Commands
    <2>2. ControlOK'
        BY <1>0, <1>3, <1>5, <2>1, NextTaskOK, RestOK DEF Verify
    <2> QED BY <1>0, <1>2, <1>5, <2>2 DEF Verify, WorldOK, history
<1>6. CASE Unlabel(s, made, answer)
    <2>1. work[s] \in Issues
        BY <1>0, <1>3, <1>6 DEF ControlOK, Unlabel, Claiming
    <2>2. ASSUME Continue(s, "label") PROVE ControlOK'
        BY <1>0, <1>6, <2>2, ContinueOK
           DEF Unlabel, Places, Reports, Claiming, InHand, Commands
    <2>3. ControlOK'
        BY <1>0, <1>3, <1>6, <2>2, NextTaskOK, RestOK DEF Unlabel
    <2> QED BY <1>0, <1>2, <1>6, <2>1, <2>3 DEF Unlabel, WorldOK, Leave
<1>7. CASE Label(s, made, answer)
    <2>1. work[s] \in Issues
        BY <1>0, <1>3, <1>7 DEF ControlOK, Label, InHand
    <2>2. ASSUME Continue(s, "announce") PROVE ControlOK'
        BY <1>0, <1>7, <2>2, ContinueOK
           DEF Label, Places, Reports, Claiming, InHand, Commands
    <2>3. ControlOK'
        BY <1>0, <1>7, <2>2, RestOK DEF Label
    <2> QED BY <1>0, <1>2, <1>7, <2>1, <2>3 DEF Label, WorldOK, Leave, Labels
<1>8. CASE Announce(s, answer)
    <2>1. /\ work[s] \in Issues /\ work[s] /= NoIssue
          /\ "up" \in Places \ Reports /\ "up" \in Claiming \cup InHand
        BY <1>0, <1>3, <1>8
           DEF ControlOK, Announce, Places, Reports, Claiming, InHand, Commands
    <2>2. ASSUME Goto(s, "up", work[s], {}) PROVE ControlOK'
        BY <1>0, <2>1, <2>2, GotoOK
    <2>3. ControlOK'
        BY <1>0, <1>8, <2>2, RestOK DEF Announce
    <2> QED BY <1>0, <1>2, <1>8, <2>1, <2>3 DEF Announce, WorldOK, Leave
<1>9. CASE Tidy(s, made, answer)
    <2>1. work[s] \in Issues /\ pc[s] \in Reports
        BY <1>0, <1>3, <1>9 DEF ControlOK, Tidy, InHand, Reports
    <2>2. ControlOK'
        BY <1>0, <1>9, <2>1, RaisedOK, OnwardOK DEF Tidy, Reports
    <2> QED BY <1>0, <1>2, <1>9, <2>1, <2>2 DEF Tidy, WorldOK, Leave
<1>10. CASE Status(s, made, answer)
    <2>1. /\ work[s] \in Issues /\ pc[s] \in Reports
          /\ verdict[s] \in Statuses
        BY <1>0, <1>3, <1>10 DEF ControlOK, Status, InHand, Reports
    <2>2. ControlOK'
        BY <1>0, <1>10, <2>1, RaisedOK, OnwardOK DEF Status, Reports
    <2> QED BY <1>0, <1>2, <1>10, <2>1, <2>2 DEF Status, WorldOK, Leave, Labels
<1>11. CASE Tell(s, answer)
    <2>1. pc[s] \in Reports
        BY <1>11 DEF Tell, Reports
    <2>2. ASSUME Continue(s, "stop") PROVE ControlOK'
        BY <1>0, <2>1, <2>2, ContinueOK DEF Places, Reports, Claiming, InHand, Commands
    <2>3. ControlOK'
        BY <1>0, <1>11, <2>1, <2>2, RaisedOK DEF Tell
    <2> QED BY <1>0, <1>2, <1>11, <2>3 DEF Tell, WorldOK, history
<1> QED
    BY <1>1, <1>4, <1>5, <1>6, <1>7, <1>8, <1>9, <1>10, <1>11

LEMMA EventTypes ==
    ASSUME ControlOK, WorldOK, NEW s \in Sentinels,
           \/ Poll(s) \/ Launch(s) \/ SigTerm(s) \/ Crash(s)
           \/ CommandReturns(s) \/ CommandTimesOut(s) \/ CommandRaises(s)
    PROVE  ControlOK' /\ WorldOK'
<1>1. CASE Poll(s)
    <2>1. FirstPage \in SUBSET Issues
        BY DEF FirstPage
    <2>2. ASSUME Continue(s, "off") PROVE ControlOK'
        BY <1>1, <2>2, ContinueOK
           DEF Poll, Places, Reports, Claiming, InHand, Commands
    <2>3. ControlOK'
        BY <1>1, <2>1, <2>2, NextTaskOK, RestOK DEF Poll
    <2>4. mishaps' \in Nat
        BY <1>1 DEF Poll, WorldOK, Mishap
    <2>5. flagged' \in [Sentinels -> BOOLEAN]
        BY <1>1 DEF Poll, WorldOK
    <2> QED BY <1>1, <2>3, <2>4, <2>5 DEF Poll, WorldOK, history
<1>2. CASE Launch(s)
    <2>1. ControlOK'
        BY <1>2, ContinueOK DEF Launch, Places, Reports, Claiming, InHand, Commands
    <2> QED BY <1>2, <2>1 DEF Launch, WorldOK, worldVars, history
<1>3. CASE SigTerm(s)
    BY <1>3 DEF SigTerm, ControlOK, WorldOK, Mishap, controlVars, history
<1>4. CASE Crash(s)
    <2>1. /\ "off" \in Places \ Reports /\ "off" \notin Claiming \cup InHand
          /\ pc[s] \in InHand \ {"tell", "stop"} => work[s] \in Issues
        BY DEF ControlOK, Places, Reports, Claiming, InHand, Commands
    <2>2. ControlOK'
        BY <1>4, <2>1, GotoOK DEF Crash
    <2> QED BY <1>4, <2>1, <2>2 DEF Crash, WorldOK, Mishap
<1>5. CASE CommandReturns(s)
    <2>1. pc[s] \in Commands /\ work[s] \in Issues
        BY <1>5 DEF CommandReturns, ControlOK, InHand
    <2>2. ControlOK'
        BY <1>5, <2>1, ReturnedOK DEF CommandReturns
    <2> QED BY <1>5, <2>1, <2>2 DEF CommandReturns, WorldOK, worldVars
<1>6. CASE CommandTimesOut(s)
    BY <1>6 DEF CommandTimesOut, ControlOK, WorldOK, worldVars, history
<1>7. CASE CommandRaises(s)
    <2>1. pc[s] \in InHand /\ "infra-failure" \in Statuses
        BY <1>7 DEF CommandRaises, InHand, Statuses
    <2>2. ControlOK'
        BY <1>7, <2>1, RestOK, ReportOK DEF CommandRaises
    <2> QED BY <1>7, <2>2 DEF CommandRaises, WorldOK, worldVars, history
<1> QED
    BY <1>1, <1>2, <1>3, <1>4, <1>5, <1>6, <1>7

LEMMA StepTypes == ControlOK /\ WorldOK /\ [Next]_vars => ControlOK' /\ WorldOK'
<1> SUFFICES ASSUME ControlOK, WorldOK, [Next]_vars PROVE ControlOK' /\ WorldOK'
    OBVIOUS
<1>1. ASSUME NEW i \in Issues, AddToQueue(i) PROVE ControlOK' /\ WorldOK'
    BY <1>1 DEF AddToQueue, ControlOK, WorldOK, Labels, controlVars
<1>2. CASE UNCHANGED vars
    BY <1>2 DEF vars, worldVars, controlVars, history, ControlOK, WorldOK
<1> QED BY <1>1, <1>2, RequestTypes, EventTypes DEF Next, Cycle

LEMMA InitTypes == Init => ControlOK /\ WorldOK
BY DEF Init, ControlOK, WorldOK, Places, Reports, Claiming, InHand, Commands, Labels

\* Every variable keeps to its type, an issue is at hand exactly from the claim to the
\* end of its work, and a status exactly while it is reported.
THEOREM TypeCorrect == Spec => []TypeOK
<1>1. Spec => [](ControlOK /\ WorldOK)
    BY InitTypes, StepTypes, PTL DEF Spec
<1>2. ControlOK /\ WorldOK => TypeOK
    BY TypeParts
<1> QED BY <1>1, <1>2, PTL

-----------------------------------------------------------------------------
(* Labels, work and history agree.                                         *)

\* A sentinel that has its issue still to report, and one that has marked it as its own.
Committed == InHand \ {"tell", "stop"}
AtWork    == Committed \ {"label", "status"}

OwedOK ==
    \A i \in owed \ dropped :
        \/ "queued" \in labels[i]
        \/ \E s \in Sentinels : pc[s] \in Committed /\ work[s] = i

WorkOK ==
    \A i \in Issues \ dropped :
        "in-progress" \in labels[i]
            => \E s \in Sentinels : pc[s] \in AtWork /\ work[s] = i

EarnedOK ==
    /\ \A i \in Issues : "success" \in labels[i] => i \in earned
    /\ \A s \in Sentinels : verdict[s] = "success" => work[s] \in earned

LabelsOK == OwedOK /\ WorkOK /\ EarnedOK

LEMMA LabelsKeptByRequests ==
    ASSUME ControlOK, WorldOK, LabelsOK, NEW s \in Sentinels, RequestEnds(s)
    PROVE  LabelsOK'
<1> USE DEF LabelsOK, OwedOK, WorkOK, EarnedOK, ControlOK, WorldOK,
            AtWork, Committed, InHand, Commands, Reports, Claiming, Answers
<1>1. PICK made \in BOOLEAN, answer \in Answers :
          /\ Request(made, answer)
          /\ \/ Assign(s, made, answer) \/ Unlabel(s, made, answer) \/ Label(s, made, answer)
             \/ Tidy(s, made, answer) \/ Status(s, made, answer)
             \/ Verify(s, answer) \/ Announce(s, answer) \/ Tell(s, answer)
    BY DEF RequestEnds
<1>2. CASE Assign(s, made, answer)
    BY <1>2 DEF Assign, Continue, NextTask, Rest, Goto, history
<1>3. CASE Verify(s, answer)
    BY <1>3 DEF Verify, Continue, NextTask, Rest, Goto, history
<1>4. CASE Unlabel(s, made, answer)
    BY <1>1, <1>4 DEF Unlabel, Continue, NextTask, Rest, Goto, Leave, Request
<1>5. CASE Label(s, made, answer)
    BY <1>1, <1>5 DEF Label, Continue, Rest, Goto, Leave, Request
<1>6. CASE Announce(s, answer)
    BY <1>6 DEF Announce, Rest, Goto, Leave
<1>7. CASE Tidy(s, made, answer)
    BY <1>1, <1>7 DEF Tidy, Raised, Report, Onward, Continue, Goto, Leave, Request
<1>8. CASE Status(s, made, answer)
    BY <1>1, <1>8
       DEF Status, Raised, Report, Onward, Continue, Goto, Leave, Request, Statuses
<1>9. CASE Tell(s, answer)
    BY <1>9 DEF Tell, Raised, Report, Continue, Goto, history
<1> QED BY <1>1, <1>2, <1>3, <1>4, <1>5, <1>6, <1>7, <1>8, <1>9

LEMMA LabelsKeptByEvents ==
    ASSUME ControlOK, WorldOK, LabelsOK, NEW s \in Sentinels,
           \/ Poll(s) \/ Launch(s) \/ SigTerm(s) \/ Crash(s)
           \/ CommandReturns(s) \/ CommandTimesOut(s) \/ CommandRaises(s)
    PROVE  LabelsOK'
<1> USE DEF LabelsOK, OwedOK, WorkOK, EarnedOK, ControlOK, WorldOK,
            AtWork, Committed, InHand, Commands, Reports, Claiming
<1>1. CASE Poll(s)
    BY <1>1 DEF Poll, Continue, NextTask, Rest, Goto, history
<1>2. CASE Launch(s)
    BY <1>2 DEF Launch, Continue, Goto, worldVars, history
<1>3. CASE SigTerm(s)
    BY <1>3 DEF SigTerm, controlVars, history
<1>4. CASE Crash(s)
    BY <1>4 DEF Crash, Goto
<1>5. CASE CommandReturns(s)
    BY <1>5 DEF CommandReturns, Returned, Report, Rest, Continue, Goto, worldVars
<1>6. CASE CommandTimesOut(s)
    BY <1>6 DEF CommandTimesOut, worldVars, history
<1>7. CASE CommandRaises(s)
    BY <1>7 DEF CommandRaises, Report, Rest, Goto, worldVars, history
<1> QED BY <1>1, <1>2, <1>3, <1>4, <1>5, <1>6, <1>7

LEMMA StepLabels ==
    ControlOK /\ WorldOK /\ LabelsOK /\ [Next]_vars => LabelsOK'
<1> SUFFICES ASSUME ControlOK, WorldOK, LabelsOK, [Next]_vars PROVE LabelsOK'
    OBVIOUS
<1>1. ASSUME NEW i \in Issues, AddToQueue(i) PROVE LabelsOK'
    BY <1>1 DEF AddToQueue, LabelsOK, OwedOK, WorkOK, EarnedOK, WorldOK, controlVars
<1>2. CASE UNCHANGED vars
    BY <1>2 DEF vars, worldVars, controlVars, history, LabelsOK, OwedOK, WorkOK, EarnedOK
<1> QED BY <1>1, <1>2, LabelsKeptByRequests, LabelsKeptByEvents DEF Next, Cycle

LEMMA LabelsInvariant == Spec => [](ControlOK /\ WorldOK /\ LabelsOK)
<1>1. Init => LabelsOK
    BY DEF Init, LabelsOK, OwedOK, WorkOK, EarnedOK
<1> QED BY <1>1, InitTypes, StepTypes, StepLabels, PTL DEF Spec

\* agent:success is on an issue only after a run of the workflow on it has succeeded.
THEOREM SuccessIsTrue == Spec => []SuccessIsEarned
<1>1. LabelsOK => SuccessIsEarned
    BY DEF LabelsOK, EarnedOK, SuccessIsEarned
<1> QED BY <1>1, LabelsInvariant, PTL

\* A queued issue stays in the queue or in somebody's hands until it is reported.
THEOREM NothingForgotten == Spec => []NeverForgotten
<1>1. WorldOK /\ LabelsOK => NeverForgotten
    BY DEF WorldOK, LabelsOK, OwedOK, NeverForgotten, Committed, Holding
<1> QED BY <1>1, LabelsInvariant, PTL

\* agent:in-progress is on an issue only while a sentinel works on it.
THEOREM WorkIsTrue == Spec => []InProgressHasWorker
<1>1. LabelsOK => InProgressHasWorker
    BY DEF LabelsOK, WorkOK, InProgressHasWorker, AtWork, Committed, Holding
<1> QED BY <1>1, LabelsInvariant, PTL

-----------------------------------------------------------------------------
(* IssueQueue implements WorkBoard.                                        *)

\* What a sentinel has claimed is out of the queue, and neither on its list nor in its
\* next claim; what it is about to claim is off its list.
TakenOK ==
    /\ \A s \in Sentinels : \A i \in taken[s] :
          /\ "queued" \notin labels[i]
          /\ i \notin found[s]
          /\ ~(pc[s] \in Claiming /\ work[s] = i)
    /\ \A s \in Sentinels : pc[s] \in Claiming => work[s] \notin found[s]

LEMMA TakenKeptByNextTask ==
    ASSUME ControlOK, WorldOK, TakenOK, NEW s \in Sentinels,
           NEW rest \in SUBSET Issues, rest \cap taken[s] = {},
           NextTask(s, rest), UNCHANGED <<labels, taken>>
    PROVE  TakenOK'
<1> USE DEF TakenOK, ControlOK, WorldOK, Claiming
<1>1. CASE Rest(s)
    BY <1>1 DEF Rest, Goto
<1>2. ASSUME NEW i \in rest,
             Goto(s, IF LoginOf[s] = NoLogin THEN "unlabel" ELSE "assign", i, rest \ {i})
      PROVE  TakenOK'
    <2> DEFINE p == IF LoginOf[s] = NoLogin THEN "unlabel" ELSE "assign"
    <2>1. /\ pc' = [pc EXCEPT ![s] = p]
          /\ work' = [work EXCEPT ![s] = i]
          /\ found' = [found EXCEPT ![s] = rest \ {i}]
        BY <1>2 DEF Goto
    <2> HIDE DEF p
    <2> QED BY <2>1
<1> QED BY <1>1, <1>2 DEF NextTask

LEMMA TakenKeptByRequests ==
    ASSUME ControlOK, WorldOK, TakenOK, NEW s \in Sentinels, RequestEnds(s)
    PROVE  TakenOK'
<1> USE DEF TakenOK, ControlOK, WorldOK, InHand, Commands, Reports, Claiming, Answers
<1>1. PICK made \in BOOLEAN, answer \in Answers :
          /\ Request(made, answer)
          /\ \/ Assign(s, made, answer) \/ Unlabel(s, made, answer) \/ Label(s, made, answer)
             \/ Tidy(s, made, answer) \/ Status(s, made, answer)
             \/ Verify(s, answer) \/ Announce(s, answer) \/ Tell(s, answer)
    BY DEF RequestEnds
<1>2. CASE Assign(s, made, answer)
    <2>1. ASSUME NextTask(s, found[s]) PROVE TakenOK'
        BY <1>2, <2>1, TakenKeptByNextTask DEF Assign, history
    <2> QED BY <1>2, <2>1 DEF Assign, Continue, Rest, Goto, history
<1>3. CASE Verify(s, answer)
    <2>1. ASSUME NextTask(s, found[s]) PROVE TakenOK'
        BY <1>3, <2>1, TakenKeptByNextTask DEF Verify, history
    <2> QED BY <1>3, <2>1 DEF Verify, Continue, Rest, Goto, history
<1>4. CASE Unlabel(s, made, answer)
    BY <1>1, <1>4 DEF Unlabel, Continue, NextTask, Rest, Goto, Request
<1>5. CASE Label(s, made, answer)
    BY <1>5 DEF Label, Continue, Rest, Goto
<1>6. CASE Announce(s, answer)
    BY <1>6 DEF Announce, Rest, Goto
<1>7. CASE Tidy(s, made, answer)
    BY <1>7 DEF Tidy, Raised, Report, Onward, Continue, Goto
<1>8. CASE Status(s, made, answer)
    BY <1>8 DEF Status, Raised, Report, Onward, Continue, Goto, Statuses
<1>9. CASE Tell(s, answer)
    BY <1>9 DEF Tell, Raised, Report, Continue, Goto, history
<1> QED BY <1>1, <1>2, <1>3, <1>4, <1>5, <1>6, <1>7, <1>8, <1>9

LEMMA TakenKeptByEvents ==
    ASSUME ControlOK, WorldOK, TakenOK, NEW s \in Sentinels,
           \/ Poll(s) \/ Launch(s) \/ SigTerm(s) \/ Crash(s)
           \/ CommandReturns(s) \/ CommandTimesOut(s) \/ CommandRaises(s)
    PROVE  TakenOK'
<1> USE DEF TakenOK, ControlOK, WorldOK, InHand, Commands, Reports, Claiming
<1>1. CASE Poll(s)
    <2>1. ASSUME NextTask(s, FirstPage) PROVE TakenOK'
        <3>1. FirstPage \in SUBSET Issues /\ FirstPage \cap taken[s] = {}
            BY DEF FirstPage
        <3> QED BY <1>1, <2>1, <3>1, TakenKeptByNextTask DEF Poll, history
    <2> QED BY <1>1, <2>1 DEF Poll, Continue, Rest, Goto, history
<1>2. CASE Launch(s)
    BY <1>2 DEF Launch, Continue, Goto, worldVars, history
<1>3. CASE SigTerm(s)
    BY <1>3 DEF SigTerm, controlVars, history
<1>4. CASE Crash(s)
    BY <1>4 DEF Crash, Goto
<1>5. CASE CommandReturns(s)
    BY <1>5 DEF CommandReturns, Returned, Report, Rest, Continue, Goto, worldVars
<1>6. CASE CommandTimesOut(s)
    BY <1>6 DEF CommandTimesOut, worldVars, history
<1>7. CASE CommandRaises(s)
    BY <1>7 DEF CommandRaises, Report, Rest, Goto, worldVars, history
<1> QED BY <1>1, <1>2, <1>3, <1>4, <1>5, <1>6, <1>7

LEMMA StepTaken ==
    ControlOK /\ WorldOK /\ TakenOK /\ [Next]_vars => TakenOK'
<1> SUFFICES ASSUME ControlOK, WorldOK, TakenOK, [Next]_vars PROVE TakenOK'
    OBVIOUS
<1>1. ASSUME NEW i \in Issues, AddToQueue(i) PROVE TakenOK'
    BY <1>1 DEF AddToQueue, TakenOK, WorldOK, controlVars
<1>2. CASE UNCHANGED vars
    BY <1>2 DEF vars, worldVars, controlVars, history, TakenOK
<1> QED BY <1>1, <1>2, TakenKeptByRequests, TakenKeptByEvents DEF Next, Cycle

\* The variables of WorkBoard, as the refinement defines them.
Entries == {i \in Issues : "queued" \in labels[i]}
Hand    == [s \in Sentinels |-> IF Holding(s) THEN work[s] ELSE NoIssue]

\* A sentinel that goes to p with issue i changes its own hand alone.
LEMMA HandMoves ==
    ASSUME ControlOK, NEW s \in Sentinels, NEW p, NEW i,
           pc' = [pc EXCEPT ![s] = p], work' = [work EXCEPT ![s] = i]
    PROVE  Hand' = [Hand EXCEPT ![s] = IF p \in InHand THEN i ELSE NoIssue]
BY DEF Hand, Holding, ControlOK

LEMMA BoardStep ==
    ASSUME ControlOK, WorldOK, NEW s \in Sentinels, NEW h,
           Hand' = [Hand EXCEPT ![s] = h],
           \/ h = Hand[s] /\ Entries' = Entries /\ taken' = taken
           \/ h = NoIssue /\ Entries' = Entries /\ taken' = taken
           \/ /\ h \in Issues \ taken[s]
              /\ Hand[s] = NoIssue
              /\ Entries' = Entries \ {h}
              /\ taken' = [taken EXCEPT ![s] = @ \cup {h}]
           \/ /\ h = Hand[s]
              /\ \E i \in Issues : Entries' = Entries \ {i}
              /\ taken' = taken
    PROVE  [Board!Next]_(Board!vars)
<1>1. CASE h = Hand[s] /\ Entries' = Entries /\ taken' = taken
    <2>1. Hand' = Hand
        BY <1>1 DEF Hand
    <2> QED BY <1>1, <2>1 DEF Board!vars, Hand, Entries
<1>2. CASE h = NoIssue /\ Hand[s] /= NoIssue /\ Entries' = Entries /\ taken' = taken
    <2>1. Board!LayDown(s)
        BY <1>2 DEF Board!LayDown, Hand, Entries
    <2> QED BY <2>1 DEF Board!Next
<1>3. CASE /\ h \in Issues \ taken[s]
           /\ Hand[s] = NoIssue
           /\ Entries' = Entries \ {h}
           /\ taken' = [taken EXCEPT ![s] = @ \cup {h}]
    <2>1. Board!Take(s, h)
        BY <1>3 DEF Board!Take, Hand, Entries
    <2> QED BY <1>3, <2>1 DEF Board!Next
<1>4. CASE h = Hand[s] /\ taken' = taken /\ \E i \in Issues : Entries' = Entries \ {i}
    <2>1. PICK i \in Issues : Entries' = Entries \ {i}
        BY <1>4
    <2>2. Hand' = Hand
        BY <1>4 DEF Hand
    <2>3. Board!Lose(i)
        BY <1>4, <2>1, <2>2 DEF Board!Lose, Hand, Entries
    <2> QED BY <2>3 DEF Board!Next
<1> QED BY <1>1, <1>2, <1>3, <1>4

LEMMA BoardImplementedByRequests ==
    ASSUME ControlOK, WorldOK, TakenOK, NEW s \in Sentinels, RequestEnds(s)
    PROVE  [Board!Next]_(Board!vars)
<1> USE DEF InHand, Commands, Reports, Claiming
<1>1. PICK made \in BOOLEAN, answer \in Answers :
          /\ Request(made, answer)
          /\ \/ Assign(s, made, answer) \/ Unlabel(s, made, answer) \/ Label(s, made, answer)
             \/ Tidy(s, made, answer) \/ Status(s, made, answer)
             \/ Verify(s, answer) \/ Announce(s, answer) \/ Tell(s, answer)
    BY DEF RequestEnds
<1>2. PICK p, i : pc' = [pc EXCEPT ![s] = p] /\ work' = [work EXCEPT ![s] = i]
    BY <1>1 DEF Assign, Unlabel, Label, Tidy, Status, Verify, Announce, Tell,
                NextTask, Rest, Continue, Raised, Report, Onward, Goto, ControlOK
<1>3. /\ Hand' = [Hand EXCEPT ![s] = IF p \in InHand THEN i ELSE NoIssue]
      /\ pc'[s] = p /\ work'[s] = i
      /\ Hand[s] = IF pc[s] \in InHand THEN work[s] ELSE NoIssue
    BY <1>2, HandMoves DEF Hand, Holding, ControlOK
<1>4. CASE Assign(s, made, answer)
    <2>1. p \notin InHand /\ pc[s] \notin InHand
        BY <1>3, <1>4 DEF Assign, NextTask, Rest, Continue, Goto, ControlOK
    <2>2. Entries' = Entries /\ taken' = taken
        BY <1>4 DEF Assign, Entries, history
    <2> QED BY <1>3, <2>1, <2>2, BoardStep
<1>5. CASE Verify(s, answer)
    <2>1. p \notin InHand /\ pc[s] \notin InHand
        BY <1>3, <1>5 DEF Verify, NextTask, Rest, Continue, Goto, ControlOK
    <2>2. Entries' = Entries /\ taken' = taken
        BY <1>5 DEF Verify, Entries, history
    <2> QED BY <1>3, <2>1, <2>2, BoardStep
<1>6. CASE Unlabel(s, made, answer)
    <2>1. work[s] \in Issues \ taken[s] /\ pc[s] \notin InHand
        BY <1>6 DEF Unlabel, ControlOK, TakenOK
    <2>2. Entries' = IF made THEN Entries \ {work[s]} ELSE Entries
        BY <1>6, <2>1 DEF Unlabel, Entries, WorldOK
    <2>3. CASE answer = "ok"
        <3>1. p \in InHand /\ i = work[s] /\ made
            BY <1>1, <1>3, <1>6, <2>3 DEF Unlabel, Continue, Goto, ControlOK, Request
        <3>2. taken' = [taken EXCEPT ![s] = @ \cup {work[s]}]
            BY <1>6, <2>3 DEF Unlabel
        <3> QED BY <1>3, <2>1, <2>2, <3>1, <3>2, BoardStep
    <2>4. CASE answer /= "ok"
        <3>1. p \notin InHand
            BY <1>3, <1>6, <2>4 DEF Unlabel, NextTask, Rest, Goto, ControlOK
        <3>2. taken' = taken
            BY <1>6, <2>4 DEF Unlabel
        <3> QED BY <1>3, <2>1, <2>2, <3>1, <3>2, BoardStep
    <2> QED BY <2>3, <2>4
<1>7. CASE Label(s, made, answer)
    <2>1. pc[s] \in InHand /\ (p \in InHand => i = work[s]) /\ work[s] \in Issues
        BY <1>3, <1>7 DEF Label, Rest, Continue, Goto, ControlOK
    <2>2. Entries' = Entries /\ taken' = taken
        BY <1>7, <2>1 DEF Label, Entries, WorldOK
    <2> QED BY <1>3, <2>1, <2>2, BoardStep
<1>8. CASE Announce(s, answer)
    <2>1. pc[s] \in InHand /\ (p \in InHand => i = work[s])
        BY <1>3, <1>8 DEF Announce, Rest, Goto, ControlOK
    <2>2. Entries' = Entries /\ taken' = taken
        BY <1>8 DEF Announce, Entries
    <2> QED BY <1>3, <2>1, <2>2, BoardStep
<1>9. CASE Tidy(s, made, answer)
    <2>1. pc[s] \in InHand /\ (p \in InHand => i = work[s]) /\ work[s] \in Issues
        BY <1>3, <1>9 DEF Tidy, Raised, Report, Onward, Continue, Goto, ControlOK
    <2>2. Entries' = Entries /\ taken' = taken
        BY <1>9, <2>1 DEF Tidy, Entries, WorldOK
    <2> QED BY <1>3, <2>1, <2>2, BoardStep
<1>10. CASE Status(s, made, answer)
    <2>1. /\ pc[s] \in InHand /\ (p \in InHand => i = work[s])
          /\ work[s] \in Issues /\ verdict[s] /= "queued"
        BY <1>3, <1>10
           DEF Status, Raised, Report, Onward, Continue, Goto, ControlOK, Statuses
    <2>2. Entries' = Entries /\ taken' = taken
        BY <1>10, <2>1 DEF Status, Entries, WorldOK
    <2> QED BY <1>3, <2>1, <2>2, BoardStep
<1>11. CASE Tell(s, answer)
    <2>1. pc[s] \in InHand /\ (p \in InHand => i = work[s])
        BY <1>3, <1>11 DEF Tell, Raised, Report, Continue, Goto, ControlOK
    <2>2. Entries' = Entries /\ taken' = taken
        BY <1>11 DEF Tell, Entries, history
    <2> QED BY <1>3, <2>1, <2>2, BoardStep
<1> QED BY <1>1, <1>4, <1>5, <1>6, <1>7, <1>8, <1>9, <1>10, <1>11

LEMMA BoardImplementedByEvents ==
    ASSUME ControlOK, WorldOK, NEW s \in Sentinels,
           \/ Poll(s) \/ Launch(s) \/ SigTerm(s) \/ Crash(s)
           \/ CommandReturns(s) \/ CommandTimesOut(s) \/ CommandRaises(s)
    PROVE  [Board!Next]_(Board!vars)
<1> USE DEF InHand, Commands, Reports, Claiming
<1>1. Entries' = Entries /\ taken' = taken
    BY DEF Poll, Launch, SigTerm, Crash, CommandReturns, CommandTimesOut, CommandRaises,
           Entries, worldVars, history
<1>2. PICK p, i : pc' = [pc EXCEPT ![s] = p] /\ work' = [work EXCEPT ![s] = i]
    <2>1. CASE UNCHANGED <<pc, work>>
        <3>1. pc' = [pc EXCEPT ![s] = pc[s]] /\ work' = [work EXCEPT ![s] = work[s]]
            BY <2>1 DEF ControlOK
        <3> QED BY <3>1
    <2>2. CASE Poll(s) \/ Launch(s) \/ Crash(s) \/ CommandReturns(s) \/ CommandRaises(s)
        BY <2>2 DEF Poll, Launch, Crash, CommandReturns, CommandRaises, Returned,
                    NextTask, Rest, Continue, Report, Goto, ControlOK
    <2> QED BY <2>1, <2>2 DEF SigTerm, CommandTimesOut, controlVars
<1>3. /\ Hand' = [Hand EXCEPT ![s] = IF p \in InHand THEN i ELSE NoIssue]
      /\ pc'[s] = p /\ work'[s] = i
      /\ Hand[s] = IF pc[s] \in InHand THEN work[s] ELSE NoIssue
    BY <1>2, HandMoves DEF Hand, Holding, ControlOK
<1>4. p \in InHand => pc[s] \in InHand /\ i = work[s]
    BY <1>3 DEF Poll, Launch, SigTerm, Crash, CommandReturns, CommandTimesOut, CommandRaises,
                Returned, NextTask, Rest, Continue, Report, Goto, ControlOK, controlVars
<1> QED BY <1>1, <1>3, <1>4, BoardStep

LEMMA BoardImplementedByAll ==
    ControlOK /\ WorldOK /\ TakenOK /\ [Next]_vars => [Board!Next]_(Board!vars)
<1> SUFFICES ASSUME ControlOK, WorldOK, TakenOK, [Next]_vars
             PROVE  [Board!Next]_(Board!vars)
    OBVIOUS
<1>1. ASSUME NEW i \in Issues, AddToQueue(i) PROVE [Board!Next]_(Board!vars)
    <2>1. /\ i \notin Entries /\ Entries' = Entries \cup {i}
          /\ taken' = [s \in Sentinels |-> taken[s] \ {i}]
          /\ Hand' = Hand
        BY <1>1 DEF AddToQueue, Entries, Hand, Holding, WorldOK, controlVars
    <2>2. Board!Put(i)
        BY <2>1 DEF Board!Put, Entries, Hand
    <2> QED BY <2>2 DEF Board!Next
<1>2. CASE UNCHANGED vars
    BY <1>2 DEF vars, worldVars, controlVars, history, Board!vars, Holding
<1> QED BY <1>1, <1>2, BoardImplementedByRequests, BoardImplementedByEvents DEF Next, Cycle

\* The queue, with its requests, failures and crashes, is a board from which each sentinel
\* takes one issue at a time, and none of them twice.
THEOREM BoardImplemented == Spec => BoardSpec
<1>1. Init => TakenOK /\ Board!Init
    BY DEF Init, TakenOK, Claiming, Board!Init, Holding, InHand, Commands, Reports
<1>2. Spec => [](ControlOK /\ WorldOK /\ TakenOK)
    BY <1>1, InitTypes, StepTypes, StepTaken, PTL DEF Spec
<1> QED BY <1>1, <1>2, BoardImplementedByAll, PTL DEF Spec, BoardSpec, Board!Spec

-----------------------------------------------------------------------------
(* SIGTERM ends a sentinel.                                                *)

\* How much a sentinel that got SIGTERM still has to do, at most: the requests before it,
\* twice over if the first report raises, and for each command its end and its timeout.
Left(s) ==
    LET asked == [off |-> 0, sleep |-> 1, tell |-> 4, status |-> 5, tidy |-> 6,
                  announce |-> 16, label |-> 17, unlabel |-> 18, verify |-> 19, assign |-> 20]
        run   == [stop |-> 2, prompt |-> 10, start |-> 12, up |-> 14]
    IN  IF pc[s] \in Commands THEN run[pc[s]] + (IF killed[s] THEN 0 ELSE 1)
        ELSE asked[pc[s]] + (IF pc[s] \in Reports /\ ~again[s] THEN 3 ELSE 0)

\* Where a request, or the sleep before the loop's condition, is awaited; and where a
\* command still has its timeout before it.  Each request has the step of its answer, and
\* the timeout needs nothing else.
Asks(s) ==
    \/ pc[s] = "sleep" /\ flagged[s]
    \/ pc[s] \in {"label", "announce"} \cup Claiming \cup Reports
Waits(s) == pc[s] \in Commands /\ ~killed[s]

\* Weak fairness of the sentinel, as Fairness has it, with these guards for its ENABLEDs.
SentinelRuns(s) ==
    /\ []<>~Asks(s) \/ []<><<Cycle(s)>>_vars
    /\ []<>~Waits(s) \/ []<><<CommandTimesOut(s)>>_vars

\* handle_signal only sets a flag, which the loop over the tasks and the while look at: a
\* sentinel that has it begins no further claim and no further cycle, and whatever fails,
\* times out or raises on the way, each of its steps brings it closer to its end.
FlaggedWindsDown ==
    [][\A s \in Sentinels :
          flagged[s] /\ pc[s] /= "off" /\ pc'[s] /= "off"
              => \/ pc'[s] = pc[s] /\ killed'[s] = killed[s]
                 \/ Left(s)' < Left(s)]_vars

LEMMA LeftFacts ==
    ASSUME ControlOK, NEW s \in Sentinels
    PROVE  Left(s) \in 0 .. 20 /\ (Left(s) = 0 <=> pc[s] = "off")
BY DEF ControlOK, Places, Claiming, InHand, Commands, Reports, Left

LEMMA LeftFactsNext ==
    ASSUME ControlOK, WorldOK, [Next]_vars, NEW s \in Sentinels
    PROVE  Left(s)' \in 0 .. 20 /\ (Left(s)' = 0 <=> pc'[s] = "off")
<1>1. ControlOK'
    BY StepTypes
<1> QED BY <1>1 DEF ControlOK, Places, Claiming, InHand, Commands, Reports, Left

\* Where a step of the sentinel leads.
LEMMA GotoLeads ==
    ASSUME ControlOK, NEW s \in Sentinels, NEW p, NEW i, NEW rest, Goto(s, p, i, rest)
    PROVE  pc'[s] = p /\ ~killed'[s] /\ ~again'[s]
BY DEF ControlOK, Goto

LEMMA ReportLeads ==
    ASSUME ControlOK, NEW s \in Sentinels, NEW v, NEW e \in BOOLEAN, Report(s, v, e)
    PROVE  pc'[s] = "tidy" /\ again'[s] = e
BY DEF ControlOK, Report

LEMMA OnwardLeads ==
    ASSUME ControlOK, NEW s \in Sentinels, NEW p, Onward(s, p)
    PROVE  pc'[s] = p /\ again'[s] = again[s]
BY DEF ControlOK, Onward

LEMMA CycleLowers ==
    ASSUME ControlOK, WorldOK, NEW s \in Sentinels, flagged[s], pc[s] /= "off", Cycle(s)
    PROVE  Left(s)' < Left(s) /\ (pc'[s] = "off" \/ flagged'[s])
<1> USE DEF Commands, Reports
<1>1. ASSUME NEW rest, NextTask(s, rest) PROVE pc'[s] = "sleep"
    BY <1>1, GotoLeads DEF NextTask, Rest
<1>2. ASSUME Rest(s) PROVE pc'[s] = "sleep"
    BY <1>2, GotoLeads DEF Rest
<1>3. ASSUME NEW p, Continue(s, p) PROVE pc'[s] = p /\ ~killed'[s] /\ ~again'[s]
    BY <1>3, GotoLeads DEF Continue
<1>4. CASE Poll(s)
    BY <1>1, <1>2, <1>3, <1>4 DEF Poll, Left
<1>5. CASE RequestEnds(s)
    <2>1. PICK made \in BOOLEAN, answer \in Answers :
          /\ Request(made, answer)
          /\ \/ Assign(s, made, answer) \/ Unlabel(s, made, answer) \/ Label(s, made, answer)
             \/ Tidy(s, made, answer) \/ Status(s, made, answer)
             \/ Verify(s, answer) \/ Announce(s, answer) \/ Tell(s, answer)
        BY <1>5 DEF RequestEnds
    <2>2. flagged' = flagged
        BY <2>1 DEF Assign, Unlabel, Label, Tidy, Status, Verify, Announce, Tell
    <2>3. CASE \/ Assign(s, made, answer) \/ Verify(s, answer) \/ Unlabel(s, made, answer)
               \/ Label(s, made, answer)
        BY <1>1, <1>2, <1>3, <2>3 DEF Assign, Verify, Unlabel, Label, Left
    <2>4. CASE Announce(s, answer)
        BY <1>2, <2>4, GotoLeads DEF Announce, Left
    <2>5. ASSUME Raised(s) PROVE IF again[s] THEN pc'[s] = "stop" /\ ~killed'[s]
                                             ELSE pc'[s] = "tidy" /\ again'[s]
        BY <1>3, <2>5, ReportLeads DEF Raised
    <2>6. CASE Tidy(s, made, answer) \/ Status(s, made, answer) \/ Tell(s, answer)
        BY <1>3, <2>5, <2>6, OnwardLeads DEF Tidy, Status, Tell, Left
    <2> QED BY <2>1, <2>2, <2>3, <2>4, <2>6
<1> QED BY <1>4, <1>5 DEF Cycle

LEMMA CommandLowers ==
    ASSUME ControlOK, WorldOK, NEW s \in Sentinels, flagged[s],
           CommandReturns(s) \/ CommandTimesOut(s) \/ CommandRaises(s)
    PROVE  Left(s)' < Left(s) /\ flagged'[s]
<1> USE DEF Commands, Reports
<1>1. ASSUME Rest(s) PROVE pc'[s] = "sleep"
    BY <1>1, GotoLeads DEF Rest
<1>2. ASSUME NEW p, Continue(s, p) PROVE pc'[s] = p /\ ~killed'[s]
    BY <1>2, GotoLeads DEF Continue
<1>3. ASSUME NEW v, NEW e \in BOOLEAN, Report(s, v, e) PROVE pc'[s] = "tidy"
    BY <1>3, ReportLeads
<1>4. CASE CommandReturns(s)
    <2>1. \/ pc[s] \in Commands /\ pc'[s] = "sleep"
          \/ pc[s] \in {"up", "start", "prompt"} /\ pc'[s] = "tidy"
          \/ pc[s] = "up" /\ pc'[s] = "start"
          \/ pc[s] = "start" /\ pc'[s] = "prompt"
        BY <1>1, <1>2, <1>3, <1>4 DEF CommandReturns, Returned
    <2> QED BY <1>4, <2>1 DEF CommandReturns, Left
<1>5. CASE CommandRaises(s)
    <2>1. \/ pc[s] \in Commands /\ pc'[s] = "sleep"
          \/ pc[s] \in {"up", "start", "prompt"} /\ pc'[s] = "tidy"
        BY <1>1, <1>3, <1>5 DEF CommandRaises
    <2> QED BY <1>5, <2>1 DEF CommandRaises, Left
<1>6. CASE CommandTimesOut(s)
    BY <1>6 DEF CommandTimesOut, Left, ControlOK
<1> QED BY <1>4, <1>5, <1>6 DEF CommandReturns, CommandTimesOut, CommandRaises

\* A step of a sentinel leaves the others where they are.
LEMMA OthersStay ==
    ASSUME ControlOK, WorldOK, NEW s \in Sentinels, NEW t \in Sentinels, t /= s,
           \/ Cycle(t) \/ Launch(t) \/ SigTerm(t) \/ Crash(t)
           \/ CommandReturns(t) \/ CommandTimesOut(t) \/ CommandRaises(t)
    PROVE  /\ pc'[s] = pc[s] /\ killed'[s] = killed[s] /\ again'[s] = again[s]
           /\ flagged'[s] = flagged[s]
<1>1. ASSUME NEW p, NEW i, NEW rest, Goto(t, p, i, rest)
      PROVE  pc'[s] = pc[s] /\ killed'[s] = killed[s] /\ again'[s] = again[s]
    BY <1>1 DEF Goto, ControlOK
<1>2. ASSUME NEW v, NEW e, Report(t, v, e)
      PROVE  pc'[s] = pc[s] /\ killed'[s] = killed[s] /\ again'[s] = again[s]
    BY <1>2 DEF Report, ControlOK
<1>3. ASSUME NEW p, Onward(t, p)
      PROVE  pc'[s] = pc[s] /\ killed'[s] = killed[s] /\ again'[s] = again[s]
    BY <1>3 DEF Onward, ControlOK
<1>4. CASE Poll(t)
    BY <1>1, <1>4 DEF Poll, NextTask, Rest, Continue, WorldOK
<1>5. CASE RequestEnds(t)
    BY <1>1, <1>2, <1>3, <1>5
       DEF RequestEnds, Assign, Unlabel, Label, Tidy, Status, Verify, Announce, Tell,
           NextTask, Rest, Continue, Raised
<1>6. CASE Launch(t) \/ Crash(t)
    BY <1>1, <1>6 DEF Launch, Crash, Continue, WorldOK
<1>7. CASE SigTerm(t) \/ CommandTimesOut(t)
    BY <1>7 DEF SigTerm, CommandTimesOut, controlVars, ControlOK, WorldOK
<1>8. CASE CommandReturns(t) \/ CommandRaises(t)
    BY <1>1, <1>2, <1>8 DEF CommandReturns, CommandRaises, Returned, Rest, Continue
<1> QED BY <1>4, <1>5, <1>6, <1>7, <1>8 DEF Cycle

LEMMA FlaggedStep ==
    ASSUME ControlOK, WorldOK, [Next]_vars, NEW s \in Sentinels, flagged[s], pc[s] /= "off"
    PROVE  \/ pc'[s] = "off"
           \/ /\ flagged'[s]
              /\ \/ pc'[s] = pc[s] /\ killed'[s] = killed[s] /\ again'[s] = again[s]
                 \/ Left(s)' < Left(s)
<1>1. CASE UNCHANGED vars
    BY <1>1 DEF vars, controlVars
<1>2. ASSUME NEW i \in Issues, AddToQueue(i) PROVE UNCHANGED <<controlVars, flagged>>
    BY <1>2 DEF AddToQueue
<1>3. CASE Cycle(s)
    BY <1>3, CycleLowers
<1>4. CASE CommandReturns(s) \/ CommandTimesOut(s) \/ CommandRaises(s)
    BY <1>4, CommandLowers
<1>5. CASE Launch(s) \/ SigTerm(s)
    BY <1>5 DEF Launch, SigTerm
<1>6. CASE Crash(s)
    BY <1>6, GotoLeads DEF Crash
<1> QED BY <1>1, <1>2, <1>3, <1>4, <1>5, <1>6, OthersStay DEF Next, controlVars

\* A flagged sentinel only goes on with what it has in hand, whoever else is at work.
THEOREM WindsDown == Spec => FlaggedWindsDown
<1>1. ControlOK /\ WorldOK /\ [Next]_vars
        => [\A s \in Sentinels :
              flagged[s] /\ pc[s] /= "off" /\ pc'[s] /= "off"
                => \/ pc'[s] = pc[s] /\ killed'[s] = killed[s]
                   \/ Left(s)' < Left(s)]_vars
    BY FlaggedStep
<1>2. Spec => [](ControlOK /\ WorldOK)
    BY InitTypes, StepTypes, PTL DEF Spec
<1> QED BY <1>1, <1>2, PTL DEF Spec, FlaggedWindsDown

\* Flagged, with at most n to do.
Within(s, n) == flagged[s] /\ Left(s) \in 1 .. n
Off(s) == pc[s] = "off"

\* With at most n to do a sentinel keeps to it; what it waits for it waits for until it has
\* at most m to do; and any end of that wait brings it there.
Rung(s, n, m) ==
    /\ Within(s, n) => Within(s, n)' \/ Off(s)'
    /\ Within(s, n) /\ Asks(s) => (Within(s, n)' /\ Asks(s)') \/ Within(s, m)' \/ Off(s)'
    /\ Within(s, n) /\ Waits(s) => (Within(s, n)' /\ Waits(s)') \/ Within(s, m)' \/ Off(s)'
    /\ Within(s, n) /\ killed[s] => (Within(s, n)' /\ killed'[s]) \/ Within(s, m)' \/ Off(s)'
    /\ Within(s, n) /\ <<Cycle(s) \/ CommandTimesOut(s)>>_vars => Within(s, m)' \/ Off(s)'

LEMMA RungHolds ==
    ASSUME ControlOK, WorldOK, [Next]_vars, NEW s \in Sentinels, NEW n \in 1 .. 20
    PROVE  Rung(s, n, n - 1)
<1> SUFFICES ASSUME Within(s, n), ~Off(s)' PROVE Rung(s, n, n - 1)
    BY DEF Rung
<1>1. flagged[s] /\ pc[s] /= "off" /\ Left(s) \in 1 .. n
    BY LeftFacts DEF Within
<1>2. Left(s)' \in 1 .. 20
    BY LeftFactsNext DEF Off
<1>3. \/ Left(s)' < Left(s) /\ Within(s, n - 1)'
      \/ /\ Within(s, n)' /\ Left(s)' = Left(s)
         /\ pc'[s] = pc[s] /\ killed'[s] = killed[s]
    <2>1. CASE Left(s)' < Left(s)
        BY <1>1, <1>2, <2>1, FlaggedStep DEF Within, Off
    <2>2. CASE pc'[s] = pc[s] /\ killed'[s] = killed[s] /\ again'[s] = again[s]
        BY <1>1, <2>2, FlaggedStep DEF Within, Off, Left
    <2> QED BY <1>1, <2>1, <2>2, FlaggedStep DEF Off
<1>4. CASE Within(s, n - 1)' 
    <2>1. Within(s, n)'
        BY <1>4 DEF Within
    <2> QED BY <1>4, <2>1 DEF Rung, Off
<1>5. CASE /\ Within(s, n)' /\ Left(s)' = Left(s)
           /\ pc'[s] = pc[s] /\ killed'[s] = killed[s]
    <2>1. ~(Cycle(s) \/ CommandTimesOut(s))
        BY <1>1, <1>5, CycleLowers, CommandLowers
    <2> QED BY <1>5, <2>1 DEF Rung, Asks, Waits, Within
<1> QED BY <1>3, <1>4, <1>5

LEMMA FlaggedEnds ==
    ASSUME NEW s \in Sentinels
    PROVE  Spec /\ SentinelRuns(s) => (PipesClose(s) => (flagged[s] ~> pc[s] = "off"))
<1>1. ControlOK /\ WorldOK /\ [Next]_vars =>
         /\ Rung(s, 1, 0) /\ Rung(s, 2, 1) /\ Rung(s, 3, 2) /\ Rung(s, 4, 3)
         /\ Rung(s, 5, 4) /\ Rung(s, 6, 5) /\ Rung(s, 7, 6) /\ Rung(s, 8, 7)
         /\ Rung(s, 9, 8) /\ Rung(s, 10, 9) /\ Rung(s, 11, 10) /\ Rung(s, 12, 11)
         /\ Rung(s, 13, 12) /\ Rung(s, 14, 13) /\ Rung(s, 15, 14) /\ Rung(s, 16, 15)
         /\ Rung(s, 17, 16) /\ Rung(s, 18, 17) /\ Rung(s, 19, 18) /\ Rung(s, 20, 19)
    <2>1. ASSUME ControlOK, WorldOK, [Next]_vars, NEW n \in 1 .. 20 PROVE Rung(s, n, n - 1)
        BY <2>1, RungHolds
    <2> QED BY <2>1
<1>2. ControlOK /\ flagged[s] => Within(s, 20) \/ Off(s)
    BY LeftFacts DEF Within, Off
<1>3. ControlOK /\ flagged[s] => Asks(s) \/ Waits(s) \/ killed[s] \/ Off(s)
    BY DEF ControlOK, Places, Asks, Waits, Off, InHand
<1>4. Within(s, 20) => flagged[s]
    BY DEF Within
<1>5. Spec => [](ControlOK /\ WorldOK)
    BY InitTypes, StepTypes, PTL DEF Spec
<1>6. ~Within(s, 0)
    BY DEF Within
<1> QED BY <1>1, <1>2, <1>3, <1>4, <1>5, <1>6, PTL
        DEF Spec, SentinelRuns, PipesClose, Rung, Off

\* SIGTERM ends a sentinel, on any number of issues and with any others at work, provided
\* that it runs and that the commands it had to kill let go of their output.
THEOREM SigTermHeeded == Spec /\ (\A s \in Sentinels : SentinelRuns(s)) => SigTermEnds
<1>1. ASSUME NEW s \in Sentinels
      PROVE  Spec /\ SentinelRuns(s) => (PipesClose(s) => (flagged[s] ~> pc[s] = "off"))
    BY FlaggedEnds
<1> QED BY <1>1 DEF SigTermEnds
=============================================================================
