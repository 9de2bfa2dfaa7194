------------------------- MODULE SequentialDispatch -------------------------
(***************************************************************************)
(* What Dispatcher.dispatch() promises its callers, with the subprocesses, *)
(* the asyncio tasks and the signals taken out: an executor that takes     *)
(* calls in the order they are made, runs one at a time, settles every     *)
(* call exactly once and, once it is closed, begins and completes nothing. *)
(* Dispatcher.tla is shown to implement it.                                *)
(***************************************************************************)
EXTENDS Sequences, SequencesExt

CONSTANTS Jobs,     \* the dispatch() calls, each made at most once
          NoJob     \* "nothing is running"

VARIABLES line,     \* calls accepted and not begun, oldest first
          current,  \* the call being run, or NoJob
          outcome,  \* what each call's awaiter gets
          closed    \* stop() has begun

vars == <<line, current, outcome, closed>>

\* Outcomes a run produces: the wrapper's exit code is zero or not, -1 for a
\* timeout, or the launch itself raised.
Produced == {"zero", "error", "timeout", "exception"}

Outcomes == {"none", "pending", "cancelled"} \cup Produced

Pending == {c \in Jobs : outcome[c] = "pending"}

Init ==
    /\ line = <<>>
    /\ current = NoJob
    /\ outcome = [c \in Jobs |-> "none"]
    /\ closed = FALSE

Submit(c) ==
    /\ ~closed
    /\ outcome[c] = "none"
    /\ outcome' = [outcome EXCEPT ![c] = "pending"]
    /\ line' = Append(line, c)
    /\ UNCHANGED <<current, closed>>

\* The awaiter gives up; its call keeps its place in the line.
Withdraw(c) ==
    /\ outcome[c] = "pending"
    /\ outcome' = [outcome EXCEPT ![c] = "cancelled"]
    /\ UNCHANGED <<line, current, closed>>

Begin ==
    /\ ~closed
    /\ current = NoJob
    /\ line /= <<>>
    /\ current' = Head(line)
    /\ line' = Tail(line)
    /\ UNCHANGED <<outcome, closed>>

\* A call that cannot even be launched leaves the line with its exception.
Fail ==
    /\ ~closed
    /\ current = NoJob
    /\ line /= <<>>
    /\ outcome' = [outcome EXCEPT ![Head(line)] =
                      IF @ = "pending" THEN "exception" ELSE @]
    /\ line' = Tail(line)
    /\ UNCHANGED <<current, closed>>

\* The result of a withdrawn call is dropped, never delivered late.
Finish ==
    /\ ~closed
    /\ current /= NoJob
    /\ \E o \in Produced :
          outcome' = [outcome EXCEPT ![current] = IF @ = "pending" THEN o ELSE @]
    /\ current' = NoJob
    /\ UNCHANGED <<line, closed>>

Close ==
    /\ ~closed
    /\ closed' = TRUE
    /\ UNCHANGED <<line, current, outcome>>

\* After Close the running call is given up as cancelled ...
Abort ==
    /\ closed
    /\ current /= NoJob
    /\ outcome' = [outcome EXCEPT ![current] = IF @ = "pending" THEN "cancelled" ELSE @]
    /\ current' = NoJob
    /\ UNCHANGED <<line, closed>>

\* ... and then every call still waiting, all together.
CancelRest ==
    /\ current = NoJob
    /\ closed' = TRUE
    /\ outcome' = [c \in Jobs |-> IF c \in Pending THEN "cancelled" ELSE outcome[c]]
    /\ line' = <<>>
    /\ UNCHANGED current

Next ==
    \/ \E c \in Jobs : Submit(c) \/ Withdraw(c)
    \/ Begin \/ Fail \/ Finish \/ Close \/ Abort \/ CancelRest

Spec == Init /\ [][Next]_vars
=============================================================================
