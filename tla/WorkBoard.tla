----------------------------- MODULE WorkBoard -----------------------------
(***************************************************************************)
(* What the issue queue of plan_docs promises, with GitHub, its labels and *)
(* the requests taken out: a board of entries from which workers take work *)
(* in hand, one piece at a time, and none of them takes the same entry     *)
(* twice.  Entries may get lost, and an entry may be taken by several      *)
(* workers: the code excludes neither.  IssueQueue.tla implements it.      *)
(***************************************************************************)
CONSTANTS Workers, Issues, NoIssue

VARIABLES entries,  \* issues on the board
          hand,     \* what each worker has in hand, or NoIssue
          taken     \* issues each worker took since they were last put up

vars == <<entries, hand, taken>>

Init ==
    /\ entries = {}
    /\ hand = [w \in Workers |-> NoIssue]
    /\ taken = [w \in Workers |-> {}]

\* An issue that is not on the board is put up (again).
Put(i) ==
    /\ i \notin entries
    /\ entries' = entries \cup {i}
    /\ taken' = [w \in Workers |-> taken[w] \ {i}]
    /\ UNCHANGED hand

Take(w, i) ==
    /\ hand[w] = NoIssue
    /\ i \notin taken[w]
    /\ entries' = entries \ {i}
    /\ hand' = [hand EXCEPT ![w] = i]
    /\ taken' = [taken EXCEPT ![w] = @ \cup {i}]

LayDown(w) ==
    /\ hand[w] /= NoIssue
    /\ hand' = [hand EXCEPT ![w] = NoIssue]
    /\ UNCHANGED <<entries, taken>>

\* The entry is gone and nobody has it.
Lose(i) ==
    /\ entries' = entries \ {i}
    /\ UNCHANGED <<hand, taken>>

Next ==
    \/ \E i \in Issues : Put(i) \/ Lose(i)
    \/ \E w \in Workers : LayDown(w) \/ \E i \in Issues : Take(w, i)

Spec == Init /\ [][Next]_vars
=============================================================================
