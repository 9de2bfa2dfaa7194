---------------------- MODULE ServiceLifecycleProofs ----------------------
(***************************************************************************)
(* More about Service, on top of the invariant of ServiceProofs and again  *)
(* for any number of deliveries, polls, issues and worktrees: the lock of  *)
(* a worktree forgets nobody, serves in order and is released, the poll    *)
(* task never overlaps itself, and a shutdown tells every caller of        *)
(* dispatch(), leaves nothing running behind it and completes.             *)
(*                                                                         *)
(* The inductive invariants are LocksServe, which ties the holder and the  *)
(* queue of each lock to where the requests stand, and LifespanKnows, what *)
(* each phase of the lifespan says of the dispatcher and of the requests.  *)
(*                                                                         *)
(* Weak fairness of an action A is stated as []<>~G \/ []<><<A>>_vars,     *)
(* with a guard G under which A can always be taken.                       *)
(***************************************************************************)
EXTENDS ServiceProofs

-----------------------------------------------------------------------------
(* The locks of the worktrees.                                             *)

\* Whoever holds the lock of w is there to release it, and its queue has those who await it
\* and nobody twice.
Serves(w) ==
    /\ holder[w] /= NoRequest => at[holder[w]] \in {"lock", "git"} /\ Path(holder[w]) = w
    /\ \A n \in DOMAIN waiting[w] :
          /\ at[waiting[w][n]] = "lock" /\ Path(waiting[w][n]) = w
          /\ waiting[w][n] /= holder[w]
          /\ \A m \in DOMAIN waiting[w] : waiting[w][m] = waiting[w][n] => m = n

\* Who awaits a lock has been handed it or stands in its queue.
InQueue(r) == \E n \in DOMAIN waiting[Path(r)] : waiting[Path(r)][n] = r
Remembered(r) == at[r] = "lock" => holder[Path(r)] = r \/ InQueue(r)

\* No lock stays with a request that is gone, and no request awaits a lock that nobody will
\* hand it: whichever requests fail, are cancelled in the queue or with the lock, or die.
LocksServe ==
    /\ \A w \in Worktrees : Serves(w)
    /\ \A r \in Requests : Remembered(r)

\* A request in the queue of w moves up or keeps its place, and gets the lock only from the
\* front, unless a shutdown or the end of the process takes it out.
InOrder(w) ==
    \A n \in DOMAIN waiting[w] :
        \/ n = 1 /\ holder'[w] = waiting[w][n]
        \/ \E m \in 1 .. n : m \in DOMAIN waiting'[w] /\ waiting'[w][m] = waiting[w][n]
        \/ at'[waiting[w][n]] \in {"cancelled", "lost"}

\* Nobody overtakes at a lock.
NobodyOvertakes == [][\A w \in Worktrees : InOrder(w)]_vars

LEMMA RemoveAtFacts ==
    ASSUME NEW S, NEW s \in Seq(S), NEW n \in 1 .. Len(s)
    PROVE  /\ DOMAIN RemoveAt(s, n) = 1 .. Len(s) - 1
           /\ \A m \in 1 .. Len(s) - 1 : RemoveAt(s, n)[m] = IF m < n THEN s[m] ELSE s[m + 1]
<1> DEFINE a == SubSeq(s, 1, n - 1)
           b == SubSeq(s, n + 1, Len(s))
<1>1. a \in Seq(S) /\ Len(a) = n - 1 /\ \A m \in 1 .. n - 1 : a[m] = s[m]
    OBVIOUS
<1>2. /\ b \in Seq(S) /\ Len(b) = Len(s) - n
      /\ \A m \in 1 .. Len(s) - n : b[m] = s[n + m]
    OBVIOUS
<1> DEFINE c == a \o b
<1>3. RemoveAt(s, n) = c
    BY DEF RemoveAt
<1> HIDE DEF a, b
<1>4. /\ DOMAIN c = 1 .. Len(s) - 1
      /\ \A m \in 1 .. n - 1 : c[m] = a[m]
      /\ \A m \in 1 .. Len(s) - n : c[m + (n - 1)] = b[m]
    BY <1>1, <1>2
<1> HIDE DEF c
<1>5. ASSUME NEW m \in 1 .. Len(s) - 1
      PROVE  c[m] = IF m < n THEN s[m] ELSE s[m + 1]
    <2>1. CASE m < n
        BY <1>1, <1>4, <2>1
    <2>2. CASE m >= n
        <3>1. m - (n - 1) \in 1 .. Len(s) - n
            BY <2>2
        <3>2. PICK j \in 1 .. Len(s) - n : j = m - (n - 1)
            BY <3>1
        <3>3. m = j + (n - 1) /\ n + j = m + 1 /\ ~(m < n)
            BY <2>2, <3>2
        <3>4. c[m] = b[j]
            BY <1>4, <3>3
        <3>5. b[j] = s[m + 1]
            BY <1>2, <3>3
        <3> QED BY <3>3, <3>4, <3>5
    <2> QED BY <2>1, <2>2
<1> QED BY <1>3, <1>4, <1>5

LEMMA TailFacts ==
    ASSUME NEW S, NEW s \in Seq(S), s /= <<>>
    PROVE  /\ Head(s) = s[1] /\ 1 \in DOMAIN s
           /\ DOMAIN Tail(s) = 1 .. Len(s) - 1
           /\ \A m \in 1 .. Len(s) - 1 : Tail(s)[m] = s[m + 1]
OBVIOUS

\* What a step of request r at worktree w does not touch.
Apart(r, w) ==
    /\ \A s \in Requests \ {r} : at'[s] = at[s]
    /\ \A s \in Requests : at[s] /= "none" => Path(s)' = Path(s)
    /\ \A v \in Worktrees \ {w} : holder'[v] = holder[v] /\ waiting'[v] = waiting[v]
    /\ at[r] \in {"lock", "git"} => Path(r) = w
    /\ at'[r] \in {"lock", "git"} => Path(r)' = w

LEMMA MembersTyped ==
    ASSUME TypeOK, NEW w \in Worktrees
    PROVE  /\ waiting[w] \in Seq(Requests) /\ DOMAIN waiting[w] = 1 .. Len(waiting[w])
           /\ Len(waiting[w]) \in Nat
           /\ \A n \in DOMAIN waiting[w] : waiting[w][n] \in Requests
           /\ holder[w] \in Requests \cup {NoRequest} /\ NoRequest \notin Requests
           /\ holder[w] = NoRequest => waiting[w] = <<>>
BY RequestAssumption DEF TypeOK, Requests

LEMMA Elsewhere ==
    ASSUME TypeOK, Fresh, LocksServe, NEW r \in Requests, NEW w \in Worktrees, Apart(r, w)
    PROVE  /\ \A v \in Worktrees \ {w} : Serves(v)' /\ InOrder(v)
           /\ \A s \in Requests \ {r} : at[s] = "lock" /\ Path(s) /= w => Remembered(s)'
           /\ \A s \in Requests \ {r} : at'[s] /= "lock" => Remembered(s)'
<1>1. ASSUME NEW v \in Worktrees \ {w} PROVE Serves(v)' /\ InOrder(v)
    <2>1. /\ holder'[v] = holder[v] /\ waiting'[v] = waiting[v]
          /\ Serves(v)
        BY DEF Apart, LocksServe
    <2>2. ASSUME NEW s \in Requests, at[s] \in {"lock", "git"}, Path(s) = v
          PROVE  at'[s] = at[s] /\ Path(s)' = v
        BY <2>2 DEF Apart
    <2>3. /\ \A n \in DOMAIN waiting[v] : waiting[v][n] \in Requests
          /\ DOMAIN waiting[v] \subseteq Nat \ {0}
          /\ holder[v] /= NoRequest => holder[v] \in Requests
        BY MembersTyped
    <2>4. Serves(v)'
        BY <2>1, <2>2, <2>3 DEF Serves
    <2> QED BY <2>1, <2>3, <2>4 DEF InOrder
<1>2. ASSUME NEW s \in Requests \ {r}, at[s] = "lock", Path(s) /= w PROVE Remembered(s)'
    <2>1. Remembered(s) /\ Path(s)' = Path(s)
        BY <1>2 DEF Apart, LocksServe
    <2>2. Path(s) \in Worktrees => holder'[Path(s)] = holder[Path(s)] /\ waiting'[Path(s)] = waiting[Path(s)]
        BY <1>2 DEF Apart
    <2>3. Path(s) \in Worktrees
        BY <1>2, PathTyped
    <2> QED BY <1>2, <2>1, <2>2, <2>3 DEF Remembered, InQueue
<1> QED BY <1>1, <1>2 DEF Remembered

\* What is left to show of such a step: that worktree, and the requests about it.
LEMMA LocalStep ==
    ASSUME TypeOK, Fresh, LocksServe, NEW r \in Requests, NEW w \in Worktrees, Apart(r, w),
           Serves(w)', InOrder(w), Remembered(r)',
           \A s \in Requests \ {r} : at[s] = "lock" /\ Path(s) = w => Remembered(s)'
    PROVE  LocksServe' /\ \A v \in Worktrees : InOrder(v)
<1>1. \A v \in Worktrees : Serves(v)' /\ InOrder(v)
    BY Elsewhere
<1>2. ASSUME NEW s \in Requests \ {r} PROVE Remembered(s)'
    <2>1. at'[s] = at[s]
        BY DEF Apart
    <2> QED BY <2>1, Elsewhere
<1> QED BY <1>1, <1>2 DEF LocksServe

\* The lock of w passes from r, which is done with it, to the first in the queue.
LEMMA ReleaseServes ==
    ASSUME TypeOK, Fresh, LocksServe, NEW r \in Requests, NEW w \in Worktrees, Apart(r, w),
           holder[w] = r, at'[r] \notin {"lock", "git"}, Release(w)
    PROVE  LocksServe' /\ \A v \in Worktrees : InOrder(v)
<1> DEFINE q == waiting[w]
<1>0. /\ q \in Seq(Requests) /\ DOMAIN q = 1 .. Len(q) /\ Len(q) \in Nat
      /\ \A n \in DOMAIN q : q[n] \in Requests
      /\ r /= NoRequest /\ NoRequest \notin Requests
      /\ Serves(w) /\ \A s \in Requests : Remembered(s)
    BY MembersTyped DEF LocksServe
<1>1. /\ \A s \in Requests \ {r} : at'[s] = at[s]
      /\ \A s \in Requests : at[s] /= "none" => Path(s)' = Path(s)
    BY DEF Apart
<1>2. Remembered(r)'
    BY DEF Remembered
<1>3. CASE q = <<>>
    <2>1. holder'[w] = NoRequest /\ waiting'[w] = <<>>
        BY <1>3 DEF Release, TypeOK
    <2>2. \A n \in DOMAIN q : FALSE
        BY <1>3
    <2>3. \A s \in Requests \ {r} : ~(at[s] = "lock" /\ Path(s) = w)
        BY <1>0, <2>2 DEF Remembered, InQueue
    <2>4. Serves(w)' /\ InOrder(w)
        BY <2>1, <2>2 DEF Serves, InOrder
    <2> QED BY <1>2, <2>3, <2>4, LocalStep
<1>4. CASE q /= <<>>
    <2>1. /\ Head(q) = q[1] /\ 1 \in DOMAIN q
          /\ DOMAIN Tail(q) = 1 .. Len(q) - 1
          /\ \A m \in 1 .. Len(q) - 1 : Tail(q)[m] = q[m + 1] /\ m + 1 \in DOMAIN q
        BY <1>0, <1>4, TailFacts
    <2>2. holder'[w] = q[1] /\ waiting'[w] = Tail(q)
        BY <1>4, <2>1 DEF Release, TypeOK
    <2>3. \A n \in DOMAIN q : /\ at'[q[n]] = "lock" /\ WorktreeOf[about'[q[n]]] = w
                              /\ \A m \in DOMAIN q : q[m] = q[n] => m = n
        BY <1>0, <1>1 DEF Serves, Path
    <2>4. Serves(w)'
        <3>1. at'[holder'[w]] = "lock" /\ Path(holder[w])' = w
            BY <2>1, <2>2, <2>3 DEF Path
        <3>2. ASSUME NEW n \in DOMAIN Tail(q)
              PROVE  /\ at'[Tail(q)[n]] = "lock" /\ WorktreeOf[about'[Tail(q)[n]]] = w
                     /\ Tail(q)[n] /= q[1]
                     /\ \A m \in DOMAIN Tail(q) : Tail(q)[m] = Tail(q)[n] => m = n
            <4>1. n \in 1 .. Len(q) - 1 /\ n + 1 \in DOMAIN q /\ n + 1 /= 1 /\ Tail(q)[n] = q[n + 1]
                BY <1>0, <2>1
            <4>2. ASSUME NEW m \in DOMAIN Tail(q), Tail(q)[m] = Tail(q)[n] PROVE m = n
                <5>1. m \in 1 .. Len(q) - 1 /\ m + 1 \in DOMAIN q /\ q[m + 1] = q[n + 1]
                    BY <2>1, <4>1, <4>2
                <5>2. m + 1 = n + 1
                    BY <2>3, <4>1, <5>1
                <5> QED BY <1>0, <4>1, <5>1, <5>2
            <4> QED BY <2>1, <2>3, <4>1, <4>2
        <3> QED BY <2>2, <3>1, <3>2 DEF Serves, Path
    <2>5. \A n \in DOMAIN q : n = 1 \/ (n - 1 \in 1 .. Len(q) - 1 /\ Tail(q)[n - 1] = q[n])
        <3> SUFFICES ASSUME NEW n \in DOMAIN q, n /= 1
                     PROVE  n - 1 \in 1 .. Len(q) - 1 /\ Tail(q)[n - 1] = q[n]
            OBVIOUS
        <3>1. n - 1 \in 1 .. Len(q) - 1 /\ (n - 1) + 1 = n
            BY <1>0
        <3> QED BY <2>1, <3>1
    <2>6. InOrder(w)
        <3> SUFFICES ASSUME NEW n \in DOMAIN q, n /= 1
                     PROVE  \E m \in 1 .. n : m \in DOMAIN waiting'[w] /\ waiting'[w][m] = q[n]
            BY <2>2 DEF InOrder
        <3>1. n - 1 \in 1 .. n /\ n - 1 \in DOMAIN Tail(q) /\ Tail(q)[n - 1] = q[n]
            BY <1>0, <2>1, <2>5
        <3> QED BY <2>2, <3>1
    <2>7. ASSUME NEW s \in Requests \ {r}, at[s] = "lock", Path(s) = w PROVE Remembered(s)'
        <3>1. PICK n \in DOMAIN q : q[n] = s
            BY <1>0, <2>7 DEF Remembered, InQueue
        <3>2. Path(s)' = w
            BY <1>1, <2>7
        <3>3. n = 1 \/ (n - 1 \in DOMAIN waiting'[w] /\ waiting'[w][n - 1] = s)
            BY <2>1, <2>2, <2>5, <3>1
        <3> QED BY <2>2, <3>1, <3>2, <3>3 DEF Remembered, InQueue
    <2> QED BY <1>2, <2>4, <2>6, <2>7, LocalStep
<1> QED BY <1>3, <1>4

\* Request r leaves the queue of w from the middle.
LEMMA WithdrawServes ==
    ASSUME TypeOK, Fresh, LocksServe, NEW r \in Requests, NEW w \in Worktrees, Apart(r, w),
           at'[r] \in {"cancelled", "lost"}, holder' = holder,
           NEW k \in DOMAIN waiting[w], waiting[w][k] = r,
           waiting' = [waiting EXCEPT ![w] = RemoveAt(@, k)]
    PROVE  LocksServe' /\ \A v \in Worktrees : InOrder(v)
<1> DEFINE q == waiting[w]
           t == RemoveAt(q, k)
<1>0. /\ q \in Seq(Requests) /\ DOMAIN q = 1 .. Len(q) /\ Len(q) \in Nat
      /\ \A n \in DOMAIN q : q[n] \in Requests
      /\ Serves(w) /\ \A s \in Requests : Remembered(s)
    BY MembersTyped DEF LocksServe
<1>1. /\ \A s \in Requests \ {r} : at'[s] = at[s]
      /\ \A s \in Requests : at[s] /= "none" => Path(s)' = Path(s)
    BY DEF Apart
<1>2. /\ DOMAIN t = 1 .. Len(q) - 1
      /\ \A m \in 1 .. Len(q) - 1 : t[m] = IF m < k THEN q[m] ELSE q[m + 1]
    BY <1>0, RemoveAtFacts
<1>3. waiting'[w] = t /\ holder'[w] = holder[w]
    BY DEF TypeOK
<1> HIDE DEF t
<1>4. /\ r /= holder[w] /\ at[r] = "lock" /\ Path(r) = w
      /\ \A n \in DOMAIN q : q[n] = r => n = k
    BY <1>0 DEF Serves
<1>5. \A m \in DOMAIN t :
          \E n \in DOMAIN q : n = (IF m < k THEN m ELSE m + 1) /\ n /= k /\ t[m] = q[n]
    BY <1>0, <1>2
<1>6. \A n \in DOMAIN q : n = k \/ \E m \in DOMAIN t : m <= n /\ t[m] = q[n]
    <2> SUFFICES ASSUME NEW n \in DOMAIN q, n /= k PROVE \E m \in DOMAIN t : m <= n /\ t[m] = q[n]
        OBVIOUS
    <2>1. CASE n < k
        <3>1. n \in DOMAIN t /\ t[n] = q[n]
            BY <1>0, <1>2, <2>1
        <3> QED BY <1>0, <3>1
    <2>2. CASE n > k
        <3>1. n - 1 \in 1 .. Len(q) - 1 /\ ~(n - 1 < k) /\ (n - 1) + 1 = n /\ n - 1 <= n
            BY <1>0, <2>2
        <3> QED BY <1>2, <3>1
    <2> QED BY <1>0, <2>1, <2>2
<1>7. Serves(w)'
    <2>1. holder'[w] /= NoRequest => at'[holder'[w]] \in {"lock", "git"} /\ Path(holder[w])' = w
        BY <1>0, <1>1, <1>3, <1>4, MembersTyped DEF Serves, Path
    <2>2. ASSUME NEW m \in DOMAIN t
          PROVE  /\ at'[t[m]] = "lock" /\ WorktreeOf[about'[t[m]]] = w /\ t[m] /= holder[w]
                 /\ \A j \in DOMAIN t : t[j] = t[m] => j = m
        <3>1. PICK n \in DOMAIN q : n = (IF m < k THEN m ELSE m + 1) /\ n /= k /\ t[m] = q[n]
            BY <1>5
        <3>2. /\ q[n] /= r /\ at[q[n]] = "lock" /\ Path(q[n]) = w /\ q[n] /= holder[w]
              /\ \A j \in DOMAIN q : q[j] = q[n] => j = n
            BY <1>0, <1>4, <3>1 DEF Serves
        <3>3. ASSUME NEW j \in DOMAIN t, t[j] = t[m] PROVE j = m
            <4>1. PICK i \in DOMAIN q : i = (IF j < k THEN j ELSE j + 1) /\ i /= k /\ t[j] = q[i]
                BY <1>5
            <4>2. i = n
                BY <3>1, <3>2, <3>3, <4>1
            <4> QED BY <1>0, <1>2, <3>1, <4>1, <4>2
        <3>4. at'[q[n]] = "lock" /\ WorktreeOf[about'[q[n]]] = w
            BY <1>0, <1>1, <3>2 DEF Path
        <3> QED BY <3>1, <3>2, <3>3, <3>4
    <2> QED BY <1>3, <2>1, <2>2 DEF Serves, Path
<1>8. InOrder(w)
    <2> SUFFICES ASSUME NEW n \in DOMAIN q, n /= k
                 PROVE  \E m \in 1 .. n : m \in DOMAIN waiting'[w] /\ waiting'[w][m] = q[n]
        BY DEF InOrder
    <2>1. PICK m \in DOMAIN t : m <= n /\ t[m] = q[n]
        BY <1>6
    <2>2. m \in 1 .. n
        BY <1>0, <1>2, <2>1
    <2> QED BY <1>3, <2>1, <2>2
<1>9. ASSUME NEW s \in Requests \ {r}, at[s] = "lock", Path(s) = w PROVE Remembered(s)'
    <2>1. Path(s)' = w /\ (holder[w] = s \/ \E n \in DOMAIN q : q[n] = s)
        BY <1>0, <1>1, <1>9 DEF Remembered, InQueue
    <2>2. holder'[w] = s \/ \E m \in DOMAIN t : t[m] = s
        BY <1>3, <1>6, <2>1
    <2> QED BY <1>3, <2>1, <2>2 DEF Remembered, InQueue
<1>10. Remembered(r)'
    BY DEF Remembered
<1> QED BY <1>7, <1>8, <1>9, <1>10, LocalStep

\* Request r joins at w: it takes the free lock, or goes to the end of the queue.
LEMMA TakeServes ==
    ASSUME TypeOK, Fresh, LocksServe, NEW r \in Requests, NEW w \in Worktrees, Apart(r, w),
           holder[w] = NoRequest, holder'[w] = r, waiting' = waiting, at'[r] = "git"
    PROVE  LocksServe' /\ \A v \in Worktrees : InOrder(v)
<1>1. waiting[w] = <<>> /\ \A n \in DOMAIN waiting[w] : FALSE
    BY MembersTyped
<1>2. Serves(w)' /\ InOrder(w) /\ Remembered(r)'
    BY <1>1 DEF Serves, InOrder, Remembered, Apart
<1>3. ASSUME NEW s \in Requests \ {r}, at[s] = "lock", Path(s) = w PROVE FALSE
    <2>1. Remembered(s) /\ s /= NoRequest
        BY RequestAssumption DEF LocksServe, Requests
    <2> QED BY <1>1, <1>3, <2>1 DEF Remembered, InQueue
<1> QED BY <1>2, <1>3, LocalStep

LEMMA JoinServes ==
    ASSUME TypeOK, Fresh, LocksServe, NEW r \in Requests, NEW w \in Worktrees, Apart(r, w),
           holder[w] /= NoRequest, holder' = holder, at[r] = "none", at'[r] = "lock",
           waiting' = [waiting EXCEPT ![w] = Append(@, r)]
    PROVE  LocksServe' /\ \A v \in Worktrees : InOrder(v)
<1> DEFINE q == waiting[w]
           t == Append(q, r)
<1>0. /\ q \in Seq(Requests) /\ DOMAIN q = 1 .. Len(q) /\ Len(q) \in Nat
      /\ \A n \in DOMAIN q : q[n] \in Requests
      /\ holder[w] \in Requests
      /\ Serves(w) /\ \A s \in Requests : Remembered(s)
    BY MembersTyped DEF LocksServe
<1>1. waiting'[w] = t /\ holder'[w] = holder[w] /\ Path(r)' = w
    BY DEF TypeOK, Apart
<1>2. /\ DOMAIN t = 1 .. Len(q) + 1 /\ t[Len(q) + 1] = r
      /\ \A n \in DOMAIN q : t[n] = q[n] /\ n \in DOMAIN t
    BY <1>0
<1> HIDE DEF t
<1>3. /\ \A s \in Requests \ {r} : at[s] /= "none" => at'[s] = at[s] /\ WorktreeOf[about'[s]] = Path(s)
      /\ WorktreeOf[about'[r]] = w
    BY <1>1 DEF Apart, Path
<1>4. \A n \in DOMAIN q : q[n] /= r
    BY <1>0 DEF Serves
<1>5. Serves(w)'
    <2>1. at'[holder[w]] \in {"lock", "git"} /\ WorktreeOf[about'[holder[w]]] = w /\ holder[w] /= r
        BY <1>0, <1>3 DEF Serves
    <2>2. ASSUME NEW n \in DOMAIN t
          PROVE  /\ at'[t[n]] = "lock" /\ WorktreeOf[about'[t[n]]] = w /\ t[n] /= holder[w]
                 /\ \A m \in DOMAIN t : t[m] = t[n] => m = n
        <3>1. \A m \in DOMAIN t : m \in DOMAIN q \/ m = Len(q) + 1
            BY <1>0, <1>2
        <3>2. CASE n \in DOMAIN q
            BY <1>0, <1>2, <1>3, <1>4, <3>1, <3>2 DEF Serves
        <3>3. CASE n = Len(q) + 1
            BY <1>2, <1>3, <1>4, <2>1, <3>1, <3>3
        <3> QED BY <3>1, <3>2, <3>3
    <2> QED BY <1>1, <2>1, <2>2 DEF Serves, Path
<1>6. InOrder(w)
    BY <1>0, <1>1, <1>2 DEF InOrder
<1>7. ASSUME NEW s \in Requests \ {r}, at[s] = "lock", Path(s) = w PROVE Remembered(s)'
    <2>1. Path(s)' = w /\ (holder[w] = s \/ \E n \in DOMAIN q : q[n] = s)
        BY <1>0, <1>7 DEF Remembered, InQueue, Apart
    <2>2. holder[w] = s \/ \E n \in DOMAIN t : t[n] = s
        BY <1>2, <2>1
    <2> QED BY <1>1, <2>1, <2>2 DEF Remembered, InQueue
<1>8. Remembered(r)'
    <2>1. Len(q) + 1 \in DOMAIN t
        BY <1>0, <1>2
    <2> QED BY <1>1, <1>2, <2>1 DEF Remembered, InQueue
<1> QED BY <1>5, <1>6, <1>7, <1>8, LocalStep

\* A step that leaves the locks alone, and every request that is at one but for starting git
\* with the lock it has.
LEMMA QuietServes ==
    ASSUME TypeOK, Fresh, LocksServe, UNCHANGED lockVars,
           \A s \in Requests : at[s] /= "none" => Path(s)' = Path(s),
           \A s \in Requests : \/ at'[s] = at[s]
                               \/ at[s] \notin {"lock", "git"} /\ at'[s] /= "lock"
                               \/ at[s] = "lock" /\ holder[Path(s)] = s /\ at'[s] = "git"
    PROVE  LocksServe' /\ \A v \in Worktrees : InOrder(v)
<1>1. ASSUME NEW v \in Worktrees PROVE Serves(v)' /\ InOrder(v)
    <2>1. /\ holder'[v] = holder[v] /\ waiting'[v] = waiting[v] /\ Serves(v)
          /\ DOMAIN waiting[v] = 1 .. Len(waiting[v]) /\ Len(waiting[v]) \in Nat
          /\ \A n \in DOMAIN waiting[v] : waiting[v][n] \in Requests
          /\ holder[v] /= NoRequest => holder[v] \in Requests
        BY MembersTyped DEF LocksServe, lockVars
    <2>2. ASSUME holder[v] /= NoRequest
          PROVE  at'[holder[v]] \in {"lock", "git"} /\ WorktreeOf[about'[holder[v]]] = v
        BY <2>1, <2>2 DEF Serves, Path
    <2>3. ASSUME NEW n \in DOMAIN waiting[v]
          PROVE  at'[waiting[v][n]] = "lock" /\ WorktreeOf[about'[waiting[v][n]]] = v
        BY <2>1, <2>3 DEF Serves, Path
    <2>4. Serves(v)'
        BY <2>1, <2>2, <2>3 DEF Serves, Path
    <2> QED BY <2>1, <2>4 DEF InOrder
<1>2. ASSUME NEW s \in Requests, at'[s] = "lock" PROVE Remembered(s)'
    <2>1. at[s] = "lock" /\ Path(s)' = Path(s) /\ Remembered(s)
        BY <1>2 DEF LocksServe
    <2> QED BY <2>1 DEF Remembered, InQueue, lockVars
<1> QED BY <1>1, <1>2 DEF LocksServe, Remembered

LEMMA LocksStep ==
    ASSUME IInv, LocksServe, [Next]_vars
    PROVE  LocksServe' /\ \A v \in Worktrees : InOrder(v)
<1>0. TypeOK /\ Fresh /\ Locked
    BY DEF IInv
<1>p. /\ \A s \in Requests : at[s] /= "none" => Path(s)' = Path(s)
      /\ \A s \in Requests : at[s] /= "none" => Path(s) \in Worktrees
    BY <1>0, PathKept, PathTyped
<1>1. ASSUME NEW r \in Requests, NEW i \in Issues, Enters(r, i)
      PROVE  LocksServe' /\ \A v \in Worktrees : InOrder(v)
    <2> DEFINE w == WorktreeOf[i]
    <2>1. w \in Worktrees /\ at[r] = "none" /\ Path(r)' = w
        BY <1>0, <1>1, EntersCases DEF Enters, Path, TypeOK
    <2>2. CASE Takes(r, w)
        <3>1. /\ at' = [at EXCEPT ![r] = "git"] /\ holder[w] = NoRequest /\ waiting' = waiting
              /\ holder' = [holder EXCEPT ![w] = r]
            BY <2>2 DEF Takes, StartGit
        <3>2. Apart(r, w) /\ holder'[w] = r /\ at'[r] = "git"
            BY <1>0, <1>p, <2>1, <3>1 DEF Apart, TypeOK
        <3> QED BY <1>0, <2>1, <3>1, <3>2, TakeServes
    <2>3. CASE Waits(r, w)
        <3>1. /\ at' = [at EXCEPT ![r] = "lock"] /\ holder[w] /= NoRequest /\ holder' = holder
              /\ waiting' = [waiting EXCEPT ![w] = Append(@, r)]
            BY <2>3 DEF Waits
        <3>2. Apart(r, w) /\ at'[r] = "lock"
            BY <1>0, <1>p, <2>1, <3>1 DEF Apart, TypeOK
        <3> QED BY <1>0, <2>1, <3>1, <3>2, JoinServes
    <2> QED BY <1>1, <2>2, <2>3, EntersCases
<1>2. ASSUME NEW r \in Requests, Acquire(r)
      PROVE  LocksServe' /\ \A v \in Worktrees : InOrder(v)
    <2>1. /\ at[r] = "lock" /\ holder[Path(r)] = r /\ UNCHANGED lockVars
          /\ at' = [at EXCEPT ![r] = "git"]
        BY <1>2 DEF Acquire, StartGit
    <2> QED BY <1>0, <1>p, <2>1, QuietServes DEF TypeOK
<1>3. ASSUME NEW r \in Requests, Pulls(r)
      PROVE  LocksServe' /\ \A v \in Worktrees : InOrder(v)
    <2>1. UNCHANGED lockVars /\ at' = at
        BY <1>3 DEF Pulls
    <2> QED BY <1>0, <1>p, <2>1, QuietServes
<1>4. ASSUME NEW r \in Requests, NEW ok \in BOOLEAN, Leaves(r, ok)
      PROVE  LocksServe' /\ \A v \in Worktrees : InOrder(v)
    <2>1. /\ at[r] = "git" /\ holder[Path(r)] = r /\ Path(r) \in Worktrees
        BY <1>0, <1>4, <1>p DEF Leaves, Locked
    <2>2. /\ Release(Path(r))
          /\ \E x \in {"failed", "refused", "dispatch"} : at' = [at EXCEPT ![r] = x]
        BY <1>0, <1>4, LeavesFacts
    <2>3. Apart(r, Path(r)) /\ at'[r] \notin {"lock", "git"}
        BY <1>0, <1>p, <2>1, <2>2 DEF Apart, Release, TypeOK
    <2> QED BY <1>0, <2>1, <2>2, <2>3, ReleaseServes
<1>5. ASSUME NEW r \in Requests, OrphanExits(r)
      PROVE  LocksServe' /\ \A v \in Worktrees : InOrder(v)
    BY <1>0, <1>p, <1>5, QuietServes DEF OrphanExits
<1>6. ASSUME NEW r \in Requests, Answered(r)
      PROVE  LocksServe' /\ \A v \in Worktrees : InOrder(v)
    <2>1. \E x \in {"failed", "cancelled", "done"} : at' = [at EXCEPT ![r] = x]
        BY <1>6, Zenon DEF Answered
    <2>2. at[r] = "dispatch" /\ UNCHANGED lockVars
        BY <1>6 DEF Answered
    <2> QED BY <1>0, <1>p, <2>1, <2>2, QuietServes DEF TypeOK
<1>7. CASE DispatcherStep \/ Start \/ LifespanStep
    BY <1>0, <1>p, <1>7, AsideCases, QuietServes DEF Aside
<1>8. CASE Shutdown
    <2>1. ASSUME NEW r \in Requests, Active(r), Cancel(r)
          PROVE  LocksServe' /\ \A v \in Worktrees : InOrder(v)
        <3>1. at' = [at EXCEPT ![r] = "cancelled"]
            BY <2>1 DEF Cancel
        <3>2. CASE at[r] = "dispatch"
            <4>1. UNCHANGED lockVars
                BY <2>1, <3>2 DEF Cancel
            <4> QED BY <1>0, <1>p, <3>1, <3>2, <4>1, QuietServes DEF TypeOK
        <3>3. CASE at[r] /= "dispatch" /\ holder[Path(r)] = r
            <4>1. Release(Path(r)) /\ Path(r) \in Worktrees
                BY <1>p, <2>1, <3>3 DEF Cancel, Active
            <4>2. Apart(r, Path(r)) /\ at'[r] = "cancelled"
                BY <1>0, <1>p, <3>1, <4>1 DEF Apart, Release, TypeOK
            <4> QED BY <1>0, <3>3, <4>1, <4>2, ReleaseServes
        <3>4. CASE at[r] /= "dispatch" /\ holder[Path(r)] /= r
            <4>1. /\ holder' = holder /\ Path(r) \in Worktrees
                  /\ \E n \in DOMAIN waiting[Path(r)] :
                        /\ waiting[Path(r)][n] = r
                        /\ waiting' = [waiting EXCEPT ![Path(r)] = RemoveAt(@, n)]
                BY <1>p, <2>1, <3>4 DEF Cancel, Active
            <4>2. PICK n \in DOMAIN waiting[Path(r)] :
                     /\ waiting[Path(r)][n] = r
                     /\ waiting' = [waiting EXCEPT ![Path(r)] = RemoveAt(@, n)]
                BY <4>1
            <4>3. Apart(r, Path(r)) /\ at'[r] = "cancelled"
                BY <1>0, <1>p, <3>1, <4>1, <4>2 DEF Apart, TypeOK
            <4> QED BY <1>0, <4>1, <4>2, <4>3, WithdrawServes
        <3> QED BY <3>2, <3>3, <3>4
    <2>2. CASE UNCHANGED <<at, lockVars, diskVars, dispatchVars>>
        BY <1>0, <1>p, <2>2, QuietServes
    <2> QED BY <1>8, <2>1, <2>2, ShutdownCases DEF Requests
<1>9. CASE ProcessEnds
    <2>1. /\ \A w \in Worktrees : holder'[w] = NoRequest /\ waiting'[w] = <<>>
          /\ \A r \in Requests : at'[r] = IF Active(r) THEN "lost" ELSE at[r]
        BY <1>9 DEF ProcessEnds
    <2>2. \A w \in Worktrees : \A n \in DOMAIN waiting'[w] : FALSE
        BY <2>1
    <2>3. LocksServe'
        BY <2>1, <2>2 DEF LocksServe, Serves, Remembered, Active
    <2>4. ASSUME NEW w \in Worktrees, NEW n \in DOMAIN waiting[w]
          PROVE  at'[waiting[w][n]] = "lost"
        BY <1>0, <2>1, <2>4, MembersTyped DEF LocksServe, Serves, Active
    <2> QED BY <2>3, <2>4 DEF InOrder
<1>10. CASE UNCHANGED vars
    BY <1>0, <1>p, <1>10, QuietServes DEF vars
<1> QED BY <1>1, <1>2, <1>3, <1>4, <1>5, <1>6, <1>7, <1>8, <1>9, <1>10, NextCases

\* asyncio.Lock under cancellation and failures: the lock of a worktree is held by a request
\* that will release it, and a request that awaits one holds it or is in its queue, once.
THEOREM LocksAlwaysServe == Spec => []LocksServe
<1>1. Init => LocksServe
    <2> SUFFICES ASSUME Init PROVE LocksServe
        OBVIOUS
    <2>1. \A w \in Worktrees : \A n \in DOMAIN waiting[w] : FALSE
        BY DEF Init
    <2> QED BY <2>1 DEF Init, LocksServe, Serves, Remembered
<1> QED BY <1>1, LocksStep, Invariance, PTL DEF Spec

\* asyncio.Lock is fair, also when waiters are cancelled in the middle of its queue.
THEOREM LocksAreFifo == Spec => NobodyOvertakes
<1>1. IInv /\ LocksServe /\ [Next]_vars => [\A w \in Worktrees : InOrder(w)]_vars
    BY LocksStep
<1> QED BY <1>1, LocksAlwaysServe, Invariance, PTL DEF Spec, NobodyOvertakes

-----------------------------------------------------------------------------
(* Whoever has a lock lets go of it.                                       *)

\* What can always be done: a request that was handed the lock goes on with git, and a git
\* command that has been started returns.
LockTurn(r) == at[r] = "lock" /\ holder[Path(r)] = r

\* Weak fairness of the event loop and of git, as FairSpec and GitIsFair have it, with those
\* guards for their ENABLED.
TurnsTaken(r) == []<>~LockTurn(r) \/ []<><<Acquire(r)>>_vars
GitEnds(r)    == []<>(at[r] /= "git") \/ []<><<GitReturns(r)>>_vars

\* If git returns, no request keeps a worktree's lock, whatever happens to it; with
\* NobodyOvertakes this is what RequestsEnd rests on for the requests in the queues.
HoldersLetGo == \A w \in Worktrees, r \in Requests : holder[w] = r ~> holder[w] /= r

\* How many steps the holder r of a lock has before it: to start git, fetch, and pull or clone.
HoldLeft(r) == IF at[r] = "lock" THEN 3 ELSE IF git[r] = "fetch" THEN 2 ELSE 1

LEMMA HolderStep ==
    ASSUME IInv, IInv', LocksServe, LocksServe', [Next]_vars,
           NEW w \in Worktrees, NEW r \in Requests, holder[w] = r, holder'[w] = r
    PROVE  /\ at[r] \in {"lock", "git"} /\ at'[r] \in {"lock", "git"} /\ Path(r) = w /\ Path(r)' = w
           /\ HoldLeft(r)' <= HoldLeft(r)
           /\ Acquire(r) \/ GitReturns(r) => HoldLeft(r)' < HoldLeft(r)
           /\ at[r] = "git" => at'[r] = "git"
<1>0. TypeOK /\ TypeOK' /\ r /= NoRequest
    BY RequestAssumption DEF IInv, Requests
<1>1. at[r] \in {"lock", "git"} /\ at'[r] \in {"lock", "git"} /\ Path(r) = w
    BY <1>0 DEF LocksServe, Serves
<1>2. Path(r)' = w
    BY <1>1, PathKept
<1>3. ASSUME NEW s \in Requests, NEW i \in Issues, Enters(s, i)
      PROVE  at'[r] = at[r] /\ git'[r] = git[r]
    <2>1. s /= r
        BY <1>1, <1>3 DEF Enters
    <2>2. CASE Takes(s, WorktreeOf[i])
        BY <1>0, <2>1, <2>2 DEF Takes, StartGit, TypeOK
    <2>3. CASE Waits(s, WorktreeOf[i])
        BY <1>0, <2>1, <2>3 DEF Waits, diskVars, TypeOK
    <2> QED BY <1>3, <2>2, <2>3, EntersCases
<1>4. ASSUME NEW s \in Requests, Acquire(s)
      PROVE  IF s = r THEN at[r] = "lock" /\ at'[r] = "git" ELSE at'[r] = at[r] /\ git'[r] = git[r]
    BY <1>0, <1>4 DEF Acquire, StartGit, TypeOK
<1>5. ASSUME NEW s \in Requests, Pulls(s)
      PROVE  IF s = r THEN at[r] = "git" /\ at'[r] = "git" /\ git[r] = "fetch" /\ git'[r] = "pull"
                      ELSE at'[r] = at[r] /\ git'[r] = git[r]
    BY <1>0, <1>5 DEF Pulls, TypeOK
<1>6. ASSUME NEW s \in Requests, NEW ok \in BOOLEAN, Leaves(s, ok)
      PROVE  s /= r /\ at'[r] = at[r] /\ git'[r] = git[r]
    <2>1. \E x \in {"failed", "refused", "dispatch"} : at' = [at EXCEPT ![s] = x]
        BY <1>6, LeavesFacts DEF IInv
    <2>2. git' = [git EXCEPT ![s] = "none"]
        BY <1>6 DEF Leaves, OnDisk
    <2> QED BY <1>0, <1>1, <2>1, <2>2 DEF TypeOK
<1>7. ASSUME NEW s \in Requests, OrphanExits(s)
      PROVE  at'[r] = at[r] /\ (at[r] = "git" => git'[r] = git[r])
    BY <1>0, <1>7 DEF OrphanExits, OnDisk, TypeOK
<1>8. ASSUME NEW s \in Requests, Answered(s)
      PROVE  at'[r] = at[r] /\ git'[r] = git[r]
    <2>1. at[s] = "dispatch" /\ s /= r
        BY <1>1, <1>8 DEF Answered
    <2>2. \E x \in {"failed", "cancelled", "done"} : at' = [at EXCEPT ![s] = x]
        BY <1>8, Zenon DEF Answered
    <2> QED BY <1>0, <1>8, <2>1, <2>2 DEF Answered, diskVars, TypeOK
<1>9. ASSUME DispatcherStep \/ Start \/ LifespanStep
      PROVE  at'[r] = at[r] /\ git'[r] = git[r]
    BY <1>9, AsideCases DEF Aside, diskVars
<1>10. ASSUME Shutdown PROVE at'[r] = at[r] /\ git'[r] = git[r]
    <2>1. ASSUME NEW p \in Polls, Cancel(p) PROVE at'[r] = at[r] /\ git'[r] = git[r]
        BY <1>0, <1>1, <2>1 DEF Cancel, TypeOK, Requests
    <2> QED BY <1>10, <2>1, ShutdownCases DEF diskVars
<1>11. ~ProcessEnds
    BY <1>0 DEF ProcessEnds
<1>12. ASSUME UNCHANGED vars PROVE at'[r] = at[r] /\ git'[r] = git[r]
    BY <1>12 DEF vars, diskVars
<1>13. \/ at'[r] = at[r] /\ (at[r] = "git" => git'[r] = git[r])
       \/ at[r] = "lock" /\ at'[r] = "git"
       \/ at[r] = "git" /\ at'[r] = "git" /\ git[r] = "fetch" /\ git'[r] = "pull"
    BY <1>3, <1>4, <1>5, <1>6, <1>7, <1>8, <1>9, <1>10, <1>11, <1>12, NextCases
<1>14. Acquire(r) \/ GitReturns(r) => HoldLeft(r)' < HoldLeft(r)
    <2>1. CASE Acquire(r)
        BY <1>4, <2>1 DEF HoldLeft
    <2>2. CASE GitReturns(r)
        BY <1>5, <1>6, <2>2, ReturnCases DEF HoldLeft
    <2> QED BY <2>1, <2>2
<1> QED BY <1>1, <1>2, <1>13, <1>14 DEF HoldLeft

Holds(w, r, n) == holder[w] = r /\ HoldLeft(r) <= n
Free(w, r) == holder[w] /= r

\* With at most n steps before it the holder keeps to that, or lets go; its turn lasts until
\* it has at most m; and taking it leaves at most m.
HoldRung(w, r, n, m) ==
    /\ Holds(w, r, n) => Holds(w, r, n)' \/ Free(w, r)'
    /\ Holds(w, r, n) /\ LockTurn(r) =>
          (Holds(w, r, n)' /\ LockTurn(r)') \/ Holds(w, r, m)' \/ Free(w, r)'
    /\ Holds(w, r, n) /\ at[r] = "git" =>
          (Holds(w, r, n)' /\ (at[r] = "git")') \/ Free(w, r)'
    /\ Holds(w, r, n) /\ <<Acquire(r)>>_vars => Holds(w, r, m)' \/ Free(w, r)'
    /\ Holds(w, r, n) /\ <<GitReturns(r)>>_vars => Holds(w, r, m)' \/ Free(w, r)'

LEMMA HoldRungHolds ==
    ASSUME IInv, IInv', LocksServe, LocksServe', [Next]_vars,
           NEW w \in Worktrees, NEW r \in Requests, NEW n \in 1 .. 3
    PROVE  HoldRung(w, r, n, n - 1)
<1> SUFFICES ASSUME holder[w] = r, HoldLeft(r) <= n, holder'[w] = r
             PROVE  HoldRung(w, r, n, n - 1)
    BY DEF HoldRung, Holds, Free
<1>1. /\ at[r] \in {"lock", "git"} /\ at'[r] \in {"lock", "git"} /\ Path(r) = w /\ Path(r)' = w
      /\ HoldLeft(r)' <= HoldLeft(r)
      /\ Acquire(r) \/ GitReturns(r) => HoldLeft(r)' < HoldLeft(r)
      /\ at[r] = "git" => at'[r] = "git"
    BY HolderStep
<1>2. HoldLeft(r) \in 1 .. 3 /\ HoldLeft(r)' \in 1 .. 3
    BY DEF HoldLeft
<1>3. Holds(w, r, n)'
    BY <1>1, <1>2 DEF Holds
<1>4. Acquire(r) \/ GitReturns(r) => Holds(w, r, n - 1)'
    BY <1>1, <1>2 DEF Holds
<1>5. LockTurn(r) => LockTurn(r)' \/ Holds(w, r, n - 1)'
    <2> SUFFICES ASSUME LockTurn(r), at'[r] = "git" PROVE Holds(w, r, n - 1)'
        BY <1>1 DEF LockTurn
    <2>1. n = 3 /\ HoldLeft(r)' <= 2
        BY DEF LockTurn, HoldLeft
    <2> QED BY <2>1 DEF Holds
<1> QED BY <1>1, <1>3, <1>4, <1>5 DEF HoldRung

LEMMA HolderLetsGo ==
    ASSUME NEW w \in Worktrees, NEW r \in Requests
    PROVE  Spec /\ TurnsTaken(r) /\ GitEnds(r) => (holder[w] = r ~> holder[w] /= r)
<1>1. IInv /\ IInv' /\ LocksServe /\ LocksServe' /\ [Next]_vars =>
         HoldRung(w, r, 1, 0) /\ HoldRung(w, r, 2, 1) /\ HoldRung(w, r, 3, 2)
    <2>1. ASSUME IInv, IInv', LocksServe, LocksServe', [Next]_vars, NEW n \in 1 .. 3
          PROVE  HoldRung(w, r, n, n - 1)
        BY <2>1, HoldRungHolds
    <2> QED BY <2>1
<1>2. holder[w] = r => Holds(w, r, 3)
    BY DEF Holds, HoldLeft
<1>3. ~Holds(w, r, 0)
    BY DEF Holds, HoldLeft
<1>4. IInv /\ LocksServe /\ Holds(w, r, 3) => LockTurn(r) \/ at[r] = "git"
    BY RequestAssumption DEF Holds, LocksServe, Serves, LockTurn, Requests
<1>5. at[r] /= "git" <=> ~(at[r] = "git")
    OBVIOUS
<1>6. Holds(w, r, 1) \/ Holds(w, r, 2) => Holds(w, r, 3)
    BY DEF Holds, HoldLeft
<1>7. Free(w, r) <=> holder[w] /= r
    BY DEF Free
<1> QED BY <1>1, <1>2, <1>3, <1>4, <1>5, <1>6, <1>7, Invariance, LocksAlwaysServe, PTL
        DEF Spec, TurnsTaken, GitEnds, HoldRung

\* The lock of a worktree is always released (`async with` in ensure_ready), for any number of
\* requests that fail or are cancelled, if those handed the lock get on and git returns.
THEOREM LocksAreReleased ==
    Spec /\ (\A r \in Requests : TurnsTaken(r)) /\ (\A r \in Requests : GitEnds(r))
        => HoldersLetGo
<1>1. ASSUME NEW w \in Worktrees, NEW r \in Requests
      PROVE  Spec /\ TurnsTaken(r) /\ GitEnds(r) => (holder[w] = r ~> holder[w] /= r)
    BY HolderLetsGo
<1> QED BY <1>1 DEF HoldersLetGo

-----------------------------------------------------------------------------
(* The lifespan.                                                           *)

\* The dispatcher is closed from stop() to the end of the process, and only then.
ClosedInTime == closed <=> phase \in {"closing", "drained", "off"}

\* Once stop() has returned to the lifespan no call is pending, running or queued, and none
\* is made: also not by the background tasks of deliveries, which nobody stops.
NothingAfterDrain ==
    phase \in {"drained", "off"} =>
        /\ closed /\ current = NoRequest /\ line = <<>>
        /\ \A r \in Requests : outcome[r] /= "pending"

\* And when the lifespan is over every caller has been told.
NoneAtDispatch == \A r \in Requests : at[r] /= "dispatch"
CallersToldAtEnd == phase = "off" => NoneAtDispatch

\* The poll task is at one request at a time, and at none once it has been stopped.
PollsAlone ==
    /\ \A p, q \in Polls : Active(p) /\ Active(q) => p = q
    /\ phase = "stopping" => \A p \in Polls : ~Active(p)

LifespanKnows == ClosedInTime /\ NothingAfterDrain /\ CallersToldAtEnd /\ PollsAlone

\* A step that takes in no request, tells at most one what became of it, and keeps the phase
\* and, once it is closed, the dispatcher.
Plain ==
    /\ phase' = phase /\ closed' = closed
    /\ closed => UNCHANGED dispatchVars
    /\ \A s \in Requests :
          \/ at'[s] = at[s]
          \/ at'[s] \notin {"lock", "git", "dispatch"}
          \/ at[s] \in {"lock", "git"} /\ (at'[s] = "dispatch" => ~closed)

LEMMA PlainKnows ==
    ASSUME LifespanKnows, Plain PROVE LifespanKnows'
<1>1. \A s \in Requests : /\ (at'[s] = "dispatch" => at[s] = "dispatch" \/ ~closed)
                          /\ Active(s)' => Active(s)
    BY DEF Plain, Active
<1>2. Polls \subseteq Requests
    BY DEF Requests
<1>3. PollsAlone'
    BY <1>1, <1>2 DEF LifespanKnows, PollsAlone, Plain
<1>4. ClosedInTime' /\ NothingAfterDrain'
    BY DEF LifespanKnows, ClosedInTime, NothingAfterDrain, Plain, dispatchVars
<1>5. CallersToldAtEnd'
    BY <1>1 DEF LifespanKnows, ClosedInTime, CallersToldAtEnd, NoneAtDispatch, Plain
<1> QED BY <1>3, <1>4, <1>5 DEF LifespanKnows

LEMMA KnowsStep == IInv /\ LifespanKnows /\ [Next]_vars => LifespanKnows'
<1> SUFFICES ASSUME IInv, LifespanKnows, [Next]_vars PROVE LifespanKnows'
    OBVIOUS
<1>0. TypeOK /\ Fresh /\ Polls \subseteq Requests
    BY DEF IInv, Requests
<1>1. ASSUME NEW r \in Requests, NEW i \in Issues, phase = "up", at[r] = "none", Enter(r, i),
             UNCHANGED <<phase, dispatchVars>>, r \in Polls => \A q \in Polls : ~Active(q)
      PROVE  LifespanKnows'
    <2>1. Enters(r, i)
        BY <1>1 DEF Enters
    <2>2. at' = [at EXCEPT ![r] = "git"] \/ at' = [at EXCEPT ![r] = "lock"]
        BY <2>1, EntersCases DEF Takes, Waits, StartGit
    <2>3. phase' = "up" /\ closed' = closed
        BY <1>1 DEF dispatchVars
    <2>4. PollsAlone'
        BY <1>0, <1>1, <2>2, <2>3 DEF LifespanKnows, PollsAlone, Active, TypeOK
    <2> QED BY <1>1, <2>3, <2>4
            DEF LifespanKnows, ClosedInTime, NothingAfterDrain, CallersToldAtEnd
<1>2. ASSUME NEW r \in Requests, Acquire(r) PROVE Plain
    BY <1>0, <1>2 DEF Acquire, StartGit, Plain, dispatchVars, TypeOK
<1>3. ASSUME NEW r \in Requests, Pulls(r) PROVE Plain
    BY <1>3 DEF Pulls, Plain, dispatchVars
<1>4. ASSUME NEW r \in Requests, NEW ok \in BOOLEAN, Leaves(r, ok) PROVE Plain
    <2>1. /\ \/ at' = [at EXCEPT ![r] = "failed"]
             \/ closed /\ at' = [at EXCEPT ![r] = "refused"]
             \/ ~closed /\ at' = [at EXCEPT ![r] = "dispatch"]
          /\ closed' = closed
        BY <1>0, <1>4, LeavesFacts
    <2>2. phase' = phase /\ at[r] = "git" /\ (closed => UNCHANGED dispatchVars)
        BY <1>4 DEF Leaves, GiveUp, Proceed
    <2> QED BY <1>0, <2>1, <2>2 DEF Plain, TypeOK
<1>5. ASSUME NEW r \in Requests, OrphanExits(r) PROVE Plain
    BY <1>5 DEF OrphanExits, Plain, dispatchVars
<1>6. ASSUME NEW r \in Requests, Answered(r) PROVE Plain
    <2>1. \E x \in {"failed", "cancelled", "done"} : at' = [at EXCEPT ![r] = x]
        BY <1>6, Zenon DEF Answered
    <2>2. UNCHANGED <<phase, dispatchVars>>
        BY <1>6 DEF Answered
    <2> QED BY <1>0, <2>1, <2>2 DEF Plain, dispatchVars, TypeOK
<1>7. ASSUME DispatcherStep PROVE Plain
    BY <1>7 DEF DispatcherStep, SD!Begin, SD!Fail, SD!Finish, Plain
<1>8. ASSUME Start \/ StopDispatcher \/ DispatcherAborts \/ DispatcherDrains \/ LifespanEnds
      PROVE  LifespanKnows'
    <2>1. at' = at
        BY <1>8 DEF Start, StopDispatcher, DispatcherAborts, DispatcherDrains, LifespanEnds
    <2>2. PollsAlone'
        BY <1>8, <2>1 DEF Start, StopDispatcher, DispatcherAborts, DispatcherDrains, LifespanEnds,
                          LifespanKnows, PollsAlone, Active
    <2>3. CASE Start \/ StopDispatcher
        BY <2>2, <2>3 DEF Start, StopDispatcher, SD!Close, dispatchVars, LifespanKnows,
                          ClosedInTime, NothingAfterDrain, CallersToldAtEnd
    <2>4. CASE DispatcherAborts
        BY <2>2, <2>4 DEF DispatcherAborts, SD!Abort, LifespanKnows, ClosedInTime,
                          NothingAfterDrain, CallersToldAtEnd
    <2>5. CASE DispatcherDrains
        <3>1. /\ phase' = "drained" /\ closed' = TRUE /\ current' = NoRequest /\ line' = <<>>
              /\ outcome' = [r \in Requests |-> IF r \in SD!Pending THEN "cancelled" ELSE outcome[r]]
            BY <2>5 DEF DispatcherDrains, SD!CancelRest
        <3>2. \A r \in Requests : outcome'[r] /= "pending"
            BY <3>1 DEF SD!Pending
        <3> QED BY <2>2, <3>1, <3>2 DEF LifespanKnows, ClosedInTime, NothingAfterDrain,
                                        CallersToldAtEnd
    <2>6. CASE LifespanEnds
        BY <2>1, <2>2, <2>6 DEF LifespanEnds, dispatchVars, LifespanKnows, ClosedInTime,
                                NothingAfterDrain, CallersToldAtEnd, NoneAtDispatch
    <2> QED BY <1>8, <2>3, <2>4, <2>5, <2>6
<1>9. ASSUME Shutdown PROVE LifespanKnows'
    <2>1. phase = "up" /\ phase' = "stopping"
        BY <1>9 DEF Shutdown
    <2>2. ASSUME NEW p \in Polls, Active(p), Cancel(p)
          PROVE  closed' = closed /\ \A q \in Polls : ~Active(q)'
        <3>1. at' = [at EXCEPT ![p] = "cancelled"] /\ closed' = closed
            BY <1>0, <2>2, CancelFacts
        <3> QED BY <1>0, <2>2, <3>1 DEF LifespanKnows, PollsAlone, Active, TypeOK
    <2>3. ASSUME \A p \in Polls : ~Active(p), UNCHANGED <<at, lockVars, diskVars, dispatchVars>>
          PROVE  closed' = closed /\ \A q \in Polls : ~Active(q)'
        BY <2>3 DEF dispatchVars, Active
    <2>4. closed' = closed /\ \A q \in Polls : ~Active(q)'
        BY <1>9, <2>2, <2>3 DEF Shutdown
    <2> QED BY <2>1, <2>4 DEF LifespanKnows, ClosedInTime, NothingAfterDrain, CallersToldAtEnd,
                              PollsAlone
<1>10. ASSUME ProcessEnds PROVE LifespanKnows'
    <2>1. phase' = "down" /\ closed' = FALSE /\ \A r \in Requests : ~Active(r)'
        BY <1>0, <1>10 DEF ProcessEnds, Active, TypeOK
    <2> QED BY <1>0, <2>1 DEF LifespanKnows, ClosedInTime, NothingAfterDrain, CallersToldAtEnd,
                              PollsAlone
<1>11. ASSUME UNCHANGED vars PROVE Plain
    BY <1>11 DEF vars, dispatchVars, Plain
<1>12. ASSUME NEW i \in Issues, NEW d \in Deliveries, Accept(d, i) PROVE LifespanKnows'
    BY <1>1, <1>12, RequestAssumption DEF Accept, Requests
<1>13. ASSUME NEW i \in Issues, NEW p \in Polls, Poll(p, i) PROVE LifespanKnows'
    BY <1>1, <1>13 DEF Poll, Requests
<1> QED BY <1>2, <1>3, <1>4, <1>5, <1>6, <1>7, <1>8, <1>9, <1>10, <1>11, <1>12, <1>13,
           PlainKnows, ReturnCases DEF Next, LifespanStep

LEMMA KnowsAlways == Spec => []LifespanKnows
<1>1. Init => LifespanKnows
    BY DEF Init, SD!Init, LifespanKnows, ClosedInTime, NothingAfterDrain, CallersToldAtEnd,
           PollsAlone, Active, Requests
<1> QED BY <1>1, KnowsStep, Invariance, PTL DEF Spec

\* Nothing goes on behind the back of a lifespan that has stopped its dispatcher.
THEOREM StoppedForGood == Spec => []NothingAfterDrain
BY KnowsAlways, PTL DEF LifespanKnows

\* No call of dispatch() is left without an answer at the end of the lifespan.
THEOREM NobodyLeftWaiting == Spec => []CallersToldAtEnd
BY KnowsAlways, PTL DEF LifespanKnows

\* The poll task never overlaps itself, and does nothing after it was stopped.
THEOREM PollsOneAtATime == Spec => []PollsAlone
BY KnowsAlways, PTL DEF LifespanKnows

\* Where the lifespan can always go on.
LifespanMayStep ==
    phase \in {"stopping", "closing"} \/ (phase = "drained" /\ NoneAtDispatch)

\* Weak fairness of the lifespan, as FairSpec has it, with that guard for its ENABLED; and
\* the event loop resumes, again and again, all the callers whose call has been settled.
LifespanRuns  == []<>~LifespanMayStep \/ []<><<LifespanStep>>_vars
CallersResume == []<>(\A r \in Requests : at[r] = "dispatch" => outcome[r] = "pending")

\* How many steps a shutdown has before it.
ToEnd ==
    IF phase = "stopping" THEN 4
    ELSE IF phase = "closing" THEN (IF current = NoRequest THEN 2 ELSE 3)
    ELSE 1
Ended == phase \in {"off", "down"}
Ending(n) == phase \in {"stopping", "closing", "drained"} /\ ToEnd <= n

\* With at most n steps before it a shutdown keeps to that or ends; it can go on until it has
\* at most m before it; and going on leaves at most m.
EndRung(n, m) ==
    /\ Ending(n) => Ending(n)' \/ Ended'
    /\ Ending(n) /\ LifespanMayStep => (Ending(n)' /\ LifespanMayStep') \/ Ending(m)' \/ Ended'
    /\ Ending(n) /\ <<LifespanStep>>_vars => Ending(m)' \/ Ended'

LEMMA ShutdownStep ==
    ASSUME IInv, LifespanKnows, [Next]_vars, phase \in {"stopping", "closing", "drained"}
    PROVE  \/ Ended'
           \/ phase' \in {"stopping", "closing", "drained"} /\ ToEnd' < ToEnd
           \/ /\ phase' = phase /\ ToEnd' = ToEnd /\ ~LifespanStep
              /\ phase = "drained" /\ NoneAtDispatch => NoneAtDispatch'
<1>0. TypeOK /\ Fresh /\ ClosedInTime
    BY DEF IInv, LifespanKnows
<1>1. CASE ProcessEnds
    BY <1>1 DEF ProcessEnds, Ended
<1>2. CASE LifespanStep
    <2>1. CASE StopDispatcher
        BY <2>1 DEF StopDispatcher, SD!Close, ToEnd
    <2>2. CASE DispatcherAborts
        BY <2>2 DEF DispatcherAborts, SD!Abort, ToEnd
    <2>3. CASE DispatcherDrains
        BY <2>3 DEF DispatcherDrains, SD!CancelRest, ToEnd
    <2>4. CASE LifespanEnds
        BY <2>4 DEF LifespanEnds, Ended
    <2> QED BY <1>2, <2>1, <2>2, <2>3, <2>4 DEF LifespanStep
<1>3. CASE ~ProcessEnds /\ ~LifespanStep
    <2>1. phase' = phase /\ (closed => UNCHANGED dispatchVars)
        <3>1. ASSUME NEW r \in Requests, NEW ok \in BOOLEAN, Leaves(r, ok)
              PROVE  phase' = phase /\ (closed => UNCHANGED dispatchVars)
            BY <3>1 DEF Leaves, GiveUp, Proceed
        <3> QED BY <1>3, <3>1, NextCases
                DEF Enters, Acquire, Pulls, OrphanExits, Answered, DispatcherStep, SD!Begin,
                    SD!Fail, SD!Finish, Start, Shutdown, vars
    <2>2. ToEnd' = ToEnd
        BY <1>0, <2>1 DEF ToEnd, ClosedInTime, dispatchVars
    <2>3. ASSUME phase = "drained", NoneAtDispatch PROVE NoneAtDispatch'
        <3>1. LifespanKnows' /\ closed
            BY <1>0, <2>3, KnowsStep DEF ClosedInTime
        <3>2. ASSUME NEW r \in Requests, NEW ok \in BOOLEAN, Leaves(r, ok)
              PROVE  \E x \in {"failed", "refused"} : at' = [at EXCEPT ![r] = x]
            BY <1>0, <3>1, <3>2, LeavesFacts
        <3>3. ASSUME NEW r \in Requests, Acquire(r) PROVE at' = [at EXCEPT ![r] = "git"]
            BY <3>3 DEF Acquire, StartGit
        <3>4. ASSUME NEW r \in Requests, Answered(r) PROVE FALSE
            BY <2>3, <3>4 DEF Answered, NoneAtDispatch
        <3>5. ASSUME \/ \E r \in Requests : Pulls(r) \/ OrphanExits(r)
                     \/ DispatcherStep \/ UNCHANGED vars
              PROVE  at' = at
            BY <3>5 DEF Pulls, OrphanExits, DispatcherStep, vars
        <3>6. ~Start /\ ~Shutdown /\ ~(\E r \in Requests, i \in Issues : Enters(r, i))
            BY <2>3 DEF Start, Shutdown, Enters
        <3> QED BY <1>0, <1>3, <2>3, <3>2, <3>3, <3>4, <3>5, <3>6, NextCases
                DEF NoneAtDispatch, TypeOK
    <2> QED BY <1>3, <2>1, <2>2, <2>3
<1> QED BY <1>1, <1>2, <1>3

LEMMA EndRungHolds ==
    ASSUME IInv, LifespanKnows, [Next]_vars, NEW n \in 1 .. 4 PROVE EndRung(n, n - 1)
<1> SUFFICES ASSUME Ending(n), ~Ended' PROVE EndRung(n, n - 1)
    BY DEF EndRung
<1>1. /\ phase \in {"stopping", "closing", "drained"}
      /\ ToEnd <= n /\ ToEnd \in 1 .. 4 /\ ToEnd' \in 1 .. 4
    BY DEF Ending, ToEnd
<1>2. CASE phase' \in {"stopping", "closing", "drained"} /\ ToEnd' < ToEnd
    <2>1. Ending(n)' /\ Ending(n - 1)'
        BY <1>1, <1>2 DEF Ending
    <2> QED BY <2>1 DEF EndRung
<1>3. CASE /\ phase' = phase /\ ToEnd' = ToEnd /\ ~LifespanStep
           /\ phase = "drained" /\ NoneAtDispatch => NoneAtDispatch'
    <2>1. Ending(n)' /\ (LifespanMayStep => LifespanMayStep')
        BY <1>1, <1>3 DEF Ending, LifespanMayStep
    <2> QED BY <1>3, <2>1 DEF EndRung
<1> QED BY <1>1, <1>2, <1>3, ShutdownStep

\* A shutdown completes with any number of requests, worktrees and issues, whatever git does,
\* and whatever the requests that nobody stops do meanwhile.
THEOREM ShutdownEnds == Spec /\ LifespanRuns /\ CallersResume => ShutdownCompletes
<1>1. IInv /\ LifespanKnows /\ [Next]_vars =>
         EndRung(1, 0) /\ EndRung(2, 1) /\ EndRung(3, 2) /\ EndRung(4, 3)
    <2>1. ASSUME IInv, LifespanKnows, [Next]_vars, NEW n \in 1 .. 4 PROVE EndRung(n, n - 1)
        BY <2>1, EndRungHolds
    <2> QED BY <2>1
<1>2. phase = "stopping" => Ending(4)
    BY DEF Ending, ToEnd
<1>3. ~Ending(0)
    BY DEF Ending, ToEnd
<1>4. LifespanKnows /\ Ending(4) /\ (\A r \in Requests : at[r] = "dispatch" => outcome[r] = "pending")
        => LifespanMayStep
    BY DEF LifespanKnows, NothingAfterDrain, NoneAtDispatch, Ending, LifespanMayStep
<1>5. /\ Ending(1) => Ending(4)
      /\ Ending(2) => Ending(4)
      /\ Ending(3) => Ending(4)
    BY DEF Ending, ToEnd
<1>6. Ended <=> phase \in {"off", "down"}
    BY DEF Ended
<1> QED BY <1>1, <1>2, <1>3, <1>4, <1>5, <1>6, Invariance, KnowsAlways, PTL
        DEF Spec, LifespanRuns, CallersResume, EndRung, ShutdownCompletes
=============================================================================
