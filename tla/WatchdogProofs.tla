--------------------------- MODULE WatchdogProofs ---------------------------
(***************************************************************************)
(* Proofs about Watchdog for every choice of the three limits and of the   *)
(* tailers.  The inductive invariant adds to the properties what ties the  *)
(* watchdog's memory (lastWrite, moved) to the server's real I/O, and what *)
(* each place in the script knows of the processes.                        *)
(*                                                                         *)
(* Of the liveness there are three facts: every move of the script lowers  *)
(* a bounded measure (RunsDown), and with fairness of the script alone it  *)
(* ends once the client is gone or a verdict has been given.  Fairness is  *)
(* stated with a guard under which the script can always take a step.      *)
(***************************************************************************)
EXTENDS Watchdog, TLAPS

\* What the script knows of its processes at each place.
ProcessesKnown ==
    /\ pc = "validate" => opencode = "none"
    /\ pc \in {"validate", "confirm"} => tailers = {} /\ noted = 0
    /\ pc \in {"validate", "confirm", "tailing"} => now = 0
    /\ pc = "tailing" => noted < Wanted
    /\ pc \notin {"validate", "exited"} => opencode /= "none"
    /\ pc \in {"cleanup", "exited"} => opencode /= "alive"
    /\ pc = "cleanup" => opencode = "dead"
    /\ opencode = "dead" <=> code /= "none"
    /\ status /= "none" <=> pc = "exited"
    /\ pc \in {"loop", "sleep"} => now < HardCeiling
    /\ verdict /= "none" => pc \in {"grace", "reap", "cleanup", "trap", "exited"}

\* A real write is either stamped in _last_write_time or still shows as a
\* counter that differs from the previous reading.
WritesRemembered ==
    /\ ~baseline => realWrite = 0
    /\ realWrite <= lastWrite \/ "write" \in moved
    /\ verdict = "idle" /\ io => "write" \notin moved /\ now - lastWrite >= IdleTimeout

\* While every reading succeeds, _last_write_time is exact up to this sample.
WritesExact ==
    ioAlways /\ pc \in {"validate", "confirm", "tailing", "loop", "sleep", "sample"} =>
        /\ pc /= "sample" => moved = {}
        /\ IF baseline /\ "write" \in moved THEN realWrite = now ELSE lastWrite = realWrite

IInv ==
    /\ TypeOK
    /\ ProcessesKnown
    /\ WritesRemembered
    /\ WritesExact
    /\ NoFalseSuccess
    /\ CleanExit
    /\ StallIsBounded

LEMMA InitInv == Init => IInv
<1>1. Init => baseline \in BOOLEAN /\ io \in BOOLEAN /\ ioAlways \in BOOLEAN
  BY Zenon DEF Init
<1> QED
  BY <1>1, LimitsAssumption
   DEF Init, IInv, TypeOK, ProcessesKnown, WritesRemembered, WritesExact, NoFalseSuccess,
       CleanExit, StallIsBounded, Running, Counters

\* The sleep moves the clock and the world, not the watchdog's memory.
LEMMA SleepInv == ASSUME IInv, NEW acts \in SUBSET Activity, Sleep(acts) PROVE IInv'
BY LimitsAssumption
   DEF Sleep, procVars, IInv, TypeOK, ProcessesKnown, WritesRemembered, WritesExact,
       NoFalseSuccess, CleanExit, StallIsBounded, Running, Counters, Activity

\* A sample without a verdict leaves output, or writes within the grace, recent.
LEMMA SampleInv == ASSUME IInv, NEW readable \in BOOLEAN, Sample(readable) PROVE IInv'
<1>1. baseline' \in BOOLEAN /\ io' \in BOOLEAN /\ ioAlways' \in BOOLEAN
  BY Zenon DEF Sample, IInv, TypeOK
<1>2. /\ baseline' <=> baseline \/ readable
      /\ io' <=> readable
      /\ ioAlways' <=> ioAlways /\ readable
  BY Zenon DEF Sample
<1> DEFINE wrote == IF WriteActive(readable) THEN now ELSE lastWrite
<1>3. /\ pc = "sample" /\ lastWrite' = wrote
      /\ moved' = IF readable THEN {} ELSE moved
      /\ verdict' = Verdict(readable, wrote)
      /\ pc' = IF verdict' = "none" THEN "loop" ELSE "grace"
      /\ UNCHANGED <<procVars, worldVars>>
  BY DEF Sample
<1>4. wrote \in 0 .. now /\ lastWrite <= wrote
  BY DEF IInv, TypeOK
<1>5. TypeOK'
  BY <1>1, <1>3, <1>4
     DEF Verdict, procVars, worldVars, IInv, TypeOK, Running
<1>6. ProcessesKnown' /\ NoFalseSuccess' /\ CleanExit'
  BY <1>3, LimitsAssumption
     DEF Verdict, procVars, worldVars, IInv, TypeOK, ProcessesKnown, NoFalseSuccess, CleanExit
<1>7. WritesRemembered'
  BY <1>2, <1>3, <1>4, LimitsAssumption
     DEF Verdict, ServerIdle, WriteActive, ReadActive, procVars, worldVars, IInv, TypeOK,
         WritesRemembered
<1>8. WritesExact'
  BY <1>2, <1>3 DEF WriteActive, procVars, worldVars, IInv, TypeOK, WritesExact, WritesRemembered
<1>9. StallIsBounded'
  BY <1>2, <1>3, <1>4, LimitsAssumption
     DEF Verdict, ServerIdle, WriteActive, ReadActive, procVars, worldVars, IInv, TypeOK,
         WritesExact, WritesRemembered, StallIsBounded
<1> QED BY <1>5, <1>6, <1>7, <1>8, <1>9 DEF IInv

LEMMA StepInv == IInv /\ [Next]_vars => IInv'
<1> SUFFICES ASSUME IInv, [Next]_vars PROVE IInv'
  OBVIOUS
<1> USE LimitsAssumption
    DEF IInv, TypeOK, ProcessesKnown, WritesRemembered, WritesExact, NoFalseSuccess,
        CleanExit, StallIsBounded, Running, Counters, procVars, worldVars, probeVars
<1>1. CASE Reject
  BY <1>1 DEF Reject, Exits
<1>2. CASE Launch
  BY <1>2 DEF Launch
<1>3. CASE Confirm
  <2> {1} \subseteq Tailers
    BY DEF Tailers
  <2>1. CASE opencode = "alive"
    BY <1>3, <2>1 DEF Confirm, Wanted
  <2>2. CASE opencode /= "alive"
    BY <1>3, <2>2 DEF Confirm, Exits
  <2> QED BY <2>1, <2>2
<1>14. CASE NextTailer
  <2>1. Wanted \in {2, 4} /\ Wanted' = Wanted
    BY <1>14 DEF Wanted, NextTailer
  <2>2. noted' = noted + 1 /\ noted' <= Wanted
    BY <1>14, <2>1 DEF NextTailer
  <2>3. CASE noted' < Wanted
    <3>1. noted' \in 0 .. 4 /\ noted' + 1 \in Tailers
      BY <2>1, <2>2, <2>3 DEF Tailers
    <3> QED BY <1>14, <2>1, <2>2, <2>3, <3>1 DEF NextTailer
  <2>4. CASE noted' = Wanted
    BY <1>14, <2>1, <2>2, <2>4 DEF NextTailer
  <2> QED BY <2>1, <2>2, <2>3, <2>4
<1>4. CASE LoopHead
  BY <1>4 DEF LoopHead
<1>5. ASSUME NEW acts \in SUBSET Activity, Sleep(acts) PROVE IInv'
  BY <1>5, SleepInv
<1>6. ASSUME NEW readable \in BOOLEAN, Sample(readable) PROVE IInv'
  BY <1>6, SampleInv
<1>7. CASE GraceEnds
  BY <1>7 DEF GraceEnds
<1>8. CASE Reap
  BY <1>8 DEF Reap
<1>9. CASE Cleanup
  BY <1>9 DEF Cleanup, StopsTailer, Exits
<1>10. CASE TrapEnds
  BY <1>10 DEF TrapEnds, Exits
<1>11. CASE Terminated
  BY <1>11 DEF Terminated, Exits
<1>12. CASE OpencodeExits
  <2>1. Wanted' = Wanted
    BY <1>12 DEF OpencodeExits, Wanted
  <2> QED BY <1>12, <2>1 DEF OpencodeExits
<1>13. CASE UNCHANGED vars
  <2>1. Wanted' = Wanted
    BY <1>13 DEF vars, Wanted
  <2> QED BY <1>13, <2>1 DEF vars
<1> QED
  BY <1>1, <1>2, <1>3, <1>4, <1>5, <1>6, <1>7, <1>8, <1>9, <1>10, <1>11, <1>12, <1>13, <1>14
     DEF Next, ScriptStep

THEOREM Invariance == Spec => []IInv
BY InitInv, StepInv, PTL DEF Spec

\* Every variable keeps its type; in particular the clock never passes the ceiling.
THEOREM TypeCorrect == Spec => []TypeOK
BY Invariance, PTL DEF IInv

\* The exit status never hides a kill or a failure of the client.
THEOREM SuccessIsHonest == Spec => []NoFalseSuccess
BY Invariance, PTL DEF IInv

\* No client and no tailer outlives the script.
THEOREM NothingLeftBehind == Spec => []CleanExit
BY Invariance, PTL DEF IInv

\* The fix of the premature idle kill: one quiet sample after a write never kills.
THEOREM WritesDefer == Spec => []WritesDeferIdleKill
<1>1. IInv => WritesDeferIdleKill
  BY LimitsAssumption DEF IInv, TypeOK, WritesRemembered, WritesDeferIdleKill
<1> QED BY <1>1, Invariance, PTL

\* Reads alone never keep a stalled session beyond the read-only grace.
THEOREM StallsAreBounded == Spec => []StallIsBounded
BY Invariance, PTL DEF IInv
-----------------------------------------------------------------------------
(* What an idle kill does show.                                            *)

\* The comment promises total silence (TotalSilenceBeforeKill), which the code does not
\* keep.  What every idle kill goes by instead: the client's output has been silent for the
\* timeout; so has the server's log, if the counters could not be read for the decision;
\* and with readable counters either no read in the last interval, or no write for the
\* read-only grace.
IdleKillEvidence ==
    verdict = "idle" =>
        /\ now - lastOutput >= IdleTimeout
        /\ ~io /\ hasLog => now - logMod >= IdleTimeout
        /\ ioAlways => realRead < now \/ now - realWrite >= ReadOnlyGrace

\* A read in the interval of this sample still shows in its counter.
ReadsShow == pc = "sample" /\ realRead = now => baseline /\ "read" \in moved

LEMMA ReadsShowStep == IInv /\ ReadsShow /\ [Next]_vars => ReadsShow'
<1> SUFFICES ASSUME IInv, ReadsShow, [Next]_vars PROVE ReadsShow'
    OBVIOUS
<1>1. ASSUME NEW acts \in SUBSET Activity, Sleep(acts) PROVE ReadsShow'
    <2>1. /\ now' = now + 1 /\ baseline' = baseline
          /\ moved' = moved \cup (acts \cap Counters)
          /\ realRead' = IF baseline /\ "read" \in acts THEN now + 1 ELSE realRead
        BY <1>1 DEF Sleep
    <2> QED BY <2>1 DEF IInv, TypeOK, ReadsShow, Counters
<1>2. CASE pc' /= "sample"
    BY <1>2 DEF ReadsShow
<1>3. CASE pc' = pc /\ UNCHANGED worldVars /\ UNCHANGED probeVars
    BY <1>3 DEF ReadsShow, worldVars, probeVars
<1>4. ASSUME NEW readable \in BOOLEAN, Sample(readable) PROVE pc' /= "sample"
    BY <1>4 DEF Sample
<1>5. Reject \/ Launch \/ Confirm \/ NextTailer \/ LoopHead \/ GraceEnds \/ Reap \/ Cleanup
      \/ TrapEnds \/ Terminated => pc' /= "sample"
    BY DEF Reject, Launch, Confirm, NextTailer, LoopHead, GraceEnds, Reap, Cleanup, StopsTailer,
           TrapEnds, Terminated, Exits
<1>6. OpencodeExits \/ UNCHANGED vars
        => pc' = pc /\ UNCHANGED worldVars /\ UNCHANGED probeVars
    BY DEF OpencodeExits, vars
<1> QED BY <1>1, <1>2, <1>3, <1>4, <1>5, <1>6 DEF Next, ScriptStep

LEMMA EvidenceStep ==
    IInv /\ ReadsShow /\ IdleKillEvidence /\ [Next]_vars => IdleKillEvidence'
<1> SUFFICES ASSUME IInv, ReadsShow, IdleKillEvidence, [Next]_vars PROVE IdleKillEvidence'
    OBVIOUS
<1>1. ASSUME NEW readable \in BOOLEAN, Sample(readable), verdict' = "idle"
      PROVE  IdleKillEvidence'
    <2> DEFINE wrote == IF WriteActive(readable) THEN now ELSE lastWrite
    <2>1. /\ pc = "sample" /\ verdict' = Verdict(readable, wrote)
          /\ UNCHANGED worldVars
        BY <1>1 DEF Sample
    <2>2. (io' <=> readable) /\ (ioAlways' <=> ioAlways /\ readable)
        BY <1>1, Zenon DEF Sample
    <2>3. now - lastOutput >= IdleTimeout /\ ServerIdle(readable, wrote) >= IdleTimeout
        BY <1>1, <2>1 DEF Verdict
    <2>4. ServerIdle(readable, wrote) /= 0
        BY <2>3, LimitsAssumption
    <2>5. ~readable /\ hasLog => now - logMod >= IdleTimeout
        BY <2>3, <2>4 DEF ServerIdle
    <2>6. ASSUME ioAlways, readable, realRead = now PROVE now - realWrite >= ReadOnlyGrace
        <3>1. ~WriteActive(readable) /\ ~(ReadActive(readable) /\ now - wrote < ReadOnlyGrace)
            BY <2>4 DEF ServerIdle
        <3>2. ReadActive(readable)
            BY <2>1, <2>6 DEF ReadsShow, ReadActive
        <3>3. lastWrite = realWrite
            BY <2>1, <2>6, <3>1 DEF IInv, WritesExact, WriteActive
        <3> QED BY <3>1, <3>2, <3>3, LimitsAssumption DEF IInv, TypeOK
    <2>7. ioAlways /\ readable => realRead < now \/ now - realWrite >= ReadOnlyGrace
        BY <2>6 DEF IInv, TypeOK
    <2> QED BY <2>1, <2>2, <2>3, <2>5, <2>7 DEF IdleKillEvidence, worldVars
<1>2. CASE verdict' /= "idle"
    BY <1>2 DEF IdleKillEvidence
<1>3. CASE verdict' = verdict /\ UNCHANGED <<worldVars, io, ioAlways>>
    BY <1>3 DEF IdleKillEvidence, worldVars
<1>4. ASSUME NEW acts \in SUBSET Activity, Sleep(acts) PROVE verdict' = "none"
    BY <1>4 DEF Sleep, IInv, ProcessesKnown
<1>5. \/ Reject \/ Launch \/ Confirm \/ NextTailer \/ LoopHead \/ GraceEnds \/ Reap
      \/ Cleanup \/ TrapEnds \/ Terminated \/ OpencodeExits \/ UNCHANGED vars
      => verdict' = verdict /\ UNCHANGED <<worldVars, io, ioAlways>>
    BY Zenon DEF Reject, Launch, Confirm, NextTailer, LoopHead, GraceEnds, Reap, Cleanup, TrapEnds,
           Terminated, OpencodeExits, vars, probeVars
<1> QED BY <1>1, <1>2, <1>3, <1>4, <1>5 DEF Next, ScriptStep

\* An idle kill always has that evidence, whatever the client and the server did.
THEOREM IdleKillsHaveEvidence == Spec => []IdleKillEvidence
<1>1. Init => ReadsShow /\ IdleKillEvidence
    BY DEF Init, ReadsShow, IdleKillEvidence
<1> QED BY <1>1, ReadsShowStep, EvidenceStep, Invariance, PTL DEF Spec

-----------------------------------------------------------------------------
(* The script winds down.                                                  *)

\* The places of the script in the order it takes them.  Only the loop goes back, from a
\* sample to its head, and each round has moved the clock by one sample.  While tailers are
\* started, and stopped, their number moves.
Place ==
    [validate |-> 11, confirm |-> 10, tailing |-> 8, loop |-> 6, sleep |-> 5, sample |-> 7,
     grace |-> 4, reap |-> 3, cleanup |-> 2, trap |-> 1, exited |-> 0]
Kept == (IF 1 \in tailers THEN 1 ELSE 0) + (IF 2 \in tailers THEN 1 ELSE 0)
        + (IF 3 \in tailers THEN 1 ELSE 0) + (IF 4 \in tailers THEN 1 ELSE 0)
Rank == 3 * (HardCeiling - now) + 2 * (4 - noted) + Kept + Place[pc]

\* Every step of the script, also one a signal makes, brings it nearer to its exit, by a
\* measure that the hard ceiling bounds and that nothing the client or the server does
\* can raise.
RunsDown ==
    [][/\ Rank \in Nat /\ Rank' \in Nat /\ Rank' <= Rank
       /\ ScriptStep \/ Terminated => Rank' < Rank]_vars

\* Stopping a tailer leaves one less, starting the next leaves at most one more.
LEMMA KeptMoves ==
    ASSUME IInv, IInv'
    PROVE  /\ Kept \in 0 .. 4 /\ Kept' \in 0 .. 4
           /\ StopsTailer => Kept' = Kept - 1
           /\ Confirm \/ NextTailer => Kept' <= Kept + 1
           /\ UNCHANGED tailers => Kept' = Kept
           /\ tailers' = {} => Kept' = 0
<1> USE DEF IInv, TypeOK, Tailers, Kept
<1>1. ASSUME StopsTailer PROVE Kept' = Kept - 1
    <2>1. PICK t \in tailers : tailers' = tailers \ {t}
        BY <1>1 DEF StopsTailer
    <2> QED BY <2>1
<1>2. ASSUME Confirm \/ NextTailer PROVE Kept' <= Kept + 1
    BY <1>2 DEF Confirm, NextTailer, ProcessesKnown
<1> QED BY <1>1, <1>2

LEMMA RankFacts == IInv => Rank \in Nat
<1>1. ASSUME IInv PROVE Kept \in 0 .. 4 /\ Place[pc] \in 0 .. 11
    BY <1>1 DEF Kept, Place, IInv, TypeOK, Running
<1> QED BY <1>1, LimitsAssumption DEF IInv, TypeOK, Rank

LEMMA RankKept == IInv' => Rank' \in Nat
<1> SUFFICES ASSUME IInv' PROVE Rank' \in Nat
    OBVIOUS
<1>1. Kept' \in 0 .. 4
    BY DEF Kept
<1>2. Place'[pc'] \in 0 .. 11
    BY DEF Place, IInv, TypeOK, Running
<1>3. now' \in 0 .. HardCeiling /\ noted' \in 0 .. 4
    BY DEF IInv, TypeOK
<1> QED BY <1>1, <1>2, <1>3, LimitsAssumption DEF Rank

LEMMA MovesLower ==
    ASSUME IInv, IInv', [Next]_vars
    PROVE  Rank' <= Rank /\ (ScriptStep \/ Terminated => Rank' < Rank)
<1> SUFFICES /\ ScriptStep \/ Terminated => Rank' < Rank
             /\ OpencodeExits \/ UNCHANGED vars => Rank' <= Rank
    <2>1. Rank \in Nat /\ Rank' \in Nat
        BY RankFacts, RankKept
    <2>2. Rank' < Rank => Rank' <= Rank
        BY <2>1
    <2> QED BY <2>2 DEF Next
<1> USE LimitsAssumption, KeptMoves DEF IInv, TypeOK, Rank, Place, Running
<1>1. CASE Reject \/ Launch \/ LoopHead \/ GraceEnds \/ Reap \/ TrapEnds
    BY <1>1 DEF Reject, Launch, LoopHead, GraceEnds, Reap, TrapEnds, Exits, worldVars, procVars
<1>2. CASE Confirm
    BY <1>2 DEF Confirm, Exits, worldVars
<1>8. CASE NextTailer
    BY <1>8 DEF NextTailer, worldVars
<1>3. CASE Cleanup
    BY <1>3 DEF Cleanup, StopsTailer, Exits, worldVars
<1>4. ASSUME NEW acts \in SUBSET Activity, Sleep(acts) PROVE Rank' < Rank
    <2>1. pc = "sleep" /\ pc' = "sample" /\ now' = now + 1 /\ UNCHANGED <<noted, tailers>>
        BY <1>4 DEF Sleep, procVars
    <2> QED BY <2>1
<1>5. ASSUME NEW readable \in BOOLEAN, Sample(readable) PROVE Rank' < Rank
    <2>1. /\ pc = "sample" /\ pc' \in {"loop", "grace"}
          /\ now' = now /\ UNCHANGED <<noted, tailers>>
        BY <1>5 DEF Sample, worldVars, procVars
    <2> QED BY <2>1
<1>6. CASE Terminated
    BY <1>6 DEF Terminated, Exits, worldVars
<1>7. ASSUME OpencodeExits \/ UNCHANGED vars PROVE Rank' <= Rank
    <2>1. UNCHANGED <<pc, now, noted, tailers>>
        BY <1>7 DEF OpencodeExits, vars, worldVars, procVars
    <2>2. Rank' = Rank
        BY <2>1
    <2>3. Rank \in Nat
        BY RankFacts
    <2> HIDE DEF Rank
    <2> QED BY <2>2, <2>3
<1> QED BY <1>1, <1>2, <1>3, <1>4, <1>5, <1>6, <1>7, <1>8 DEF ScriptStep

\* For any limits: what is left to prove of Terminates is only that a measure in Nat
\* cannot fall for ever.
THEOREM RunGoesDown == Spec => RunsDown
<1>1. IInv /\ IInv' /\ [Next]_vars =>
        [/\ Rank \in Nat /\ Rank' \in Nat /\ Rank' <= Rank
         /\ ScriptStep \/ Terminated => Rank' < Rank]_vars
    BY RankFacts, RankKept, MovesLower
<1> QED BY <1>1, Invariance, PTL DEF Spec, RunsDown

\* Where the script can always take its next step: it blocks only in wait, which it reaches
\* with the client dead, and in the trap's wait, which is for the client.
ScriptMayStep ==
    \/ pc \notin {"reap", "trap", "exited"}
    \/ pc \in {"reap", "trap"} /\ opencode = "dead"

\* Weak fairness of the script, as FairSpec has it, with that guard for its ENABLED.
ScriptRuns == []<>~ScriptMayStep \/ []<><<ScriptStep>>_vars

\* A client that is gone ends the script, wherever the script is.
ClientEndsScript == opencode = "dead" ~> pc = "exited"

\* A verdict of the watchdog ends the script, or a SIGTERM that came meanwhile has it wait
\* in the trap for the client.
KillEnds == verdict /= "none" ~> pc = "exited" \/ (pc = "trap" /\ opencode = "alive")

\* The client is gone, or will be killed; and the script is not done with it.
Ending == opencode = "dead" \/ verdict /= "none"
Over == pc = "exited" \/ (pc = "trap" /\ opencode = "alive")

\* How many steps the script has before it once the client is gone.
Turns ==
    [validate |-> 14, tailing |-> 13 - noted, sleep |-> 11, sample |-> 10, loop |-> 9,
     grace |-> 8, reap |-> 7, confirm |-> 2, cleanup |-> 2 + Kept, trap |-> 1,
     exited |-> 0][pc]
Within(n) == Ending /\ Turns \in 1 .. n

\* With at most n steps before it the script keeps to that, or is done; and a step of it
\* leaves at most m.
Rung(n, m) ==
    /\ Within(n) => Within(n)' \/ Over'
    /\ Within(n) /\ <<ScriptStep>>_vars => Within(m)' \/ Over'

LEMMA ReapedDead == IInv /\ (pc = "reap" => opencode = "dead") /\ [Next]_vars
    => (pc = "reap" => opencode = "dead")'
<1> SUFFICES ASSUME IInv, pc = "reap" => opencode = "dead", [Next]_vars
             PROVE  (pc = "reap" => opencode = "dead")'
    OBVIOUS
<1> USE DEF IInv, TypeOK, ProcessesKnown, procVars
<1>1. CASE \/ Reject \/ Launch \/ Confirm \/ NextTailer \/ LoopHead \/ GraceEnds \/ Reap
           \/ Cleanup \/ TrapEnds \/ Terminated \/ OpencodeExits \/ UNCHANGED vars
    BY <1>1 DEF Reject, Launch, Confirm, NextTailer, LoopHead, GraceEnds, Reap, Cleanup,
                StopsTailer, TrapEnds, Terminated, OpencodeExits, Exits, vars
<1>2. ASSUME NEW acts \in SUBSET Activity, Sleep(acts) PROVE pc' /= "reap"
    BY <1>2 DEF Sleep
<1>3. ASSUME NEW readable \in BOOLEAN, Sample(readable) PROVE pc' /= "reap"
    BY <1>3 DEF Sample
<1> QED BY <1>1, <1>2, <1>3 DEF Next, ScriptStep

LEMMA EndingStep ==
    ASSUME IInv, IInv', Ending, [Next]_vars
    PROVE  /\ Ending'
           /\ Turns' <= Turns
           /\ ScriptStep => Turns' < Turns
           /\ opencode = "dead" => opencode' = "dead"
<1> USE KeptMoves DEF IInv, TypeOK, ProcessesKnown, Ending, Turns, Running, procVars
<1>1. CASE Reject \/ Launch \/ LoopHead \/ GraceEnds \/ Reap \/ TrapEnds
    BY <1>1 DEF Reject, Launch, LoopHead, GraceEnds, Reap, TrapEnds, Exits
<1>2. CASE Confirm
    BY <1>2 DEF Confirm, Exits
<1>8. CASE NextTailer
    BY <1>8 DEF NextTailer
<1>3. CASE Cleanup
    BY <1>3 DEF Cleanup, StopsTailer, Exits
<1>4. ASSUME NEW acts \in SUBSET Activity, Sleep(acts)
      PROVE  pc = "sleep" /\ pc' = "sample" /\ opencode' = opencode /\ verdict' = verdict
    BY <1>4 DEF Sleep
<1>5. ASSUME NEW readable \in BOOLEAN, Sample(readable)
      PROVE  pc = "sample" /\ pc' \in {"loop", "grace"} /\ opencode' = opencode
    BY <1>5 DEF Sample
<1>6. CASE Terminated
    BY <1>6 DEF Terminated, Exits
<1>7. ASSUME OpencodeExits \/ UNCHANGED vars
      PROVE  Ending' /\ Turns' = Turns /\ (opencode = "dead" => opencode' = "dead")
    BY <1>7 DEF OpencodeExits, vars
<1> QED BY <1>1, <1>2, <1>3, <1>4, <1>5, <1>6, <1>7, <1>8 DEF Next, ScriptStep

LEMMA RungHolds ==
    ASSUME IInv, IInv', [Next]_vars, NEW n \in 1 .. 14 PROVE Rung(n, n - 1)
<1> SUFFICES ASSUME Within(n), ~Over' PROVE Rung(n, n - 1)
    BY DEF Rung
<1>1. Ending /\ Turns \in 1 .. n
    BY DEF Within
<1>2. Ending' /\ (Turns' = Turns \/ Turns' < Turns) /\ (ScriptStep => Turns' < Turns)
    BY <1>1, EndingStep DEF Turns, Kept, IInv, TypeOK, Running
<1>3. Turns' \in 1 .. 14
    BY DEF Over, Turns, Kept, IInv, TypeOK, Running
<1> QED BY <1>1, <1>2, <1>3 DEF Rung, Within

LEMMA EndingIsOver == Spec /\ ScriptRuns => (Ending ~> Over)
<1>1. IInv /\ IInv' /\ [Next]_vars =>
         /\ Rung(1, 0) /\ Rung(2, 1) /\ Rung(3, 2) /\ Rung(4, 3)
         /\ Rung(5, 4) /\ Rung(6, 5) /\ Rung(7, 6) /\ Rung(8, 7)
         /\ Rung(9, 8) /\ Rung(10, 9) /\ Rung(11, 10) /\ Rung(12, 11)
         /\ Rung(13, 12) /\ Rung(14, 13)
    <2>1. ASSUME IInv, IInv', [Next]_vars, NEW n \in 1 .. 14 PROVE Rung(n, n - 1)
        BY <2>1, RungHolds
    <2> QED BY <2>1
<1>2. IInv /\ Ending => Within(14) \/ Over
    BY DEF Within, Over, Turns, Kept, IInv, TypeOK, Running
<1>3. ~Within(0)
    BY DEF Within
<1>4. IInv /\ (pc = "reap" => opencode = "dead") /\ Ending => ScriptMayStep \/ Over
    BY DEF IInv, TypeOK, ProcessesKnown, Ending, Over, ScriptMayStep, Running
<1>5. Within(14) => Ending
    BY DEF Within
<1>6. Init => (pc = "reap" => opencode = "dead")
    BY DEF Init
<1>7. Spec => [](pc = "reap" => opencode = "dead")
    BY <1>6, ReapedDead, Invariance, PTL DEF Spec
<1>8. IInv /\ IInv' /\ Ending /\ [Next]_vars => Ending'
    BY EndingStep
<1> QED BY <1>1, <1>2, <1>3, <1>4, <1>5, <1>7, <1>8, Invariance, PTL DEF Spec, ScriptRuns, Rung

\* For any limits, with fairness of the script alone: nothing it awaits after the client has
\* exited can hold it.
THEOREM DeadClientEndsScript == Spec /\ ScriptRuns => ClientEndsScript
<1>1. opencode = "dead" => Ending
    BY DEF Ending
<1>2. IInv /\ IInv' /\ opencode = "dead" /\ [Next]_vars => (opencode = "dead")'
    BY EndingStep DEF Ending
<1>3. Over /\ opencode = "dead" => pc = "exited"
    BY DEF Over
<1> QED BY <1>1, <1>2, <1>3, EndingIsOver, Invariance, PTL DEF Spec, ClientEndsScript

\* And after a verdict of the watchdog the client cannot hold it either.
THEOREM VerdictEndsScript == Spec /\ ScriptRuns => KillEnds
<1>1. verdict /= "none" => Ending
    BY DEF Ending
<1>2. Over => pc = "exited" \/ (pc = "trap" /\ opencode = "alive")
    BY DEF Over
<1> QED BY <1>1, <1>2, EndingIsOver, PTL DEF KillEnds
=============================================================================
