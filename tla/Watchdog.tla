------------------------------ MODULE Watchdog ------------------------------
(***************************************************************************)
(* run_opencode_prompt.sh from the check of its arguments to its exit: it  *)
(* launches `opencode run` and the log tailers, watches the client's       *)
(* output and the server's I/O counters every 30 seconds, kills a stalled  *)
(* client, and cleans up, also when SIGTERM interrupts it anywhere.        *)
(*                                                                         *)
(* Time is counted in samples of the watchdog loop (30 s each).  The byte  *)
(* counters of /proc/<pid>/io are abstracted to whether they have moved    *)
(* since the watchdog last read them; they cannot be read while the pid    *)
(* file or the process is missing.  _last_read_time and read_idle only     *)
(* feed the log and are left out.  realWrite and realRead are history      *)
(* variables, used by the properties alone.                                *)
(***************************************************************************)
EXTENDS Integers

CONSTANTS IdleTimeout,    \* IDLE_TIMEOUT_SECS, in samples
          ReadOnlyGrace,  \* READ_ONLY_GRACE_SECS, in samples
          HardCeiling     \* HARD_CEILING_SECS, in samples

ASSUME LimitsAssumption ==
    /\ IdleTimeout \in Nat \ {0}
    /\ ReadOnlyGrace \in Nat
    /\ HardCeiling \in Nat
    /\ IdleTimeout < ReadOnlyGrace
    /\ ReadOnlyGrace < HardCeiling

VARIABLES
    pc,          \* where the script stands
    opencode,    \* the client process
    code,        \* its exit code, OPENCODE_EXIT
    tailers,     \* tailers running
    noted,       \* how many have their number in a variable of the script
    status,      \* the script's own exit status
    verdict,     \* why the watchdog killed the client (IDLE_KILLED when not "none")
    now,         \* samples since START_TIME
    lastOutput,  \* mtime of OUTPUT_LOG
    hasLog,      \* SERVER_LOG exists
    logMod,      \* its mtime
    moved,       \* counters that differ from _prev_server_read / _prev_server_write
    baseline,    \* those two have been read at least once
    lastWrite,   \* _last_write_time
    io,          \* /proc/<pid>/io could be read at the last sample
    ioAlways,    \* ... and at every sample so far
    realWrite,   \* when the server last wrote, since the counters were first read
    realRead     \* when it last read, likewise

procVars  == <<opencode, code, tailers, noted, status>>
worldVars == <<now, lastOutput, hasLog, logMod, realWrite, realRead>>
probeVars == <<moved, baseline, lastWrite, io, ioAlways>>
vars == <<pc, verdict, procVars, worldVars, probeVars>>

Counters == {"read", "write"}
Tailers  == 1 .. 4  \* tail -f and filter of OUTPUT_LOG, and those of SERVER_LOG
Activity == Counters \cup {"output", "log"}
Running  == {"confirm", "tailing", "loop", "sleep", "sample", "grace", "reap", "cleanup"}

TypeOK ==
    /\ pc \in Running \cup {"validate", "trap", "exited"}
    /\ opencode \in {"none", "alive", "dead"}
    /\ code \in {"none", "zero", "nonzero"}
    /\ tailers \subseteq Tailers
    /\ noted \in 0 .. 4
    /\ status \in {"none", "zero", "nonzero"}
    /\ verdict \in {"none", "idle", "ceiling"}
    /\ now \in 0 .. HardCeiling
    /\ lastOutput \in 0 .. now
    /\ hasLog \in BOOLEAN
    /\ logMod \in Int
    /\ logMod <= now
    /\ moved \subseteq Counters
    /\ baseline \in BOOLEAN
    /\ lastWrite \in 0 .. now
    /\ io \in BOOLEAN
    /\ ioAlways \in BOOLEAN
    /\ realWrite \in 0 .. now
    /\ realRead \in 0 .. now

\* The server has been up for a while: its log may be fresh, stale or missing.
Init ==
    /\ pc = "validate"
    /\ opencode = "none"
    /\ code = "none"
    /\ tailers = {}
    /\ noted = 0
    /\ status = "none"
    /\ verdict = "none"
    /\ now = 0
    /\ lastOutput = 0
    /\ hasLog \in BOOLEAN
    /\ logMod \in {0, -IdleTimeout}
    /\ moved = {}
    /\ baseline = FALSE
    /\ lastWrite = 0
    /\ io = FALSE
    /\ ioAlways = TRUE
    /\ realWrite = 0
    /\ realRead = 0

-----------------------------------------------------------------------------
(* Before the watchdog.                                                    *)

Exits(s) == pc' = "exited" /\ status' = s

\* Arguments, keys and token scopes are checked; any failure exits 1.
Reject ==
    /\ pc = "validate"
    /\ Exits("nonzero")
    /\ UNCHANGED <<verdict, opencode, code, tailers, noted, worldVars, probeVars>>

\* The client is forked and its number noted: one step, as the trap finds it either way.
Launch ==
    /\ pc = "validate"
    /\ pc' = "confirm"
    /\ opencode' = "alive"
    /\ UNCHANGED <<verdict, code, tailers, noted, status, worldVars, probeVars>>

\* One second later: a client that is gone is a failed launch, else the first tailer
\* is forked.
Confirm ==
    /\ pc = "confirm"
    /\ IF opencode = "alive"
       THEN pc' = "tailing" /\ tailers' = {1} /\ UNCHANGED status
       ELSE Exits("nonzero") /\ UNCHANGED tailers
    /\ UNCHANGED <<verdict, opencode, code, noted, worldVars, probeVars>>

Wanted == IF hasLog THEN 4 ELSE 2

\* The number of the tailer just forked is noted ($!), and the next one is forked; those
\* of the server log only if there is one.
NextTailer ==
    /\ pc = "tailing"
    /\ noted' = noted + 1
    /\ IF noted' < Wanted
       THEN tailers' = tailers \cup {noted' + 1} /\ UNCHANGED pc
       ELSE pc' = "loop" /\ UNCHANGED tailers
    /\ UNCHANGED <<verdict, opencode, code, status, worldVars, probeVars>>

-----------------------------------------------------------------------------
(* The watchdog loop.                                                      *)

\* while kill -0 "$OPENCODE_PID"
LoopHead ==
    /\ pc = "loop"
    /\ pc' = IF opencode = "alive" THEN "sleep" ELSE "reap"
    /\ UNCHANGED <<verdict, procVars, worldVars, probeVars>>

\* sleep 30, and what the client and the server do meanwhile.
Sleep(acts) ==
    LET stamp(a, t) == IF a \in acts THEN now + 1 ELSE t
    IN  /\ pc = "sleep"
        /\ pc' = "sample"
        /\ now' = now + 1
        /\ lastOutput' = stamp("output", lastOutput)
        /\ logMod' = stamp("log", logMod)
        /\ moved' = moved \cup (acts \cap Counters)
        /\ realWrite' = IF baseline THEN stamp("write", realWrite) ELSE realWrite
        /\ realRead' = IF baseline THEN stamp("read", realRead) ELSE realRead
        /\ UNCHANGED <<verdict, procVars, hasLog, baseline, lastWrite, io, ioAlways>>

\* Activity shows as a counter that differs from its previous reading.
WriteActive(readable) == readable /\ baseline /\ "write" \in moved
ReadActive(readable)  == readable /\ baseline /\ "read" \in moved

\* BUG: reads keep the server alive however long it has not written.
ServerIdleForgivingReads(readable, wrote) ==
    IF WriteActive(readable) \/ ReadActive(readable) THEN 0
    ELSE IF readable THEN now - wrote
    ELSE IF hasLog THEN now - logMod
    ELSE now - lastOutput

\* BUG: without activity in this very interval, fall back to the log's mtime.
ServerIdleFromLog(readable, wrote) ==
    IF \/ WriteActive(readable)
       \/ ReadActive(readable) /\ now - wrote < ReadOnlyGrace THEN 0
    ELSE IF hasLog THEN now - logMod
    ELSE now - lastOutput

\* How long the server has been idle, by tiers: writes, reads within the grace,
\* time since the last write seen, and the log's mtime when /proc is unreadable.
ServerIdle(readable, wrote) ==
    IF \/ WriteActive(readable)
       \/ ReadActive(readable) /\ now - wrote < ReadOnlyGrace THEN 0
    ELSE IF readable THEN now - wrote
    ELSE IF hasLog THEN now - logMod
    ELSE now - lastOutput

\* BUG: no ceiling, an active client runs for ever.
VerdictWithoutCeiling(readable, wrote) ==
    IF now - lastOutput >= IdleTimeout /\ ServerIdle(readable, wrote) >= IdleTimeout
    THEN "idle"
    ELSE "none"

\* The ceiling is looked at first, then the idle time of both sides.
Verdict(readable, wrote) ==
    IF now >= HardCeiling THEN "ceiling"
    ELSE IF now - lastOutput >= IdleTimeout /\ ServerIdle(readable, wrote) >= IdleTimeout
         THEN "idle"
    ELSE "none"

\* BUG: take a reading that failed for one that showed no change.
SampleForgetful(readable) ==
    LET wrote == IF WriteActive(readable) THEN now ELSE lastWrite
    IN  /\ pc = "sample"
        /\ lastWrite' = wrote
        /\ moved' = {}
        /\ baseline' = (baseline \/ readable)
        /\ io' = readable
        /\ ioAlways' = (ioAlways /\ readable)
        /\ verdict' = Verdict(readable, wrote)
        /\ pc' = IF verdict' = "none" THEN "loop" ELSE "grace"
        /\ UNCHANGED <<procVars, worldVars>>

\* Read the counters if they can be read, and decide.  A verdict sends SIGTERM
\* to the client, which may have exited during the sleep: it is not asked again.
Sample(readable) ==
    LET wrote == IF WriteActive(readable) THEN now ELSE lastWrite
    IN  /\ pc = "sample"
        /\ lastWrite' = wrote
        /\ moved' = IF readable THEN {} ELSE moved
        /\ baseline' = (baseline \/ readable)
        /\ io' = readable
        /\ ioAlways' = (ioAlways /\ readable)
        /\ verdict' = Verdict(readable, wrote)
        /\ pc' = IF verdict' = "none" THEN "loop" ELSE "grace"
        /\ UNCHANGED <<procVars, worldVars>>

\* BUG: no SIGKILL after the grace.
GraceEndsWithoutKill ==
    /\ pc = "grace"
    /\ pc' = "reap"
    /\ UNCHANGED <<verdict, procVars, worldVars, probeVars>>

\* sleep 10, then SIGKILL if the client is still there, and out of the loop.
GraceEnds ==
    /\ pc = "grace"
    /\ pc' = "reap"
    /\ IF opencode = "alive"
       THEN opencode' = "dead" /\ code' = "nonzero"
       ELSE UNCHANGED <<opencode, code>>
    /\ UNCHANGED <<verdict, tailers, noted, status, worldVars, probeVars>>

-----------------------------------------------------------------------------
(* After the loop.                                                         *)

\* wait "$OPENCODE_PID"
Reap ==
    /\ pc = "reap"
    /\ opencode = "dead"
    /\ pc' = "cleanup"
    /\ UNCHANGED <<verdict, procVars, worldVars, probeVars>>

\* Each tailer is killed and awaited, in the order they were started.
StopsTailer ==
    /\ \E t \in tailers : (\A u \in tailers : t <= u) /\ tailers' = tailers \ {t}
    /\ UNCHANGED <<pc, status>>

\* BUG: exit with the client's own code also after a kill.
CleanupHidingKill ==
    /\ pc = "cleanup"
    /\ \/ StopsTailer
       \/ tailers = {} /\ Exits(code) /\ UNCHANGED tailers
    /\ UNCHANGED <<verdict, opencode, code, noted, worldVars, probeVars>>

\* When no tailer is left, exit 1 after a kill, else with the client's code.
Cleanup ==
    /\ pc = "cleanup"
    /\ \/ StopsTailer
       \/ /\ tailers = {}
          /\ Exits(IF verdict = "none" THEN code ELSE "nonzero")
          /\ UNCHANGED tailers
    /\ UNCHANGED <<verdict, opencode, code, noted, worldVars, probeVars>>

-----------------------------------------------------------------------------
(* SIGTERM, and the client.                                                *)

\* The trap is set before the launch; until then SIGTERM just ends the script.
Terminated ==
    /\ \/ pc = "validate" /\ Exits("nonzero")
       \/ pc \in Running /\ pc' = "trap" /\ UNCHANGED status
    /\ UNCHANGED <<verdict, opencode, code, tailers, noted, worldVars, probeVars>>

\* BUG: the trap kills but does not wait.
TrapEndsWithoutWait ==
    /\ pc = "trap"
    /\ tailers' = {}
    /\ Exits("nonzero")
    /\ UNCHANGED <<verdict, opencode, code, noted, worldVars, probeVars>>

\* BUG: the trap kills only the processes whose numbers the script has noted.
TrapEndsWithoutJobs ==
    /\ pc = "trap"
    /\ opencode = "dead"
    /\ tailers \subseteq 1 .. noted
    /\ tailers' = {}
    /\ Exits("nonzero")
    /\ UNCHANGED <<verdict, opencode, code, noted, worldVars, probeVars>>

\* _dispatcher_cleanup: SIGTERM to the client, the noted tailers and every other job of
\* the shell, then wait for all its children, then exit 1.
TrapEnds ==
    LET jobs == tailers  \* jobs -p
    IN  /\ pc = "trap"
        /\ opencode = "dead"
        /\ tailers \subseteq (1 .. noted) \cup jobs
        /\ tailers' = {}
        /\ Exits("nonzero")
        /\ UNCHANGED <<verdict, opencode, code, noted, worldVars, probeVars>>

\* The client finishes, fails, or gives in to a SIGTERM, at any time.
OpencodeExits ==
    /\ opencode = "alive"
    /\ opencode' = "dead"
    /\ code' \in {"zero", "nonzero"}
    /\ UNCHANGED <<pc, verdict, tailers, noted, status, worldVars, probeVars>>

-----------------------------------------------------------------------------
ScriptStep ==
    \/ Reject \/ Launch \/ Confirm \/ NextTailer
    \/ LoopHead
    \/ \E acts \in SUBSET Activity : Sleep(acts)
    \/ \E readable \in BOOLEAN : Sample(readable)
    \/ GraceEnds \/ Reap \/ Cleanup \/ TrapEnds

Next == ScriptStep \/ Terminated \/ OpencodeExits

Spec == Init /\ [][Next]_vars

\* The script keeps running; the client owes nothing, not even to SIGTERM.
FairSpec == Spec /\ WF_vars(ScriptStep)

-----------------------------------------------------------------------------
(* Properties.                                                             *)

\* The script reports success only for a client that exited 0 by itself, and
\* never after a kill, even if the client had meanwhile exited 0.
NoFalseSuccess ==
    status = "zero" => code = "zero" /\ verdict = "none" /\ opencode = "dead"

\* When the script has exited, on any path, no client and no tailer is left.
CleanExit ==
    pc = "exited" => opencode /= "alive" /\ tailers = {}

\* A write of the server defers the idle kill by the full timeout, also if the
\* counters could not be read for a while since: only the sample that decides
\* must be able to read them.
WritesDeferIdleKill ==
    verdict = "idle" /\ io => now - realWrite >= IdleTimeout

\* Reads do not keep a stalled session alive: while the counters are readable, a
\* client past the idle timeout is watched on only if the server has written
\* within the read-only grace.
StallIsBounded ==
    pc = "loop" /\ ioAlways =>
        now - lastOutput < IdleTimeout \/ now - realWrite < ReadOnlyGrace

\* The script exits, whatever the client does: the ceiling and SIGKILL bound it.  Only
\* the trap may wait for a client that ignores SIGTERM, and for nothing else: not for a
\* tailer that was being started when the signal came.
Terminates == <>[](pc = "exited" \/ (pc = "trap" /\ opencode = "alive"))

\* "15 minutes of total I/O silence -> kill", as the comment has it: at an idle
\* kill neither the client nor the server has done any I/O for the timeout.
TotalSilenceBeforeKill ==
    verdict = "idle" /\ ioAlways =>
        /\ now - lastOutput >= IdleTimeout
        /\ now - realWrite >= IdleTimeout
        /\ now - realRead >= IdleTimeout
=============================================================================
