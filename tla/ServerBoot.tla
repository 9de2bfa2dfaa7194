----------------------------- MODULE ServerBoot -----------------------------
(***************************************************************************)
(* scripts/start-opencode-server.sh (a start), which reuses, replaces or   *)
(* starts the opencode server of a container and keeps its pidfile, and    *)
(* server/entrypoint.sh, PID 1 of the compose deployment, which runs the   *)
(* script and ends with the server.  In the devcontainer the script is the *)
(* postStartCommand.  In both, `devcontainer-opencode.sh start` and people *)
(* run it again at any time, also while another start is under way.        *)
(*                                                                         *)
(* The pidfile is on the container's disk: it survives a restart, the      *)
(* processes do not, and their numbers are given to others.  A server may  *)
(* listen, wedge (the port is held and connections are taken, but nothing  *)
(* answers) or die at any time.  Outside the repository, modelled from its *)
(* use: the server, docker, and PID 1 of the devcontainer.  Time is not    *)
(* counted: a deadline may pass whenever it runs.                          *)
(***************************************************************************)
CONSTANTS Pids,
          NoPid,
          Starters,  \* shells that run the script
          Boot       \* the one the start of the container runs

ASSUME PidAssumption == NoPid \notin Pids
ASSUME BootAssumption == Boot \in Starters

VARIABLES
    compose,   \* the entrypoint is PID 1; else it is a devcontainer
    up,        \* the container runs
    stopping,  \* docker stop was called and the container not started since
    proc,      \* what each process number belongs to
    file,      \* number in OPENCODE_SERVER_PIDFILE, or NoPid: there is no such file
    pc,        \* what each start does next
    pid,       \* its existing_pid, later its server_pid
    entry,     \* what the entrypoint does: run the script, read the pidfile, watch the
               \* server, shut it down
    watched,   \* server_pid of the entrypoint
    disturbed  \* history: since the container started, starts overlapped, or one was
               \* cut off with its server not yet recorded

container == <<compose, up, stopping>>
shells    == <<pc, pid>>
pidOne    == <<entry, watched>>
vars == <<container, proc, file, shells, pidOne, disturbed>>

ServerKinds == {"starting", "serving", "wedged"}
Servers   == {p \in Pids : proc[p] \in ServerKinds}
Serving   == \E p \in Pids : proc[p] = "serving"
Wedged    == \E p \in Pids : proc[p] = "wedged"
PortTaken == Serving \/ Wedged

Steps == {"check", "probe", "term", "remove", "port", "spawn", "write", "await"}

Idle == pc = [b \in Starters |-> "idle"]

TypeOK ==
    /\ compose \in BOOLEAN
    /\ up \in BOOLEAN
    /\ stopping \in BOOLEAN
    /\ proc \in [Pids -> {"free", "stranger"} \cup ServerKinds]
    /\ file \in Pids \cup {NoPid}
    /\ pc \in [Starters -> {"idle"} \cup Steps]
    /\ pid \in [Starters -> Pids \cup {NoPid}]
    /\ entry \in {"none", "script", "read", "watch", "shutdown"}
    /\ watched \in Pids \cup {NoPid}
    /\ disturbed \in BOOLEAN
    /\ entry \in {"watch", "shutdown"} <=> watched /= NoPid
    /\ entry /= "none" <=> up /\ compose
    /\ entry = "script" => pc[Boot] /= "idle"
    /\ \A b \in Starters :
          pc[b] \in {"probe", "term", "remove", "write", "await"} <=> pid[b] /= NoPid
    /\ ~up => Idle /\ proc = [p \in Pids |-> "free"]

Init ==
    /\ compose \in BOOLEAN
    /\ up = FALSE
    /\ stopping = FALSE
    /\ proc = [p \in Pids |-> "free"]
    /\ file = NoPid
    /\ pc = [b \in Starters |-> "idle"]
    /\ pid = [b \in Starters |-> NoPid]
    /\ entry = "none"
    /\ watched = NoPid
    /\ disturbed = FALSE

-----------------------------------------------------------------------------
(* The container.                                                          *)

\* docker starts it: by hand, or after an exit nobody asked for (`restart:
\* unless-stopped`).  The first thing it does is to run the script.
ContainerStarts ==
    /\ ~up
    /\ up' = TRUE
    /\ stopping' = FALSE
    /\ pc' = [pc EXCEPT ![Boot] = "check"]
    /\ entry' = IF compose THEN "script" ELSE "none"
    /\ disturbed' = FALSE
    /\ UNCHANGED <<compose, proc, file, pid, watched>>

\* PID 1 has exited or was killed, and every process of the container with it.
Down ==
    /\ up' = FALSE
    /\ proc' = [p \in Pids |-> "free"]
    /\ pc' = [b \in Starters |-> "idle"]
    /\ pid' = [b \in Starters |-> NoPid]
    /\ entry' = "none"
    /\ watched' = NoPid
    /\ UNCHANGED <<compose, file, disturbed>>

\* docker stop in compose: SIGTERM for the entrypoint, which ignores it until its trap is
\* set.  (PID 1 of the devcontainer does nothing of interest first: ContainerDies.)
DockerStop ==
    /\ compose
    /\ up
    /\ ~stopping
    /\ stopping' = TRUE
    /\ entry' = IF entry = "watch" THEN "shutdown" ELSE entry
    /\ UNCHANGED <<compose, up, proc, file, shells, watched, disturbed>>

\* The 10 s of docker stop are over, the host goes down, or memory runs out.
ContainerDies ==
    /\ up
    /\ Down
    /\ UNCHANGED stopping

\* The kernel gives out a number again only after all the others: not while some shell
\* still means its last owner.  The pidfile may, unless it is just being read.
Fresh(p) ==
    /\ proc[p] = "free"
    /\ p /= watched
    /\ entry = "read" => p /= file
    /\ \A b \in Starters : p /= pid[b]

\* Another process of the container, one at a time (a bound of the model).
StrangerStarts(p) ==
    /\ up
    /\ Fresh(p)
    /\ \A q \in Pids : proc[q] /= "stranger"
    /\ proc' = [proc EXCEPT ![p] = "stranger"]
    /\ UNCHANGED <<container, file, shells, pidOne, disturbed>>

ProcessEnds(p) ==
    /\ proc[p] /= "free"
    /\ proc' = [proc EXCEPT ![p] = "free"]
    /\ UNCHANGED <<container, file, shells, pidOne, disturbed>>

\* The server binds the port, or finds it taken and exits.
ServerListens(p) ==
    /\ proc[p] = "starting"
    /\ proc' = [proc EXCEPT ![p] = IF PortTaken THEN "free" ELSE "serving"]
    /\ UNCHANGED <<container, file, shells, pidOne, disturbed>>

ServerWedges(p) ==
    /\ proc[p] = "serving"
    /\ proc' = [proc EXCEPT ![p] = "wedged"]
    /\ UNCHANGED <<container, file, shells, pidOne, disturbed>>

ServerRecovers(p) ==
    /\ proc[p] = "wedged"
    /\ proc' = [proc EXCEPT ![p] = "serving"]
    /\ UNCHANGED <<container, file, shells, pidOne, disturbed>>

-----------------------------------------------------------------------------
(* A start.                                                                *)

Goto(b, p) ==
    /\ pc' = [pc EXCEPT ![b] = p]
    /\ UNCHANGED pid

\* Go on at p, with n as the process it means.
GotoWith(b, p, n) ==
    /\ pc' = [pc EXCEPT ![b] = p]
    /\ pid' = [pid EXCEPT ![b] = n]

\* exit.  `set -e` lets the entrypoint, too, exit with 1 after a failed start.
Exit(b, code) ==
    IF b = Boot /\ entry = "script" /\ code /= 0
    THEN Down /\ UNCHANGED stopping
    ELSE /\ GotoWith(b, "idle", NoPid)
         /\ entry' = IF b = Boot /\ entry = "script" THEN "read" ELSE entry
         /\ UNCHANGED <<container, proc, file, watched, disturbed>>

\* Somebody runs the script again.
Begin(b) ==
    /\ up
    /\ b /= Boot
    /\ pc[b] = "idle"
    /\ Goto(b, "check")
    /\ disturbed' = (disturbed \/ ~Idle)
    /\ UNCHANGED <<container, proc, file, pidOne>>

\* The exec session of a start ends, and with it the script; setsid keeps the server.
CutOff(b) ==
    /\ pc[b] /= "idle"
    /\ ~(b = Boot /\ entry = "script")
    /\ GotoWith(b, "idle", NoPid)
    /\ disturbed' = (disturbed \/ pc[b] = "write")
    /\ UNCHANGED <<container, proc, file, pidOne>>

\* Is there a pidfile, and is its process alive?  kill -0 says no, too, of a process of
\* another user.
Check(b) ==
    /\ pc[b] = "check"
    /\ \/ file = NoPid /\ Goto(b, "port")
       \/ file /= NoPid /\ proc[file] /= "free" /\ GotoWith(b, "probe", file)
       \/ file /= NoPid /\ proc[file] \in {"free", "stranger"} /\ GotoWith(b, "remove", file)
    /\ UNCHANGED <<container, proc, file, pidOne, disturbed>>

\* BUG: a process with the number in the pidfile is taken for the server.
ProbeTrusting(b) ==
    /\ pc[b] = "probe"
    /\ Exit(b, 0)

\* is_server_ready: curl has a limit for the connection and none for the answer, so it
\* returns with either, not while the server is wedged.
Probe(b) ==
    /\ pc[b] = "probe"
    /\ ~Wedged
    /\ IF Serving THEN Exit(b, 0)
       ELSE /\ Goto(b, "term")
            /\ UNCHANGED <<container, proc, file, pidOne, disturbed>>

\* BUG: no SIGKILL after the 5 s.
TerminateGracefully(b) ==
    /\ pc[b] = "term"
    /\ proc[pid[b]] = "free"
    /\ Goto(b, "remove")
    /\ UNCHANGED <<container, proc, file, pidOne, disturbed>>

\* After the SIGTERM: the process ends by itself, or after 5 s by SIGKILL.
Terminate(b) ==
    /\ pc[b] = "term"
    /\ Goto(b, "remove")
    /\ proc' = [proc EXCEPT ![pid[b]] = "free"]
    /\ UNCHANGED <<container, file, pidOne, disturbed>>

Remove(b) ==
    /\ pc[b] = "remove"
    /\ file' = NoPid
    /\ GotoWith(b, "port", NoPid)
    /\ UNCHANGED <<container, proc, pidOne, disturbed>>

\* The port answers although there is no pidfile: leave it.
ProbePort(b) ==
    /\ pc[b] = "port"
    /\ ~Wedged
    /\ IF Serving THEN Exit(b, 0)
       ELSE /\ Goto(b, "spawn")
            /\ UNCHANGED <<container, proc, file, pidOne, disturbed>>

Spawn(b) ==
    /\ pc[b] = "spawn"
    /\ \E p \in Pids :
          /\ Fresh(p)
          /\ proc' = [proc EXCEPT ![p] = "starting"]
          /\ GotoWith(b, "write", p)
    /\ UNCHANGED <<container, file, pidOne, disturbed>>

\* No number is left: the fork fails.
SpawnFails(b) ==
    /\ pc[b] = "spawn"
    /\ \A p \in Pids : ~Fresh(p)
    /\ Exit(b, 1)

WritePidfile(b) ==
    /\ pc[b] = "write"
    /\ file' = pid[b]
    /\ Goto(b, "await")
    /\ UNCHANGED <<container, proc, pidOne, disturbed>>

\* A round of the wait finds the port answering, or the server gone.
Await(b) ==
    /\ pc[b] = "await"
    /\ ~Wedged
    /\ \/ Serving /\ Exit(b, 0)
       \/ ~Serving /\ proc[pid[b]] = "free" /\ Exit(b, 1)

\* BUG: a start that timed out takes its pidfile away.
DeadlineCleaningUp(b) ==
    /\ pc[b] = "await"
    /\ ~PortTaken
    /\ proc[pid[b]] /= "free"
    /\ GotoWith(b, "idle", NoPid)
    /\ file' = NoPid
    /\ UNCHANGED <<container, proc, pidOne, disturbed>>

\* Neither until the deadline: the server stays, and so does the pidfile.
Deadline(b) ==
    /\ pc[b] = "await"
    /\ ~PortTaken
    /\ proc[pid[b]] /= "free"
    /\ Exit(b, 1)

Start(b) ==
    \/ Check(b) \/ Probe(b) \/ Terminate(b) \/ Remove(b) \/ ProbePort(b)
    \/ Spawn(b) \/ SpawnFails(b) \/ WritePidfile(b) \/ Await(b)

-----------------------------------------------------------------------------
(* The entrypoint after the script.                                        *)

\* BUG: no `set -e`, watch whatever cat printed.
ReadPidfileUnchecked ==
    /\ entry = "read"
    /\ entry' = "watch"
    /\ watched' = file
    /\ UNCHANGED <<container, proc, file, shells, disturbed>>

\* cat of the pidfile, and the trap is set.  Without a pidfile `set -e` ends it.
ReadPidfile ==
    /\ entry = "read"
    /\ IF file = NoPid
       THEN Down /\ UNCHANGED stopping
       ELSE /\ entry' = "watch"
            /\ watched' = file
            /\ UNCHANGED <<container, proc, file, shells, disturbed>>

\* The loop finds its server gone: exit 1.
ServerLost ==
    /\ entry = "watch"
    /\ proc[watched] = "free"
    /\ Down
    /\ UNCHANGED stopping

\* _shutdown: the server ends after the forwarded SIGTERM, or by SIGKILL after 30 s.
ShutdownEnds ==
    /\ entry = "shutdown"
    /\ Down
    /\ UNCHANGED stopping

-----------------------------------------------------------------------------
Next ==
    \/ ContainerStarts \/ DockerStop \/ ContainerDies \/ ReadPidfile \/ ServerLost
    \/ ShutdownEnds
    \/ \E p \in Pids :
          \/ StrangerStarts(p) \/ ProcessEnds(p) \/ ServerListens(p)
          \/ ServerWedges(p) \/ ServerRecovers(p)
    \/ \E b \in Starters : Begin(b) \/ CutOff(b) \/ Start(b) \/ Deadline(b)

Spec == Init /\ [][Next]_vars

(***************************************************************************)
(* Fairness: shells run, deadlines pass, PID 1 looks at its server every   *)
(* second, and docker restarts what it was not told to stop.  The server   *)
(* owes nothing.                                                           *)
(***************************************************************************)
Fairness ==
    /\ \A b \in Starters : WF_vars(Start(b) \/ Deadline(b))
    /\ WF_vars(ReadPidfile) /\ WF_vars(ServerLost)
    /\ WF_vars(compose /\ ~stopping /\ ContainerStarts)

FairSpec == Spec /\ Fairness

-----------------------------------------------------------------------------
(* Properties.                                                             *)

\* Between starts that did not overlap, every server process is the one the pidfile
\* names, so there is at most one, and the next start, the entrypoint and the watchdog
\* look at the right one: whatever died, timed out, was restarted or took over the
\* number in an old pidfile.
PidfileNamesServer == ~disturbed /\ Idle => Servers \subseteq {file}

\* The entrypoint holds on to the server, or to one that has ended, never to a process
\* that took over the number in the pidfile: it would look alive for ever.
EntryWatchesServer ==
    ~disturbed /\ entry \in {"watch", "shutdown"} => proc[watched] /= "stranger"

\* A start ends, also when others get in its way or its server hangs on its way up; but
\* it waits for a server that takes connections and does not answer.
StartEnds == \A b \in Starters : <>[]~Wedged => (pc[b] /= "idle" ~> pc[b] = "idle")

\* Nothing more goes wrong: servers come up in time and stay, nobody stops the container
\* or runs the script by hand.
Calm ==
    \/ ContainerStarts \/ ReadPidfile \/ ServerLost
    \/ \E p \in Pids : ServerListens(p) \/ StrangerStarts(p)
    \/ \E b \in Starters : Start(b)

\* However the container was left, with no server, a stale pidfile or one that names
\* another process by now: in compose it comes to a PID 1 that watches a serving server
\* once nothing more goes wrong and the server it watches does not stay on its way up.
\* Starts that overlapped since the container started may leave it watching a process that
\* took a number over.
Recovers ==
    (/\ compose
     /\ <>[][Calm]_vars
     /\ <>[](~stopping /\ ~Wedged /\ ~disturbed)
     /\ []<>~(entry = "watch" /\ proc[watched] = "starting"))
    => <>(entry = "watch" /\ proc[watched] = "serving")
=============================================================================
