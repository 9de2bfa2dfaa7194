-------------------------- MODULE ServerBootProofs --------------------------
(***************************************************************************)
(* Theorems about ServerBoot, for every number of process numbers and of   *)
(* shells that run the script: type correctness; the pidfile names the     *)
(* server and the entrypoint watches it, while starts do not overlap;      *)
(* every start ends, and the deployment recovers.                          *)
(*                                                                         *)
(* The inductive invariant IInv has a part that always holds (Own) and one *)
(* that holds until starts overlap or are cut off (Undisturbed).  Weak     *)
(* fairness is stated with a guard under which the action can be taken.    *)
(***************************************************************************)
EXTENDS ServerBoot, Naturals, TLAPS

-----------------------------------------------------------------------------
(* Type correctness.                                                       *)

LEMMA DownTypes == TypeOK /\ Down /\ stopping' \in BOOLEAN => TypeOK'
<1> SUFFICES ASSUME TypeOK, Down, stopping' \in BOOLEAN PROVE TypeOK'
    OBVIOUS
<1>1. /\ proc' \in [Pids -> {"free", "stranger"} \cup ServerKinds]
      /\ pc' \in [Starters -> {"idle"} \cup Steps]
      /\ pid' \in [Starters -> Pids \cup {NoPid}]
      /\ \A b \in Starters : pc'[b] = "idle" /\ pid'[b] = NoPid
    BY DEF Down
<1>2. /\ compose' \in BOOLEAN /\ up' = FALSE /\ file' \in Pids \cup {NoPid}
      /\ entry' = "none" /\ watched' = NoPid /\ disturbed' \in BOOLEAN
    BY DEF TypeOK, Down
<1>3. Idle' /\ proc' = [p \in Pids |-> "free"]
    BY DEF Down, Idle
<1> QED BY <1>1, <1>2, <1>3 DEF TypeOK, Steps

LEMMA ExitTypes ==
    ASSUME TypeOK, NEW b \in Starters, NEW code, Exit(b, code), pc[b] /= "idle"
    PROVE  TypeOK'
<1>1. CASE Down /\ UNCHANGED stopping
    BY <1>1, DownTypes DEF TypeOK
<1>2. CASE /\ GotoWith(b, "idle", NoPid)
           /\ entry' = IF b = Boot /\ entry = "script" THEN "read" ELSE entry
           /\ UNCHANGED <<container, proc, file, watched, disturbed>>
    BY <1>2 DEF TypeOK, GotoWith, container, Idle, Steps
<1> QED BY <1>1, <1>2 DEF Exit

LEMMA ContainerTypes ==
    TypeOK /\ (\/ ContainerStarts \/ DockerStop \/ ContainerDies \/ ReadPidfile
               \/ ServerLost \/ ShutdownEnds)
        => TypeOK'
<1> SUFFICES ASSUME TypeOK PROVE (\/ ContainerStarts \/ DockerStop \/ ContainerDies
                                  \/ ReadPidfile \/ ServerLost \/ ShutdownEnds) => TypeOK'
    OBVIOUS
<1>1. ASSUME ContainerStarts PROVE TypeOK'
    BY <1>1, BootAssumption DEF ContainerStarts, TypeOK, Steps, Idle
<1>2. ASSUME DockerStop PROVE TypeOK'
    BY <1>2 DEF DockerStop, TypeOK, shells, Idle
<1>3. ASSUME ContainerDies PROVE TypeOK'
    BY <1>3, DownTypes DEF ContainerDies, TypeOK
<1>4. ASSUME ReadPidfile PROVE TypeOK'
    BY <1>4, DownTypes DEF ReadPidfile, TypeOK, container, shells, Idle
<1>5. ASSUME ServerLost PROVE TypeOK'
    BY <1>5, DownTypes DEF ServerLost, TypeOK
<1>6. ASSUME ShutdownEnds PROVE TypeOK'
    BY <1>6, DownTypes DEF ShutdownEnds, TypeOK
<1> QED BY <1>1, <1>2, <1>3, <1>4, <1>5, <1>6

ProcessStep(p) ==
    \/ StrangerStarts(p) \/ ProcessEnds(p) \/ ServerListens(p)
    \/ ServerWedges(p) \/ ServerRecovers(p)

LEMMA ProcessTypes ==
    ASSUME TypeOK, NEW p \in Pids, ProcessStep(p)
    PROVE  TypeOK'
<1>1. /\ UNCHANGED <<container, file, shells, pidOne, disturbed>>
      /\ \E k \in {"free", "stranger"} \cup ServerKinds : proc' = [proc EXCEPT ![p] = k]
    BY DEF ProcessStep, StrangerStarts, ProcessEnds, ServerListens, ServerWedges,
           ServerRecovers, ServerKinds
<1>2. up
    BY DEF TypeOK, ProcessStep, StrangerStarts, ProcessEnds, ServerListens, ServerWedges,
           ServerRecovers
<1> QED BY <1>1, <1>2 DEF TypeOK, container, shells, pidOne

LEMMA StartTypes ==
    ASSUME TypeOK, NEW b \in Starters, Begin(b) \/ CutOff(b) \/ Start(b) \/ Deadline(b)
    PROVE  TypeOK'
<1> USE DEF TypeOK, container, shells, pidOne, Steps, Idle, Goto, GotoWith
<1>1. ASSUME Begin(b) PROVE TypeOK'
    BY <1>1 DEF Begin
<1>2. ASSUME CutOff(b) PROVE TypeOK'
    BY <1>2 DEF CutOff
<1>3. ASSUME Check(b) PROVE TypeOK'
    <2>1. pc[b] = "check" /\ pid[b] = NoPid /\ up
        BY <1>3 DEF Check
    <2>2. ASSUME file = NoPid /\ Goto(b, "port") PROVE TypeOK'
        BY <1>3, <2>1, <2>2 DEF Check
    <2>3. ASSUME file /= NoPid, NEW p \in {"probe", "remove"}, GotoWith(b, p, file)
          PROVE  TypeOK'
        <3>1. pid' \in [Starters -> Pids \cup {NoPid}] /\ pc' \in [Starters -> {"idle"} \cup Steps]
            BY <2>3
        <3>2. pc'[b] = p /\ pid'[b] = file
            BY <2>3
        <3>3. \A c \in Starters : c /= b => pc'[c] = pc[c] /\ pid'[c] = pid[c]
            BY <2>3
        <3>4. \A c \in Starters :
                 pc'[c] \in {"probe", "term", "remove", "write", "await"} <=> pid'[c] /= NoPid
            BY <2>3, <3>2, <3>3
        <3>5. UNCHANGED <<compose, up, stopping, proc, file, entry, watched, disturbed>>
            BY <1>3 DEF Check
        <3> QED BY <2>1, <2>3, <3>1, <3>2, <3>3, <3>4, <3>5, BootAssumption
    <2>4. ASSUME file /= NoPid /\ GotoWith(b, "probe", file) PROVE TypeOK'
        BY <2>3, <2>4
    <2>5. ASSUME file /= NoPid /\ GotoWith(b, "remove", file) PROVE TypeOK'
        BY <2>3, <2>5
    <2>6. \/ file = NoPid /\ Goto(b, "port")
          \/ file /= NoPid /\ GotoWith(b, "probe", file)
          \/ file /= NoPid /\ GotoWith(b, "remove", file)
        BY <1>3 DEF Check
    <2> QED BY ONLY <2>2, <2>4, <2>5, <2>6
<1>4. ASSUME Probe(b) PROVE TypeOK'
    <2>1. pc[b] = "probe" /\ pid[b] /= NoPid /\ pc[b] /= "idle"
        BY <1>4 DEF Probe
    <2>2. CASE Exit(b, 0)
        BY <2>1, <2>2, ExitTypes
    <2>3. CASE Goto(b, "term") /\ UNCHANGED <<container, proc, file, pidOne, disturbed>>
        BY <2>1, <2>3
    <2> QED BY <1>4, <2>2, <2>3 DEF Probe
<1>5. ASSUME Terminate(b) PROVE TypeOK'
    <2>1. pc[b] = "term" /\ pid[b] \in Pids /\ up
        BY <1>5 DEF Terminate
    <2>2. proc' \in [Pids -> {"free", "stranger"} \cup ServerKinds]
        BY <1>5, <2>1 DEF Terminate
    <2> QED BY <1>5, <2>1, <2>2 DEF Terminate
<1>6. ASSUME Remove(b) PROVE TypeOK'
    BY <1>6 DEF Remove
<1>7. ASSUME ProbePort(b) PROVE TypeOK'
    <2>1. pc[b] = "port" /\ pc[b] /= "idle"
        BY <1>7 DEF ProbePort
    <2>2. CASE Exit(b, 0)
        BY <2>1, <2>2, ExitTypes
    <2>3. CASE Goto(b, "spawn") /\ UNCHANGED <<container, proc, file, pidOne, disturbed>>
        BY <2>1, <2>3
    <2> QED BY <1>7, <2>2, <2>3 DEF ProbePort
<1>8. ASSUME Spawn(b) PROVE TypeOK'
    BY <1>8, PidAssumption DEF Spawn, ServerKinds
<1>9. ASSUME SpawnFails(b) PROVE TypeOK'
    BY <1>9, ExitTypes DEF SpawnFails
<1>10. ASSUME WritePidfile(b) PROVE TypeOK'
    BY <1>10 DEF WritePidfile
<1>11. ASSUME Await(b) PROVE TypeOK'
    BY <1>11, ExitTypes DEF Await
<1>12. ASSUME Deadline(b) PROVE TypeOK'
    BY <1>12, ExitTypes DEF Deadline
<1> QED BY <1>1, <1>2, <1>3, <1>4, <1>5, <1>6, <1>7, <1>8, <1>9, <1>10, <1>11, <1>12 DEF Start

LEMMA StepTypes == TypeOK /\ [Next]_vars => TypeOK'
<1> SUFFICES ASSUME TypeOK, [Next]_vars PROVE TypeOK'
    OBVIOUS
<1>1. CASE UNCHANGED vars
    BY <1>1 DEF vars, container, shells, pidOne, TypeOK, Idle
<1> QED BY <1>1, ContainerTypes, ProcessTypes, StartTypes DEF Next, ProcessStep

\* Every variable keeps to its type; a shell holds a process number exactly while it needs
\* it; a container that is down has no processes.
THEOREM TypeCorrect == Spec => []TypeOK
<1>1. Init => TypeOK
    BY DEF Init, TypeOK, Idle, Steps
<1> QED BY <1>1, StepTypes, PTL DEF Spec

-----------------------------------------------------------------------------
(* The pidfile and the entrypoint's server_pid are true.                   *)

OneStart == \A b, c \in Starters : pc[b] /= "idle" /\ pc[c] /= "idle" => b = c

\* Here a start has found that there is no server, or has one it has not recorded yet.
Unnamed(b) == pc[b] \in {"port", "spawn", "write", "remove"}

Named ==
    \A p \in Servers :
       \/ file = p /\ \A b \in Starters : ~Unnamed(b)
       \/ \E b \in Starters : pc[b] = "write" /\ pid[b] = p

Meant == \A b \in Starters : pc[b] \in {"probe", "term"} => pid[b] = file

EntryOwn ==
    /\ entry = "read" /\ file /= NoPid => proc[file] /= "stranger"
    /\ entry \in {"watch", "shutdown"} => proc[watched] /= "stranger"

Undisturbed == OneStart /\ Named /\ Meant /\ EntryOwn

Own == \A b \in Starters : pc[b] \in {"write", "await"} => proc[pid[b]] /= "stranger"

IInv == TypeOK /\ Own /\ (~disturbed => Undisturbed)

LEMMA DownKeeps == TypeOK /\ Down => Own' /\ Undisturbed'
<1> SUFFICES ASSUME TypeOK, Down PROVE Own' /\ Undisturbed'
    OBVIOUS
<1>1. (\A b \in Starters : pc'[b] = "idle") /\ (\A p \in Pids : proc'[p] = "free")
    BY DEF Down
<1>2. entry' = "none" /\ Servers' = {}
    BY <1>1 DEF Down, Servers, ServerKinds
<1> QED BY <1>1, <1>2 DEF Own, Undisturbed, OneStart, Named, Meant, EntryOwn

\* What a step of the processes, which the shells and the entrypoint do not see, keeps.
LEMMA ProcessKeeps ==
    ASSUME IInv, NEW p \in Pids, ProcessStep(p)
    PROVE  Own' /\ (~disturbed' => Undisturbed')
<1>1. UNCHANGED <<up, file, pc, pid, entry, watched, disturbed>>
    BY DEF ProcessStep, StrangerStarts, ProcessEnds, ServerListens, ServerWedges,
           ServerRecovers, container, shells, pidOne
<1>2. TypeOK
    BY DEF IInv
<1>3. \A q \in Pids : q /= p => proc'[q] = proc[q]
    BY <1>2 DEF ProcessStep, StrangerStarts, ProcessEnds, ServerListens, ServerWedges,
           ServerRecovers, TypeOK
<1>4. CASE StrangerStarts(p)
    <2>1. proc'[p] = "stranger" /\ Fresh(p)
        BY <1>2, <1>4 DEF StrangerStarts, TypeOK
    <2>2. Servers' \subseteq Servers
        BY <1>3, <2>1 DEF Servers, ServerKinds
    <2>3. Own'
        BY <1>1, <1>2, <1>3, <2>1 DEF IInv, Own, Fresh, TypeOK
    <2>4. EntryOwn => EntryOwn'
        BY <1>1, <1>2, <1>3, <2>1 DEF EntryOwn, Fresh, TypeOK
    <2>5. Named => Named'
        BY <1>1, <2>2 DEF Named, Unnamed
    <2> QED BY <1>1, <2>3, <2>4, <2>5 DEF IInv, Undisturbed, OneStart, Meant
<1>5. CASE ~StrangerStarts(p)
    <2>1. proc'[p] /= "stranger" /\ (proc'[p] \in ServerKinds => proc[p] \in ServerKinds)
        BY <1>2, <1>5 DEF ProcessStep, ProcessEnds, ServerListens, ServerWedges,
                          ServerRecovers, TypeOK, ServerKinds
    <2>2. Servers' \subseteq Servers
        BY <1>3, <2>1 DEF Servers
    <2>3. Own'
        BY <1>1, <1>2, <1>3, <2>1 DEF IInv, Own, TypeOK
    <2>4. EntryOwn => EntryOwn'
        BY <1>1, <1>2, <1>3, <2>1 DEF EntryOwn, TypeOK
    <2>5. Named => Named'
        BY <1>1, <2>2 DEF Named, Unnamed
    <2> QED BY <1>1, <2>3, <2>4, <2>5 DEF IInv, Undisturbed, OneStart, Meant
<1> QED BY <1>4, <1>5

LEMMA ContainerKeeps ==
    ASSUME IInv, \/ ContainerStarts \/ DockerStop \/ ContainerDies \/ ReadPidfile
                 \/ ServerLost \/ ShutdownEnds
    PROVE  Own' /\ (~disturbed' => Undisturbed')
<1>0. TypeOK
    BY DEF IInv
<1>1. CASE Down
    BY <1>0, <1>1, DownKeeps
<1>2. CASE ContainerStarts
    <2>1. (\A b \in Starters : pc[b] = "idle") /\ (\A p \in Pids : proc[p] = "free")
        BY <1>0, <1>2 DEF ContainerStarts, TypeOK, Idle
    <2>2. (\A b \in Starters : b /= Boot => pc'[b] = "idle") /\ pc'[Boot] = "check"
        BY <1>0, <1>2, <2>1, BootAssumption DEF ContainerStarts, TypeOK
    <2>3. Servers' = {} /\ entry' \in {"script", "none"}
        BY <1>2, <2>1 DEF ContainerStarts, Servers, ServerKinds
    <2>4. OneStart' /\ Meant' /\ Own'
        BY <2>2 DEF OneStart, Meant, Own
    <2> QED BY <2>3, <2>4 DEF Undisturbed, Named, EntryOwn
<1>3. CASE DockerStop
    BY <1>3 DEF DockerStop, IInv, Own, Undisturbed, OneStart, Named, Unnamed, Meant, EntryOwn,
                Servers, shells
<1>4. CASE ReadPidfile /\ ~Down
    <2>1. /\ entry = "read" /\ file /= NoPid /\ entry' = "watch" /\ watched' = file
          /\ UNCHANGED <<proc, file, pc, pid, disturbed>>
        BY <1>4 DEF ReadPidfile, shells
    <2> QED BY <2>1 DEF IInv, Own, Undisturbed, OneStart, Named, Unnamed, Meant, EntryOwn,
                        Servers
<1> QED BY <1>1, <1>2, <1>3, <1>4 DEF ContainerDies, ServerLost, ShutdownEnds

\* While a start is where it must have found no server there is none.
LEMMA NoServer ==
    ASSUME Undisturbed, NEW b \in Starters, pc[b] \in {"port", "spawn", "remove"}
    PROVE  Servers = {}
BY DEF Undisturbed, OneStart, Named, Unnamed

\* Nor anywhere else but in the pidfile, unless the start has one still to record.
LEMMA ServerInFile ==
    ASSUME Undisturbed, NEW b \in Starters, pc[b] \notin {"idle", "write"}
    PROVE  Servers \subseteq {file}
BY DEF Undisturbed, OneStart, Named

LEMMA ExitKeeps ==
    ASSUME IInv, NEW b \in Starters, NEW code \in {0, 1}, Exit(b, code),
           pc[b] \notin {"idle", "write"},
           code = 0 => Serving,
           code = 1 => pc[b] \in {"spawn", "await"}
    PROVE  Own' /\ (~disturbed' => Undisturbed')
<1>0. TypeOK
    BY DEF IInv
<1>1. CASE Down
    BY <1>0, <1>1, DownKeeps
<1>2. CASE ~Down
    <2>1. /\ GotoWith(b, "idle", NoPid)
          /\ entry' = IF b = Boot /\ entry = "script" THEN "read" ELSE entry
          /\ UNCHANGED <<container, proc, file, watched, disturbed>>
          /\ entry' /= entry => code = 0
        BY <1>2 DEF Exit
    <2>2. pc'[b] = "idle" /\ \A c \in Starters : c /= b => pc'[c] = pc[c] /\ pid'[c] = pid[c]
        BY <1>0, <2>1 DEF GotoWith, TypeOK
    <2>3. Own'
        BY <2>1, <2>2 DEF IInv, Own
    <2>4. ASSUME ~disturbed' PROVE Undisturbed'
        <3>1. Undisturbed
            BY <2>1, <2>4 DEF IInv
        <3>2. OneStart' /\ Meant'
            BY <2>1, <2>2, <3>1 DEF Undisturbed, OneStart, Meant
        <3>3. Servers' = Servers /\ Servers \subseteq {file}
            BY <2>1, <3>1, ServerInFile DEF Servers
        <3>4. \A c \in Starters : pc'[c] = "idle"
            BY <2>2, <3>1 DEF Undisturbed, OneStart
        <3>5. Named'
            BY <2>1, <3>3, <3>4 DEF Named, Unnamed
        <3>6. EntryOwn'
            <4>1. CASE entry' = entry
                BY <2>1, <3>1, <4>1 DEF Undisturbed, EntryOwn
            <4>2. CASE entry' /= entry
                <5>1. Serving
                    BY <2>1, <4>2
                <5>2. file \in Servers
                    BY <3>3, <5>1 DEF Serving, Servers, ServerKinds
                <5> QED BY <2>1, <4>2, <5>2 DEF EntryOwn, Servers, ServerKinds
            <4> QED BY <4>1, <4>2
        <3> QED BY <3>2, <3>5, <3>6 DEF Undisturbed
    <2> QED BY <2>3, <2>4
<1> QED BY <1>1, <1>2

\* A step of a start that changes neither proc nor entry and takes nobody's number.
LEMMA QuietKeeps ==
    ASSUME IInv, NEW b \in Starters,
           UNCHANGED <<proc, entry, watched, disturbed>>,
           \A c \in Starters : c /= b => pc'[c] = pc[c] /\ pid'[c] = pid[c],
           pc[b] /= "idle", pc'[b] \in Steps, pc[b] /= "write", pc'[b] \notin {"write", "await"},
           file' = file,
           pc'[b] \in {"probe", "term"} => pid'[b] = file,
           ~disturbed /\ pc'[b] \in {"port", "spawn", "remove"} => Servers = {}
    PROVE  Own' /\ (~disturbed' => Undisturbed')
<1>1. Own'
    BY DEF IInv, Own
<1>2. ASSUME ~disturbed PROVE OneStart' /\ Meant' /\ EntryOwn'
    BY <1>2 DEF IInv, Undisturbed, OneStart, Meant, EntryOwn
<1>3. ASSUME ~disturbed PROVE Named'
    <2>1. Servers' = Servers /\ Servers \subseteq {file} /\ Undisturbed
        BY <1>3, ServerInFile DEF IInv, Servers, Steps
    <2>2. \A c \in Starters : c /= b => pc'[c] = "idle"
        BY <2>1 DEF Undisturbed, OneStart
    <2>3. Servers /= {} => pc'[b] \notin {"port", "spawn", "remove", "write"}
        BY <1>3
    <2> QED BY <2>1, <2>2, <2>3 DEF Named, Unnamed
<1> QED BY <1>1, <1>2, <1>3 DEF Undisturbed

LEMMA StartKeeps ==
    ASSUME IInv, NEW b \in Starters, Begin(b) \/ CutOff(b) \/ Start(b) \/ Deadline(b)
    PROVE  Own' /\ (~disturbed' => Undisturbed')
<1>0. TypeOK
    BY DEF IInv
<1> USE DEF container, shells, pidOne, Goto, GotoWith
<1>1. ASSUME Begin(b) PROVE Own' /\ (~disturbed' => Undisturbed')
    <2>1. /\ UNCHANGED <<proc, file, pid, entry, watched>>
          /\ pc'[b] = "check" /\ \A c \in Starters : c /= b => pc'[c] = pc[c]
          /\ ~disturbed' => ~disturbed /\ Idle
        BY <1>0, <1>1 DEF Begin, TypeOK
    <2>2. Own'
        BY <2>1 DEF IInv, Own
    <2>3. ASSUME ~disturbed' PROVE Undisturbed'
        <3>1. Undisturbed /\ \A c \in Starters : pc[c] = "idle"
            BY <2>1, <2>3 DEF IInv, Idle
        <3> QED BY <2>1, <3>1 DEF Undisturbed, OneStart, Named, Unnamed, Meant, EntryOwn,
                                  Servers
    <2> QED BY <2>2, <2>3
<1>2. ASSUME CutOff(b) PROVE Own' /\ (~disturbed' => Undisturbed')
    <2>1. /\ UNCHANGED <<proc, file, entry, watched>>
          /\ pc'[b] = "idle" /\ pc[b] /= "idle"
          /\ \A c \in Starters : c /= b => pc'[c] = pc[c] /\ pid'[c] = pid[c]
          /\ ~disturbed' => ~disturbed /\ pc[b] /= "write"
        BY <1>0, <1>2 DEF CutOff, TypeOK
    <2>2. Own'
        BY <2>1 DEF IInv, Own
    <2>3. ASSUME ~disturbed' PROVE Undisturbed'
        <3>1. Undisturbed
            BY <2>1, <2>3 DEF IInv
        <3>2. \A c \in Starters : pc'[c] = "idle"
            BY <2>1, <3>1 DEF Undisturbed, OneStart
        <3>3. Servers' = Servers /\ Servers \subseteq {file}
            BY <2>1, <2>3, <3>1, ServerInFile DEF Servers
        <3> QED BY <2>1, <3>1, <3>2, <3>3 DEF Undisturbed, OneStart, Named, Unnamed, Meant,
                                              EntryOwn
    <2> QED BY <2>2, <2>3
<1>3. ASSUME Check(b) PROVE Own' /\ (~disturbed' => Undisturbed')
    <2>1. /\ UNCHANGED <<proc, file, entry, watched, disturbed>> /\ pc[b] = "check"
          /\ \A c \in Starters : c /= b => pc'[c] = pc[c] /\ pid'[c] = pid[c]
          /\ \/ file = NoPid /\ pc'[b] = "port"
             \/ pc'[b] = "probe" /\ pid'[b] = file
             \/ pc'[b] = "remove" /\ file /= NoPid /\ proc[file] \in {"free", "stranger"}
        BY <1>0, <1>3 DEF Check, TypeOK
    <2>2. ASSUME ~disturbed, pc'[b] \in {"port", "remove"} PROVE Servers = {}
        <3>1. Servers \subseteq {file}
            BY <2>1, <2>2, ServerInFile DEF IInv
        <3> QED BY <2>1, <2>2, <3>1, PidAssumption DEF Servers, ServerKinds
    <2> QED BY <2>1, <2>2, QuietKeeps DEF Steps
<1>4. ASSUME Probe(b) PROVE Own' /\ (~disturbed' => Undisturbed')
    <2>1. CASE Serving
        BY <1>4, <2>1, ExitKeeps DEF Probe
    <2>2. CASE ~Serving
        <3>1. /\ UNCHANGED <<proc, file, pid, entry, watched, disturbed>> /\ pc[b] = "probe"
              /\ pc'[b] = "term" /\ \A c \in Starters : c /= b => pc'[c] = pc[c]
            BY <1>0, <1>4, <2>2 DEF Probe, TypeOK
        <3>2. ~disturbed => pid[b] = file
            BY <3>1 DEF IInv, Undisturbed, Meant
        <3>3. Own'
            BY <3>1 DEF IInv, Own
        <3> QED BY <3>1, <3>2, <3>3 DEF IInv, Undisturbed, OneStart, Named, Unnamed, Meant,
                                        EntryOwn, Servers
    <2> QED BY <2>1, <2>2
<1>5. ASSUME Terminate(b) PROVE Own' /\ (~disturbed' => Undisturbed')
    <2>1. /\ UNCHANGED <<file, pid, entry, watched, disturbed>> /\ pc[b] = "term"
          /\ pc'[b] = "remove" /\ \A c \in Starters : c /= b => pc'[c] = pc[c]
          /\ pid[b] \in Pids /\ proc'[pid[b]] = "free"
          /\ \A p \in Pids : p /= pid[b] => proc'[p] = proc[p]
        BY <1>0, <1>5 DEF Terminate, TypeOK
    <2>2. \A p \in Pids \cup {NoPid} : proc'[p] = "stranger" => proc[p] = "stranger"
        BY <1>0, <1>5 DEF Terminate, TypeOK
    <2>3. Own'
        BY <1>0, <2>1, <2>2 DEF IInv, Own, TypeOK
    <2>4. ASSUME ~disturbed' PROVE Undisturbed'
        <3>1. Undisturbed /\ pid[b] = file /\ Servers \subseteq {file}
            BY <2>1, <2>4, ServerInFile DEF IInv, Undisturbed, Meant
        <3>2. Servers' = {}
            BY <2>1, <3>1 DEF Servers, ServerKinds
        <3>3. EntryOwn'
            BY <1>0, <2>1, <2>2, <3>1 DEF Undisturbed, EntryOwn, TypeOK
        <3> QED BY <2>1, <3>1, <3>2, <3>3 DEF Undisturbed, OneStart, Named, Meant
    <2> QED BY <2>3, <2>4
<1>6. ASSUME Remove(b) PROVE Own' /\ (~disturbed' => Undisturbed')
    <2>1. /\ UNCHANGED <<proc, entry, watched, disturbed>> /\ pc[b] = "remove"
          /\ file' = NoPid /\ pc'[b] = "port"
          /\ \A c \in Starters : c /= b => pc'[c] = pc[c] /\ pid'[c] = pid[c]
        BY <1>0, <1>6 DEF Remove, TypeOK
    <2>2. Own'
        BY <2>1 DEF IInv, Own
    <2>3. ASSUME ~disturbed' PROVE Undisturbed'
        <3>1. Undisturbed /\ Servers' = {}
            BY <2>1, <2>3, NoServer DEF IInv, Servers
        <3> QED BY <2>1, <3>1 DEF Undisturbed, OneStart, Named, Meant, EntryOwn
    <2> QED BY <2>2, <2>3
<1>7. ASSUME ProbePort(b) PROVE Own' /\ (~disturbed' => Undisturbed')
    <2>1. CASE Serving
        BY <1>7, <2>1, ExitKeeps DEF ProbePort
    <2>2. CASE ~Serving
        <3>1. /\ UNCHANGED <<proc, file, pid, entry, watched, disturbed>> /\ pc[b] = "port"
              /\ pc'[b] = "spawn" /\ \A c \in Starters : c /= b => pc'[c] = pc[c]
            BY <1>0, <1>7, <2>2 DEF ProbePort, TypeOK
        <3>2. ~disturbed => Servers = {}
            BY <3>1, NoServer DEF IInv
        <3> QED BY <3>1, <3>2, QuietKeeps DEF Steps
    <2> QED BY <2>1, <2>2
<1>8. ASSUME Spawn(b) PROVE Own' /\ (~disturbed' => Undisturbed')
    <2>1. PICK p \in Pids : /\ Fresh(p)
                            /\ proc' = [proc EXCEPT ![p] = "starting"]
                            /\ GotoWith(b, "write", p)
        BY <1>8 DEF Spawn
    <2>2. /\ UNCHANGED <<file, entry, watched, disturbed>> /\ pc[b] = "spawn"
          /\ pc'[b] = "write" /\ pid'[b] = p /\ proc'[p] = "starting"
          /\ \A c \in Starters : c /= b => pc'[c] = pc[c] /\ pid'[c] = pid[c]
          /\ \A q \in Pids : q /= p => proc'[q] = proc[q]
        BY <1>0, <1>8, <2>1 DEF Spawn, TypeOK
    <2>3. \A q \in Pids \cup {NoPid} : proc'[q] = "stranger" => proc[q] = "stranger"
        BY <1>0, <2>1 DEF TypeOK
    <2>4. Own'
        BY <1>0, <2>2, <2>3 DEF IInv, Own, TypeOK
    <2>5. ASSUME ~disturbed' PROVE Undisturbed'
        <3>1. Undisturbed /\ Servers = {}
            BY <2>2, <2>5, NoServer DEF IInv
        <3>2. Servers' \subseteq {p}
            BY <2>2, <3>1 DEF Servers
        <3>3. EntryOwn'
            BY <1>0, <2>2, <2>3, <3>1 DEF Undisturbed, EntryOwn, TypeOK
        <3> QED BY <2>2, <3>1, <3>2, <3>3 DEF Undisturbed, OneStart, Named, Meant
    <2> QED BY <2>4, <2>5
<1>9. ASSUME SpawnFails(b) PROVE Own' /\ (~disturbed' => Undisturbed')
    BY <1>9, ExitKeeps DEF SpawnFails
<1>10. ASSUME WritePidfile(b) PROVE Own' /\ (~disturbed' => Undisturbed')
    <2>1. /\ UNCHANGED <<proc, pid, entry, watched, disturbed>> /\ pc[b] = "write"
          /\ file' = pid[b] /\ pc'[b] = "await" /\ \A c \in Starters : c /= b => pc'[c] = pc[c]
        BY <1>0, <1>10 DEF WritePidfile, TypeOK
    <2>2. Own' /\ proc[pid[b]] /= "stranger"
        BY <2>1 DEF IInv, Own
    <2>3. ASSUME ~disturbed' PROVE Undisturbed'
        <3>1. Undisturbed /\ \A c \in Starters : c /= b => pc'[c] = "idle"
            BY <2>1, <2>3 DEF IInv, Undisturbed, OneStart
        <3>2. Servers' \subseteq {pid[b]}
            BY <2>1, <3>1 DEF Undisturbed, Named, Unnamed, OneStart, Servers
        <3> QED BY <2>1, <2>2, <3>1, <3>2 DEF Undisturbed, OneStart, Named, Unnamed, Meant,
                                              EntryOwn
    <2> QED BY <2>2, <2>3
<1>11. ASSUME Await(b) PROVE Own' /\ (~disturbed' => Undisturbed')
    BY <1>11, ExitKeeps DEF Await
<1>12. ASSUME Deadline(b) PROVE Own' /\ (~disturbed' => Undisturbed')
    BY <1>12, ExitKeeps DEF Deadline
<1> QED BY <1>1, <1>2, <1>3, <1>4, <1>5, <1>6, <1>7, <1>8, <1>9, <1>10, <1>11, <1>12 DEF Start

LEMMA IInvHolds == Spec => []IInv
<1>1. Init => IInv
    <2> SUFFICES ASSUME Init PROVE IInv
        OBVIOUS
    <2>1. TypeOK
        BY DEF Init, TypeOK, Idle, Steps
    <2> QED BY <2>1 DEF Init, IInv, Own, Undisturbed, OneStart, Named, Meant, EntryOwn,
                        Servers, ServerKinds
<1>2. IInv /\ [Next]_vars => IInv'
    <2> SUFFICES ASSUME IInv, [Next]_vars PROVE IInv'
        OBVIOUS
    <2>1. TypeOK'
        BY StepTypes DEF IInv
    <2>2. CASE UNCHANGED vars
        BY <2>1, <2>2 DEF vars, container, shells, pidOne, IInv, Own, Undisturbed, OneStart,
                          Named, Unnamed, Meant, EntryOwn, Servers
    <2>3. CASE Next
        BY <2>1, <2>3, ContainerKeeps, ProcessKeeps, StartKeeps DEF Next, ProcessStep, IInv
    <2> QED BY <2>2, <2>3
<1> QED BY <1>1, <1>2, PTL DEF Spec

\* Between starts that did not overlap, no server process is other than the one the
\* pidfile names.
THEOREM PidfileIsTrue == Spec => []PidfileNamesServer
<1>1. IInv => PidfileNamesServer
    BY DEF IInv, TypeOK, Idle, PidfileNamesServer, Undisturbed, Named
<1> QED BY <1>1, IInvHolds, PTL

\* The entrypoint watches, and shuts down, the server or a process number that is free,
\* never a process that took the number over.
THEOREM EntryHoldsServer == Spec => []EntryWatchesServer
<1>1. IInv => EntryWatchesServer
    BY DEF IInv, EntryWatchesServer, Undisturbed, EntryOwn
<1> QED BY <1>1, IInvHolds, PTL

-----------------------------------------------------------------------------
(* Starts end.                                                             *)

\* How many steps a start of the server has before it, at most: the script never goes
\* back, whatever the other starts, the processes and the container do meanwhile.
Stage == [idle |-> 0, await |-> 1, write |-> 2, spawn |-> 3, port |-> 4, remove |-> 5,
          term |-> 6, probe |-> 7, check |-> 8]
Left(b) == Stage[pc[b]]

\* Where the script of b can always go on: it is at a step, and no server keeps the port
\* without answering.  Each step has a disjunct of Start for each outcome of what it reads.
StartMayStep(b) == pc[b] /= "idle" /\ ~Wedged

\* Weak fairness of the script, as FairSpec has it, with that guard for its ENABLED.
StartRuns(b) == []<>~StartMayStep(b) \/ []<><<Start(b) \/ Deadline(b)>>_vars

\* start-opencode-server.sh is a straight line: between its beginning and its end a start
\* goes from each step to a later one only, and nothing the other starts, the server or the
\* container do sends it back.
StartsOnlyAdvance ==
    [][\A b \in Starters : pc[b] /= "idle" => pc'[b] = pc[b] \/ Left(b)' < Left(b)]_vars

LEMMA LeftFacts ==
    ASSUME TypeOK, NEW b \in Starters
    PROVE  Left(b) \in 0 .. 8 /\ (Left(b) = 0 <=> pc[b] = "idle")
BY DEF TypeOK, Steps, Left, Stage

LEMMA LeftFactsNext ==
    ASSUME TypeOK, [Next]_vars, NEW b \in Starters
    PROVE  Left(b)' \in 0 .. 8 /\ (Left(b)' = 0 <=> pc'[b] = "idle")
BY StepTypes DEF TypeOK, Steps, Left, Stage

LEMMA StartLowers ==
    ASSUME TypeOK, NEW b \in Starters, pc[b] /= "idle", Start(b) \/ Deadline(b)
    PROVE  pc'[b] \in {"idle"} \cup Steps /\ Left(b)' < Left(b)
<1>1. ASSUME NEW c, Exit(b, c) PROVE pc'[b] = "idle"
    BY <1>1 DEF Exit, Down, GotoWith, TypeOK
<1>2. ASSUME NEW p, Goto(b, p) \/ \E n : GotoWith(b, p, n) PROVE pc'[b] = p
    BY <1>2 DEF Goto, GotoWith, TypeOK
<1>3. CASE Check(b) \/ Terminate(b) \/ Remove(b) \/ Spawn(b) \/ WritePidfile(b)
    BY <1>2, <1>3 DEF Check, Terminate, Remove, Spawn, WritePidfile, Left, Stage, Steps
<1>4. CASE Probe(b) \/ ProbePort(b)
    BY <1>1, <1>2, <1>4 DEF Probe, ProbePort, Left, Stage, Steps
<1>5. CASE SpawnFails(b) \/ Await(b) \/ Deadline(b)
    BY <1>1, <1>5 DEF SpawnFails, Await, Deadline, Left, Stage, Steps
<1> QED BY <1>3, <1>4, <1>5 DEF Start

LEMMA NothingRaises ==
    ASSUME TypeOK, [Next]_vars, NEW b \in Starters, pc[b] /= "idle"
    PROVE  pc'[b] = pc[b] \/ Left(b)' < Left(b)
<1>0. Left(b) > 0
    BY LeftFacts
<1>1. CASE Start(b) \/ Deadline(b)
    BY <1>1, StartLowers
<1>2. CASE pc'[b] = "idle"
    BY <1>0, <1>2 DEF Left, Stage
<1>3. ASSUME NEW c \in Starters, c /= b, Start(c) \/ Deadline(c)
      PROVE  pc'[b] \in {pc[b], "idle"}
    BY <1>3 DEF Start, Check, Probe, Terminate, Remove, ProbePort, Spawn, SpawnFails,
                WritePidfile, Await, Deadline, Exit, Down, Goto, GotoWith, TypeOK
<1>4. ASSUME NEW c \in Starters, Begin(c) \/ CutOff(c)
      PROVE  pc'[b] \in {pc[b], "idle"}
    BY <1>4 DEF Begin, CutOff, Goto, GotoWith, TypeOK
<1>5. ASSUME NEW p \in Pids, ProcessStep(p)
      PROVE  pc'[b] = pc[b]
    BY <1>5 DEF ProcessStep, StrangerStarts, ProcessEnds, ServerListens, ServerWedges,
                ServerRecovers, shells
<1>6. CASE \/ ContainerStarts \/ DockerStop \/ ContainerDies \/ ReadPidfile \/ ServerLost
           \/ ShutdownEnds \/ UNCHANGED vars
    <2>1. ~ContainerStarts
        BY DEF ContainerStarts, TypeOK, Idle
    <2>2. Down => pc'[b] = "idle"
        BY DEF Down
    <2>3. pc' = pc \/ Down
        BY <1>6, <2>1 DEF DockerStop, ContainerDies, ReadPidfile, ServerLost, ShutdownEnds,
                          shells, vars
    <2> QED BY <1>2, <2>2, <2>3
<1> QED BY <1>1, <1>2, <1>3, <1>4, <1>5, <1>6 DEF Next, ProcessStep

\* A start never goes back to a step of the script it has left.
THEOREM StartsAdvance == Spec => StartsOnlyAdvance
<1>1. TypeOK /\ [Next]_vars
        => [\A b \in Starters : pc[b] /= "idle" => pc'[b] = pc[b] \/ Left(b)' < Left(b)]_vars
    BY NothingRaises
<1> QED BY <1>1, TypeCorrect, PTL DEF Spec, StartsOnlyAdvance

\* At most n steps, and at least one, are left.
Within(b, n) == Left(b) \in 1 .. n

LEMMA StartEndsFor ==
    ASSUME NEW b \in Starters
    PROVE  Spec /\ StartRuns(b) => (<>[]~Wedged => (pc[b] /= "idle" ~> pc[b] = "idle"))
<1>1. ASSUME TypeOK, [Next]_vars, NEW n \in 1 .. 8, Within(b, n)
      PROVE  Within(b, n)' \/ (pc[b] = "idle")'
    <2>1. Left(b) \in 1 .. n /\ pc[b] /= "idle"
        BY <1>1, LeftFacts DEF Within
    <2>2. Left(b)' = Left(b) \/ Left(b)' < Left(b)
        BY <1>1, <2>1, NothingRaises DEF Left
    <2>3. Left(b)' \in 0 .. 8 /\ (Left(b)' = 0 <=> pc'[b] = "idle")
        BY <1>1, LeftFactsNext
    <2> QED BY <2>1, <2>2, <2>3 DEF Within
<1>2. ASSUME TypeOK, <<Start(b) \/ Deadline(b)>>_vars, NEW n \in 1 .. 8, Within(b, n)
      PROVE  Within(b, n - 1)' \/ (pc[b] = "idle")'
    <2>1. Left(b) \in 1 .. n /\ pc[b] /= "idle" /\ [Next]_vars
        BY <1>2, LeftFacts DEF Within, Next
    <2>2. Left(b)' < Left(b)
        BY <1>2, <2>1, StartLowers
    <2>3. Left(b)' \in 0 .. 8 /\ (Left(b)' = 0 <=> pc'[b] = "idle")
        BY <1>2, <2>1, LeftFactsNext
    <2> QED BY <2>1, <2>2, <2>3 DEF Within
<1>3. TypeOK /\ [Next]_vars =>
         /\ Within(b, 1) => Within(b, 1)' \/ (pc[b] = "idle")'
         /\ Within(b, 2) => Within(b, 2)' \/ (pc[b] = "idle")'
         /\ Within(b, 3) => Within(b, 3)' \/ (pc[b] = "idle")'
         /\ Within(b, 4) => Within(b, 4)' \/ (pc[b] = "idle")'
         /\ Within(b, 5) => Within(b, 5)' \/ (pc[b] = "idle")'
         /\ Within(b, 6) => Within(b, 6)' \/ (pc[b] = "idle")'
         /\ Within(b, 7) => Within(b, 7)' \/ (pc[b] = "idle")'
         /\ Within(b, 8) => Within(b, 8)' \/ (pc[b] = "idle")'
    BY <1>1
<1>4. TypeOK /\ <<Start(b) \/ Deadline(b)>>_vars =>
         /\ Within(b, 1) => (pc[b] = "idle")'
         /\ Within(b, 2) => Within(b, 1)' \/ (pc[b] = "idle")'
         /\ Within(b, 3) => Within(b, 2)' \/ (pc[b] = "idle")'
         /\ Within(b, 4) => Within(b, 3)' \/ (pc[b] = "idle")'
         /\ Within(b, 5) => Within(b, 4)' \/ (pc[b] = "idle")'
         /\ Within(b, 6) => Within(b, 5)' \/ (pc[b] = "idle")'
         /\ Within(b, 7) => Within(b, 6)' \/ (pc[b] = "idle")'
         /\ Within(b, 8) => Within(b, 7)' \/ (pc[b] = "idle")'
    <2>1. ~Within(b, 0)'
        BY DEF Within
    <2>2. /\ 8 - 1 = 7 /\ 7 - 1 = 6 /\ 6 - 1 = 5 /\ 5 - 1 = 4
          /\ 4 - 1 = 3 /\ 3 - 1 = 2 /\ 2 - 1 = 1 /\ 1 - 1 = 0
        OBVIOUS
    <2> QED BY <1>2, <2>1, <2>2
<1>5. TypeOK /\ pc[b] /= "idle" => Within(b, 8)
    BY LeftFacts DEF Within
<1>6. TypeOK /\ ~Wedged => StartMayStep(b) \/ pc[b] = "idle"
    BY DEF StartMayStep
<1> QED BY <1>3, <1>4, <1>5, <1>6, TypeCorrect, PTL DEF Spec, StartRuns

\* Every start of the server ends, with the server up or a failure, for any number of
\* shells at it and of process numbers: each of its steps lowers Left, and no step of
\* anybody else raises it.
THEOREM StartsEnd == Spec /\ (\A b \in Starters : StartRuns(b)) => StartEnds
<1>1. ASSUME NEW b \in Starters
      PROVE  Spec /\ StartRuns(b) => (<>[]~Wedged => (pc[b] /= "idle" ~> pc[b] = "idle"))
    BY StartEndsFor
<1> QED BY <1>1 DEF StartEnds

-----------------------------------------------------------------------------
(* The deployment recovers.                                                *)

\* There is at most one stranger, and PID 1 shuts its server down only for docker stop.
BootInv ==
    /\ \A p, q \in Pids : proc[p] = "stranger" /\ proc[q] = "stranger" => p = q
    /\ entry = "shutdown" => stopping

LEMMA BootStep == IInv /\ BootInv /\ [Next]_vars => BootInv'
<1> SUFFICES ASSUME IInv, BootInv, [Next]_vars PROVE BootInv'
    OBVIOUS
<1>0. TypeOK
    BY DEF IInv
<1>1. CASE Down
    BY <1>1 DEF Down, BootInv
<1>2. ASSUME ~Down, NEW b \in Starters, Start(b) \/ Deadline(b) \/ Begin(b) \/ CutOff(b)
      PROVE  BootInv'
    <2>1. \A p \in Pids : proc'[p] = "stranger" => proc[p] = "stranger"
        BY <1>0, <1>2 DEF Start, Check, Probe, Terminate, Remove, ProbePort, Spawn, SpawnFails,
                WritePidfile, Await, Deadline, Begin, CutOff, Exit, TypeOK
    <2>2. stopping' = stopping /\ (entry' = entry \/ entry' = "read")
        BY <1>2 DEF Start, Check, Probe, Terminate, Remove, ProbePort, Spawn, SpawnFails,
                WritePidfile, Await, Deadline, Begin, CutOff, Exit, container, pidOne
    <2> QED BY <2>1, <2>2 DEF BootInv
<1>3. ASSUME NEW p \in Pids, ProcessStep(p) PROVE BootInv'
    <2>1. /\ entry' = entry /\ stopping' = stopping
          /\ \A q \in Pids : q /= p => proc'[q] = proc[q]
        BY <1>0, <1>3 DEF ProcessStep, StrangerStarts, ProcessEnds, ServerListens, ServerWedges,
                ServerRecovers, container, pidOne, TypeOK
    <2>2. proc'[p] = "stranger" => \A q \in Pids : proc[q] /= "stranger"
        BY <1>0, <1>3 DEF ProcessStep, StrangerStarts, ProcessEnds, ServerListens, ServerWedges,
                ServerRecovers, TypeOK
    <2> QED BY <2>1, <2>2 DEF BootInv
<1>4. CASE ~Down /\ (\/ ContainerStarts \/ DockerStop \/ ContainerDies \/ ReadPidfile
                     \/ ServerLost \/ ShutdownEnds \/ UNCHANGED vars)
    BY <1>4 DEF ContainerStarts, DockerStop, ContainerDies, ReadPidfile, ServerLost,
                ShutdownEnds, vars, container, pidOne, BootInv
<1> QED BY <1>1, <1>2, <1>3, <1>4 DEF Next, ProcessStep

LEMMA BootAlways == Spec => [](IInv /\ BootInv)
<1>1. Init => BootInv
    BY DEF Init, BootInv
<1> QED BY <1>1, BootStep, IInvHolds, PTL DEF Spec

\* The premises of Recovers on a state.
Quiet == compose /\ ~stopping /\ ~Wedged /\ ~disturbed

\* The start of a container that had been down: it finds no server, and starts its own.
CleanStart ==
    /\ entry = "script"
    /\ Servers = IF pc[Boot] \in {"write", "await"} THEN {pid[Boot]} ELSE {}
    /\ pc[Boot] = "await" => file = pid[Boot]

\* It has succeeded; and the entrypoint watches its server.
CleanRead == entry = "read" /\ file \in Pids /\ proc[file] = "serving" /\ Idle
Watches   == entry = "watch" /\ proc[watched] = "serving"
Lost      == entry = "watch" /\ proc[watched] = "free"

\* A container that runs the script has no other step of a shell than of that one.
LEMMA CalmScript ==
    ASSUME IInv, ~disturbed, entry = "script", Calm
    PROVE  \/ Start(Boot)
           \/ \E p \in Pids : ServerListens(p) \/ StrangerStarts(p)
<1>1. up /\ pc[Boot] /= "idle" /\ OneStart
    BY DEF IInv, TypeOK, Undisturbed
<1>2. ASSUME NEW b \in Starters, Start(b) PROVE b = Boot
    <2>1. pc[b] /= "idle"
        BY <1>2 DEF Start, Check, Probe, Terminate, Remove, ProbePort, Spawn, SpawnFails,
                WritePidfile, Await
    <2> QED BY <1>1, <2>1, BootAssumption DEF OneStart
<1> QED BY <1>1, <1>2 DEF Calm, ContainerStarts, ReadPidfile, ServerLost

LEMMA ScriptStep ==
    ASSUME IInv, BootInv, Quiet, Quiet', Calm, entry = "script"
    PROVE  entry' \in {"script", "read"} \/ ~up'
<1>1. CASE Start(Boot)
    BY <1>1 DEF Start, Check, Probe, Terminate, Remove, ProbePort, Spawn, SpawnFails,
                WritePidfile, Await, Exit, Down, pidOne
<1>2. ASSUME NEW p \in Pids, ServerListens(p) \/ StrangerStarts(p) PROVE entry' = entry
    BY <1>2 DEF ServerListens, StrangerStarts, pidOne
<1> QED BY <1>1, <1>2, CalmScript DEF Quiet

LEMMA CleanStep ==
    ASSUME IInv, BootInv, Quiet, Quiet', Calm, CleanStart, \E p, q \in Pids : p /= q
    PROVE  CleanStart' \/ CleanRead'
<1>0. TypeOK /\ entry = "script" /\ up /\ Boot \in Starters
    BY BootAssumption DEF IInv, TypeOK, CleanStart
<1>1. \A p \in Pids : proc[p] \in {"starting", "serving"} <=> p \in Servers
    BY DEF Servers, ServerKinds, Quiet, Wedged
<1>2. ASSUME NEW p \in Pids, ServerListens(p) PROVE CleanStart'
    <2>1. Servers = {p} /\ ~PortTaken
        BY <1>1, <1>2 DEF CleanStart, ServerListens, PortTaken, Serving, Quiet, Servers, ServerKinds
    <2>2. proc' = [proc EXCEPT ![p] = "serving"] /\ UNCHANGED <<file, pc, pid, entry>>
        BY <1>2, <2>1 DEF ServerListens, shells, pidOne
    <2>3. Servers' = Servers
        BY <1>0, <2>1, <2>2 DEF Servers, ServerKinds, TypeOK
    <2> QED BY <2>2, <2>3 DEF CleanStart
<1>3. ASSUME NEW p \in Pids, StrangerStarts(p) PROVE CleanStart'
    <2>1. /\ proc' = [proc EXCEPT ![p] = "stranger"] /\ UNCHANGED <<file, pc, pid, entry>>
          /\ proc[p] = "free"
        BY <1>3 DEF StrangerStarts, Fresh, shells, pidOne
    <2>2. Servers' = Servers
        BY <1>0, <2>1 DEF Servers, ServerKinds, TypeOK
    <2> QED BY <2>1, <2>2 DEF CleanStart
<1>4. ASSUME Servers = {} PROVE ~Serving
    BY <1>4 DEF Servers, ServerKinds, Serving
<1>5. CASE Check(Boot)
    <2>1. /\ \E x \in {"port", "probe", "remove"} : pc' = [pc EXCEPT ![Boot] = x]
          /\ proc' = proc /\ entry' = entry /\ pc[Boot] = "check"
        BY <1>5 DEF Check, Goto, GotoWith, pidOne
    <2> QED BY <1>0, <2>1 DEF CleanStart, Servers, TypeOK
<1>6. CASE Probe(Boot)
    <2>1. Servers = {} /\ pc[Boot] = "probe"
        BY <1>6 DEF Probe, CleanStart
    <2>2. pc' = [pc EXCEPT ![Boot] = "term"] /\ proc' = proc /\ entry' = entry
        BY <1>4, <1>6, <2>1 DEF Probe, Goto, pidOne
    <2> QED BY <1>0, <2>1, <2>2 DEF CleanStart, Servers, TypeOK
<1>7. CASE Terminate(Boot)
    <2>1. /\ Servers = {} /\ pc' = [pc EXCEPT ![Boot] = "remove"] /\ entry' = entry
          /\ proc' = [proc EXCEPT ![pid[Boot]] = "free"]
        BY <1>7 DEF Terminate, Goto, CleanStart, pidOne
    <2>2. Servers' = {}
        BY <1>0, <2>1 DEF Servers, ServerKinds, TypeOK
    <2> QED BY <1>0, <2>1, <2>2 DEF CleanStart, TypeOK
<1>8. CASE Remove(Boot)
    <2>1. /\ Servers = {} /\ pc' = [pc EXCEPT ![Boot] = "port"] /\ entry' = entry
          /\ proc' = proc
        BY <1>8 DEF Remove, GotoWith, CleanStart, pidOne
    <2> QED BY <1>0, <2>1 DEF CleanStart, Servers, TypeOK
<1>9. CASE ProbePort(Boot)
    <2>1. Servers = {} /\ pc[Boot] = "port"
        BY <1>9 DEF ProbePort, CleanStart
    <2>2. pc' = [pc EXCEPT ![Boot] = "spawn"] /\ proc' = proc /\ entry' = entry
        BY <1>4, <1>9, <2>1 DEF ProbePort, Goto, pidOne
    <2> QED BY <1>0, <2>1, <2>2 DEF CleanStart, Servers, TypeOK
<1>10. CASE Spawn(Boot)
    <2>1. PICK p \in Pids : /\ proc' = [proc EXCEPT ![p] = "starting"]
                            /\ pc' = [pc EXCEPT ![Boot] = "write"]
                            /\ pid' = [pid EXCEPT ![Boot] = p]
        BY <1>10 DEF Spawn, GotoWith
    <2>2. Servers = {} /\ entry' = entry
        BY <1>10 DEF Spawn, CleanStart, pidOne
    <2>3. Servers' = {p}
        BY <1>0, <2>1, <2>2 DEF Servers, ServerKinds, TypeOK
    <2> QED BY <1>0, <2>1, <2>2, <2>3 DEF CleanStart, TypeOK
<1>11. CASE SpawnFails(Boot)
    <2>1. \A b \in Starters : b /= Boot => pc[b] = "idle"
        BY <1>0 DEF IInv, Undisturbed, OneStart, Quiet, TypeOK
    <2>2. pc[Boot] = "spawn" /\ Servers = {} /\ \A p \in Pids : ~Fresh(p)
        BY <1>11 DEF SpawnFails, CleanStart
    <2>3. (\A b \in Starters : pid[b] = NoPid) /\ watched = NoPid
        BY <1>0, <2>1, <2>2 DEF TypeOK
    <2>4. \A p \in Pids : proc[p] /= "free"
        BY <1>0, <2>2, <2>3, PidAssumption DEF Fresh
    <2>5. \A p \in Pids : proc[p] = "stranger"
        BY <1>0, <2>2, <2>4 DEF TypeOK, Servers
    <2> QED BY <2>5 DEF BootInv
<1>12. CASE WritePidfile(Boot)
    <2>1. /\ pc[Boot] = "write" /\ file' = pid[Boot] /\ pc' = [pc EXCEPT ![Boot] = "await"]
          /\ UNCHANGED <<pid, proc, entry>>
        BY <1>12 DEF WritePidfile, Goto, pidOne
    <2> QED BY <1>0, <2>1 DEF CleanStart, Servers, TypeOK
<1>13. CASE Await(Boot)
    <2>1. pc[Boot] = "await" /\ Servers = {pid[Boot]} /\ file = pid[Boot] /\ file \in Pids
        BY <1>0, <1>13 DEF Await, CleanStart, Servers
    <2>2. Serving /\ Exit(Boot, 0)
        BY <1>1, <1>13, <2>1 DEF Await
    <2>3. proc[file] = "serving"
        BY <2>1, <2>2 DEF Serving, Servers, ServerKinds
    <2>4. entry' = "read" /\ proc' = proc /\ file' = file /\ pc' = [pc EXCEPT ![Boot] = "idle"]
        BY <1>0, <2>2 DEF Exit, GotoWith
    <2>5. Idle'
        BY <1>0, <2>1, <2>4 DEF IInv, Undisturbed, OneStart, Quiet, TypeOK, Idle
    <2> QED BY <2>1, <2>3, <2>4, <2>5 DEF CleanRead
<1> QED BY <1>0, <1>2, <1>3, <1>5, <1>6, <1>7, <1>8, <1>9, <1>10, <1>11, <1>12, <1>13, CalmScript
        DEF Quiet, Start


\* After the script: PID 1 reads the pidfile and watches, or the container is down; what it
\* watches leaves it only so.
LEMMA WatchStep ==
    ASSUME IInv, BootInv, Quiet, Quiet', [Calm]_vars
    PROVE  /\ entry = "script" => (entry = "script")' \/ (entry = "read")' \/ ~up'
           /\ entry = "read" => (entry = "read")' \/ (entry = "watch")' \/ ~up'
           /\ entry = "watch" => (entry = "watch")' \/ ~up'
           /\ Lost => Lost' \/ ~up'
           /\ ~up => ~up' \/ CleanStart'
           /\ CleanRead => CleanRead' \/ Watches'
<1>0. TypeOK
    BY DEF IInv
<1>1. CASE UNCHANGED vars
    BY <1>1 DEF vars, container, shells, pidOne, Lost, CleanRead, Idle
<1>2. CASE ContainerStarts
    <2>1. /\ ~up /\ entry' = "script" /\ pc' = [pc EXCEPT ![Boot] = "check"] /\ proc' = proc
          /\ entry = "none"
        BY <1>0, <1>2 DEF ContainerStarts, Quiet, TypeOK
    <2>2. Servers' = {}
        BY <1>0, <2>1 DEF Servers, ServerKinds, TypeOK
    <2>3. CleanStart'
        BY <1>0, <2>1, <2>2, BootAssumption DEF CleanStart, TypeOK
    <2> QED BY <2>1, <2>3 DEF Lost, CleanRead
<1>3. CASE ReadPidfile
    <2>1. up /\ entry = "read" /\ NoPid \notin Pids
        BY <1>0, <1>3, PidAssumption DEF ReadPidfile, TypeOK
    <2>2. (~up' /\ file = NoPid) \/ (entry' = "watch" /\ watched' = file /\ proc' = proc)
        BY <1>3 DEF ReadPidfile, Down
    <2> QED BY <2>1, <2>2 DEF Lost, CleanRead, CleanStart, Watches
<1>4. CASE ServerLost
    <2>1. up /\ ~up' /\ entry = "watch"
        BY <1>0, <1>4 DEF ServerLost, Down, TypeOK
    <2> QED BY <2>1 DEF CleanRead, CleanStart
<1>5. ASSUME NEW p \in Pids, ServerListens(p) \/ StrangerStarts(p)
      PROVE  /\ UNCHANGED <<entry, watched, up, file, pc>>
             /\ proc[p] = "starting" \/ (proc[p] = "free" /\ p /= watched)
             /\ \A q \in Pids : q /= p => proc'[q] = proc[q]
    BY <1>0, <1>5 DEF ServerListens, StrangerStarts, Fresh, shells, pidOne, container, TypeOK
<1>6. ASSUME NEW p \in Pids, ServerListens(p) \/ StrangerStarts(p)
      PROVE  (Lost => Lost') /\ (CleanRead => CleanRead')
    <2>1. Lost => Lost'
        BY <1>0, <1>5, <1>6 DEF Lost, TypeOK
    <2>2. CleanRead => CleanRead'
        BY <1>0, <1>5, <1>6 DEF CleanRead, Idle, TypeOK
    <2> QED BY <2>1, <2>2
<1>7. ASSUME NEW b \in Starters, Start(b)
      PROVE  /\ up
             /\ entry = "script" => entry' = "script" \/ entry' = "read" \/ ~up'
             /\ entry \in {"read", "watch"} => entry' = entry \/ ~up'
             /\ Lost => Lost' \/ ~up'
             /\ CleanRead => CleanRead'
    <2>1. pc[b] /= "idle"
        BY <1>7 DEF Start, Check, Probe, Terminate, Remove, ProbePort, Spawn, SpawnFails,
                    WritePidfile, Await
    <2>2. up /\ ~CleanRead
        BY <1>0, <2>1 DEF TypeOK, Idle, CleanRead
    <2>3. \/ ~up'
          \/ /\ entry' = entry \/ (entry = "script" /\ entry' = "read")
             /\ watched' = watched
        BY <1>7 DEF Start, Check, Probe, Terminate, Remove, ProbePort, Spawn, SpawnFails,
                    WritePidfile, Await, Exit, Down, pidOne
    <2>4. Lost => proc'[watched] = "free" \/ ~up'
        <3> SUFFICES ASSUME Lost, ~(~up') PROVE proc'[watched] = "free"
            OBVIOUS
        <3>1. CASE Terminate(b)
            BY <1>0, <3>1 DEF Terminate, Lost, TypeOK
        <3>2. CASE Spawn(b)
            BY <1>0, <3>2 DEF Spawn, Fresh, Lost, TypeOK
        <3>3. CASE ~Terminate(b) /\ ~Spawn(b)
            BY <1>7, <3>3 DEF Start, Check, Probe, Remove, ProbePort, SpawnFails,
                              WritePidfile, Await, Exit, Down, Lost
        <3> QED BY <3>1, <3>2, <3>3
    <2> QED BY <2>2, <2>3, <2>4 DEF Lost
<1> QED BY <1>1, <1>2, <1>3, <1>4, <1>5, <1>6, <1>7, ScriptStep DEF Calm


\* Weak fairness of the entrypoint and of docker, as FairSpec has it, with guards for their
\* ENABLEDs.
EntrypointRuns ==
    /\ []<>~(entry = "read") \/ []<><<ReadPidfile>>_vars
    /\ []<>~Lost \/ []<><<ServerLost>>_vars
DockerRestarts ==
    []<>~(compose /\ ~stopping /\ ~up) \/ []<><<compose /\ ~stopping /\ ContainerStarts>>_vars

\* Once nothing more goes wrong, a compose deployment comes to a PID 1 that watches a serving
\* server, whatever it was left with: either what runs gets there, or the container goes
\* down and the start that follows it does.  The numbers must not run out (two are enough:
\* with one, a stranger could have it at every start).
THEOREM DeploymentRecovers ==
    ASSUME \E p, q \in Pids : p /= q
    PROVE  Spec /\ (\A b \in Starters : StartRuns(b)) /\ EntrypointRuns /\ DockerRestarts
               => Recovers
<1>1. IInv /\ BootInv /\ Quiet /\ Quiet' /\ [Calm]_vars =>
         /\ entry = "script" => (entry = "script")' \/ (entry = "read")' \/ ~up'
         /\ entry = "read" => (entry = "read")' \/ (entry = "watch")' \/ ~up'
         /\ entry = "watch" => (entry = "watch")' \/ ~up'
         /\ Lost => Lost' \/ ~up'
         /\ ~up => ~up' \/ CleanStart'
         /\ CleanRead => CleanRead' \/ Watches'
    BY WatchStep
<1>2. IInv /\ BootInv /\ Quiet /\ Quiet' /\ [Calm]_vars =>
         (CleanStart => CleanStart' \/ CleanRead')
    <2>1. ASSUME UNCHANGED vars, CleanStart PROVE CleanStart'
        BY <2>1 DEF vars, shells, pidOne, CleanStart, Servers
    <2> QED BY <2>1, CleanStep
<1>3. IInv /\ BootInv /\ Quiet =>
         /\ up => entry = "script" \/ entry = "read" \/ entry = "watch"
         /\ entry = "script" => pc[Boot] /= "idle"
         /\ entry = "watch" => Watches \/ Lost \/ (entry = "watch" /\ proc[watched] = "starting")
         /\ CleanStart => entry = "script"
         /\ CleanRead => entry = "read"
    <2> SUFFICES ASSUME IInv, BootInv, Quiet,
                        entry = "watch" => watched \in Pids /\ proc[watched] /= "wedged"
                 PROVE  /\ up => entry = "script" \/ entry = "read" \/ entry = "watch"
                        /\ entry = "script" => pc[Boot] /= "idle"
                        /\ entry = "watch" => \/ Watches \/ Lost
                                              \/ entry = "watch" /\ proc[watched] = "starting"
                        /\ CleanStart => entry = "script"
                        /\ CleanRead => entry = "read"
        BY DEF IInv, TypeOK, Quiet, Wedged
    <2> QED BY DEF IInv, TypeOK, Undisturbed, EntryOwn, BootInv, Quiet, ServerKinds, Watches, Lost,
                   CleanStart, CleanRead
<1>4. IInv /\ <<ReadPidfile>>_vars =>
         (entry = "watch")' \/ ~up'
    BY DEF ReadPidfile, Down
<1>5. CleanRead /\ <<ReadPidfile>>_vars => Watches'
    BY PidAssumption DEF ReadPidfile, CleanRead, Watches
<1>6. <<ServerLost>>_vars => ~up'
    BY DEF ServerLost, Down
<1>7. <<compose /\ ~stopping /\ ContainerStarts>>_vars => up'
    BY DEF ContainerStarts
<1>8. compose /\ [Next]_vars => compose'
    BY DEF Next, ContainerStarts, DockerStop, ContainerDies, ReadPidfile, ServerLost, ShutdownEnds,
           StrangerStarts, ProcessEnds, ServerListens, ServerWedges, ServerRecovers, Begin, CutOff,
           Start, Check, Probe, Terminate, Remove, ProbePort, Spawn, SpawnFails, WritePidfile,
           Await, Deadline, Exit, Down, container, vars
<1>9. Quiet <=> compose /\ ~stopping /\ ~Wedged /\ ~disturbed
    BY DEF Quiet
<1>10. Watches <=> entry = "watch" /\ proc[watched] = "serving"
    BY DEF Watches
<1>11. ASSUME NEW b \in Starters, b = Boot
      PROVE  Spec /\ StartRuns(b) /\ EntrypointRuns /\ DockerRestarts => Recovers
    <2>1. IInv /\ BootInv /\ Quiet /\ entry = "script" => ~(pc[b] = "idle")
        BY <1>3, <1>11
    <2>2. Spec /\ StartRuns(b) => (<>[]~Wedged => (pc[b] /= "idle" ~> pc[b] = "idle"))
        BY StartEndsFor
    <2>3. pc[b] /= "idle" <=> ~(pc[b] = "idle")
        OBVIOUS
    <2> QED BY <1>1, <1>2, <1>3, <1>4, <1>5, <1>6, <1>7, <1>8, <1>9, <1>10, <2>1, <2>2, <2>3,
               BootAlways, PTL
            DEF Spec, EntrypointRuns, DockerRestarts, Recovers
<1> QED BY <1>11, BootAssumption
=============================================================================
