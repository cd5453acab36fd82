------------------------------ MODULE Dashboard ------------------------------
(* bhaskera-dashboard: start, stop and status of the MLflow UI through a pid  *)
(* file and a saved configuration under $HOME, which several nodes share.     *)
(* Commands run on any node, may overlap and may be interrupted; the UI exits *)
(* when it likes.  The banner of a training run reads the same configuration. *)
EXTENDS Naturals, FiniteSets

CONSTANTS Node,        \* the login and compute nodes that share $HOME
          Shell,       \* where commands are typed: at most one at a time each
          Port,        \* values of --port
          MaxCommands  \* bound: commands in a behaviour

VARIABLES
    ui,        \* pid -> [node, port, state] of the UIs spawned so far
    pidFile,   \* the recorded pid, 0 if there is none
    saved,     \* the port in mlflow-ui.json, 0 if there is no file
    shell,     \* shell -> the command it runs
    commands,
    disturbed  \* history: commands have overlapped, were interrupted, ran on
               \* different nodes, or met a process that only has the pid
dashVars == <<ui, pidFile, saved, shell, commands, disturbed>>

Free == [at |-> "prompt", node |-> "none", port |-> 0, pid |-> 0, result |-> "none"]
Pids == DOMAIN ui

DashInit ==
    /\ ui = <<>> /\ pidFile = 0 /\ saved = 0
    /\ shell = [s \in Shell |-> Free] /\ commands = 0
    /\ disturbed = FALSE

At(s, label) == shell' = [shell EXCEPT ![s].at = label]
Reply(s, text) == shell' = [shell EXCEPT ![s] = [Free EXCEPT !.result = text, !.pid = shell[s].pid]]
\* A process that has ended stays in the table until its parent has: kill(pid, 0)
\* succeeds for it.
InTable(pid, node) == pid \in Pids /\ ui[pid].node = node /\ ui[pid].state /= "gone"
\* _pid_alive asks the node it runs on, where others may have the same number.
Alive(pid, node) == IF InTable(pid, node) THEN {TRUE} ELSE {TRUE, FALSE}
Mistaken(pid, node, alive) == disturbed' = (disturbed \/ (alive /\ ~InTable(pid, node)))

OtherNode(node) == \E pid \in Pids : ui[pid].node /= node

\* main: the saved configuration with the options over it, saved again by start.
Command(s, action, node, port) ==
    /\ shell[s].at = "prompt" /\ commands < MaxCommands /\ commands' = commands + 1
    /\ shell' = [shell EXCEPT ![s] = [Free EXCEPT !.at = action, !.node = node, !.port = port]]
    /\ saved' = IF action = "start" THEN port ELSE saved
    /\ disturbed' = (disturbed \/ OtherNode(node) \/ \E t \in Shell : shell[t].at /= "prompt")
    /\ UNCHANGED <<ui, pidFile>>

\* cmd_start: an existing UI is left alone; mlflow or the store may be missing.
StartChecks(s) ==
    /\ shell[s].at = "start"
    /\ IF pidFile = 0 THEN At(s, "spawn") /\ UNCHANGED disturbed
       ELSE \E alive \in Alive(pidFile, shell[s].node) :
                /\ Mistaken(pidFile, shell[s].node, alive)
                /\ IF alive THEN Reply(s, "already running") ELSE At(s, "spawn")
    /\ UNCHANGED <<ui, pidFile, saved, commands>>

CannotStart(s) ==
    /\ shell[s].at = "spawn" /\ Reply(s, "error")
    /\ UNCHANGED <<ui, pidFile, saved, commands, disturbed>>

Spawn(s) ==
    LET pid == Cardinality(Pids) + 1
    IN  /\ shell[s].at = "spawn"
        /\ ui' = [p \in Pids \cup {pid} |-> IF p \in Pids THEN ui[p]
                    ELSE [node |-> shell[s].node, port |-> shell[s].port, state |-> "up"]]
        /\ shell' = [shell EXCEPT ![s].at = "record", ![s].pid = pid]
        /\ UNCHANGED <<pidFile, saved, commands, disturbed>>

FaultyWritePid(s) == IF pidFile = 0 THEN shell[s].pid ELSE pidFile
WritePid(s) == shell[s].pid
Record(s) ==
    /\ shell[s].at = "record" /\ At(s, "check")
    /\ pidFile' = WritePid(s)
    /\ UNCHANGED <<ui, saved, commands, disturbed>>

\* What ends leaves the table when its parent has ended or has waited for it.
Reaped(table, s) == [p \in DOMAIN table |->
    IF p = shell[s].pid /\ table[p].state = "zombie" THEN [table[p] EXCEPT !.state = "gone"] ELSE table[p]]

\* After a second and a half the child is looked at, without waiting for it.
CheckStarted(s) ==
    /\ shell[s].at = "check"
    /\ Reply(s, IF InTable(shell[s].pid, shell[s].node) THEN "started" ELSE "exited")
    /\ ui' = Reaped(ui, s)
    /\ UNCHANGED <<pidFile, saved, commands, disturbed>>

\* cmd_stop: the pid is read once, a stale record cleared.
StopChecks(s) ==
    /\ shell[s].at = "stop"
    /\ IF pidFile = 0 THEN Reply(s, "nothing") /\ UNCHANGED disturbed
       ELSE \E alive \in Alive(pidFile, shell[s].node) :
                /\ Mistaken(pidFile, shell[s].node, alive)
                /\ shell' = [shell EXCEPT ![s].at = IF alive THEN "terminate" ELSE "clear", ![s].pid = pidFile]
    /\ UNCHANGED <<ui, pidFile, saved, commands>>

ParentLives(pid) == \E s \in Shell : shell[s].pid = pid /\ shell[s].at \in {"record", "check"}
Ended(pid) == [ui EXCEPT ![pid].state = IF ParentLives(pid) THEN "zombie" ELSE "gone"]

\* SIGTERM, three seconds of looking, SIGKILL if it still runs; by then the pid
\* may be nobody's, or another's.
Terminate(s) ==
    /\ shell[s].at = "terminate" /\ At(s, "clear")
    /\ \E alive \in Alive(shell[s].pid, shell[s].node) : Mistaken(shell[s].pid, shell[s].node, alive)
    /\ ui' = IF InTable(shell[s].pid, shell[s].node) THEN Ended(shell[s].pid) ELSE ui
    /\ UNCHANGED <<pidFile, saved, commands>>

ClearPid(s) ==
    /\ shell[s].at = "clear" /\ Reply(s, "stopped")
    /\ pidFile' = 0
    /\ UNCHANGED <<ui, saved, commands, disturbed>>

Status(s) ==
    /\ shell[s].at = "status"
    /\ IF pidFile = 0 THEN Reply(s, "not started") /\ UNCHANGED disturbed
       ELSE \E alive \in Alive(pidFile, shell[s].node) :
                Mistaken(pidFile, shell[s].node, alive) /\ Reply(s, IF alive THEN "running" ELSE "stale")
    /\ UNCHANGED <<ui, pidFile, saved, commands>>

\* setup_monitoring: the banner of a training run names the UI if the
\* configuration file exists.
Banner(s) ==
    /\ shell[s].at = "banner"
    /\ Reply(s, IF saved /= 0 THEN "url" ELSE "not running")
    /\ UNCHANGED <<ui, pidFile, saved, commands, disturbed>>

UiExits(pid) ==
    /\ ui[pid].state = "up" /\ ui' = Ended(pid)
    /\ UNCHANGED <<pidFile, saved, shell, commands, disturbed>>

Interrupt(s) ==
    /\ shell[s].at /= "prompt" /\ Reply(s, "none") /\ disturbed' = TRUE
    /\ ui' = Reaped(ui, s)
    /\ UNCHANGED <<pidFile, saved, commands>>

DashDone == commands = MaxCommands /\ (\A s \in Shell : shell[s].at = "prompt") /\ UNCHANGED dashVars

DashNext ==
    \/ \E s \in Shell :
        \/ \E a \in {"start", "stop", "status", "banner"}, n \in Node, p \in Port : Command(s, a, n, p)
        \/ StartChecks(s) \/ CannotStart(s) \/ Spawn(s) \/ Record(s) \/ CheckStarted(s)
        \/ StopChecks(s) \/ Terminate(s) \/ ClearPid(s) \/ Status(s) \/ Banner(s) \/ Interrupt(s)
    \/ \E pid \in Pids : UiExits(pid)
    \/ DashDone

----------------------------------------------------------------------------
\* Commands given one after the other on one node, whatever the UI does in
\* between, keep the pid file true: the UI that runs is the recorded one, and
\* there is no second.
Running == {pid \in Pids : ui[pid].state = "up"}
Spawning == {shell[s].pid : s \in {t \in Shell : shell[t].at = "record"}}
RecordIsTrue == ~disturbed => Running \subseteq {pidFile} \cup Spawning /\ Cardinality(Running) <= 1

\* cmd_start, line 167: "MLflow UI exited immediately. Check the log".  The code
\* breaks this: the child that exited is a zombie until its parent ends, and
\* counts as alive.  (No run checks it; see the README.)
ExitIsReported ==
    [][\A s \in Shell : shell[s].at = "check" /\ shell'[s].result = "started" => ui[shell[s].pid].state /= "zombie"]_dashVars
=============================================================================
