------------------------------- MODULE Daemon -------------------------------
(***************************************************************************)
(* The background process and the commands that control it: --daemon       *)
(* forks twice and writes a PID file, --stop and --reload find the process *)
(* through that file and signal it.  The commands, the daemons and the     *)
(* other processes of the machine share nothing but the PID file, the      *)
(* process table and signals, and nothing orders their steps.              *)
(*                                                                         *)
(* isRunning() reads the file and probes the process in one step here; the *)
(* commands are run by a user who may signal every process.                *)
(***************************************************************************)
EXTENDS Naturals

CONSTANTS
  Shells,     \* where commands are run, one at a time in each
  Pids,       \* the process ids of the machine
  NoPid,      \* readPid() returned -1
  NoFile,     \* there is no PID file
  EmptyFile,  \* the PID file is open for writing and nothing is in it yet
  Faults      \* what the environment may do: "crash", "reuse", "unwritable"

ASSUME DaemonAssumption ==
  /\ NoPid \notin Pids /\ Shells \cap Pids = {}
  /\ NoFile \notin Pids /\ EmptyFile \notin Pids /\ NoFile # EmptyFile
  /\ Faults \subseteq {"crash", "reuse", "unwritable"}

VARIABLES
  pidFile,   \* the content of the PID file
  writers,   \* the daemons that have the current PID file open for writing
  proc,      \* what each process id stands for
  term,      \* g_running has been cleared in the process
  hup,       \* g_reload has been set in the process
  cmd,       \* where the command of each shell is
  target,    \* the pid that a stop has read
  nameless,  \* the daemons that could not write their PID file (history)
  raced      \* the starts and stops that ran while another one did (history): the
             \* shell while it is a command, then the process that comes of it

procVars == <<proc, term, hup, nameless, raced>>
fileVars == <<pidFile, writers>>
vars == <<fileVars, procVars, cmd, target>>

\* "session" is the first child, up to the second fork.  The grandchild is
\* "forked", "armed" once its handlers are set, "naming" while it writes the
\* PID file, "named" when daemonize() has returned, "serving" in the main loop.
Starting  == {"session", "forked", "armed", "naming", "named"}

(***************************************************************************)
(* Helpers                                                                 *)
(***************************************************************************)
Alive(p)   == p # NoPid /\ proc[p] # "free"
Serving(p) == proc[p] = "serving"

\* An empty file leaves the local int of readPid() as it was: uninitialised.
readPid == IF pidFile = NoFile THEN {NoPid}
           ELSE IF pidFile = EmptyFile THEN Pids \cup {NoPid}
           ELSE {pidFile}

isRunning == {Alive(p) : p \in readPid}

\* The process is gone, and what its handlers had noted with it.
Ended(p) ==
  /\ proc' = [proc EXCEPT ![p] = "free"]
  /\ term' = [term EXCEPT ![p] = FALSE]
  /\ hup'  = [hup EXCEPT ![p] = FALSE]
  /\ nameless' = nameless \ {p} /\ raced' = raced \ {p}

\* Without the handlers of the daemon, SIGTERM and SIGHUP end a process; the
\* handlers only set a flag.
DefaultAction(p) == proc[p] \in {"foreign", "session", "forked"}

Terminate(p) ==
  IF DefaultAction(p) THEN Ended(p)
  ELSE term' = [term EXCEPT ![p] = TRUE] /\ UNCHANGED <<proc, hup, nameless, raced>>

Hangup(p) ==
  IF DefaultAction(p) THEN Ended(p)
  ELSE hup' = [hup EXCEPT ![p] = TRUE] /\ UNCHANGED <<proc, term, nameless, raced>>

\* The starts and stops that are going on: commands, and daemons on their way up.
UnderWay == {s \in Shells : cmd[s] # "idle"} \cup {p \in Pids : proc[p] \in Starting}

\* A start or a stop begins.
Begin(s) ==
  /\ cmd[s] = "idle"
  /\ raced' = IF UnderWay = {} THEN raced ELSE raced \cup UnderWay \cup {s}

\* What raced goes on as another process, or has ended.
Successor(from, to) == raced' = IF from \in raced THEN (raced \ {from}) \cup to ELSE raced

Goto(s, from, to) == cmd[s] = from /\ cmd' = [cmd EXCEPT ![s] = to]

(***************************************************************************)
(* --daemon: daemonize() and what runDaemonMode() does next                *)
(***************************************************************************)
\* A launch whose isRunning() says TRUE fails and changes nothing.
LaunchCheck_Unchecked(s) ==
  Begin(s) /\ Goto(s, "idle", "fork") /\ UNCHANGED <<fileVars, proc, term, hup, nameless, target>>
LaunchCheck(s) ==
  /\ Begin(s) /\ FALSE \in isRunning
  /\ Goto(s, "idle", "fork")
  /\ UNCHANGED <<fileVars, proc, term, hup, nameless, target>>

Become(p, from, to) == proc[p] = from /\ proc' = [proc EXCEPT ![p] = to]

\* The command prints the pid of its child and exits.
LaunchFork(s, p) ==
  /\ Goto(s, "fork", "idle")
  /\ Become(p, "free", "session") /\ Successor(s, {p})
  /\ UNCHANGED <<fileVars, term, hup, target, nameless>>

LaunchForkFails(s) ==
  /\ Goto(s, "fork", "idle") /\ Successor(s, {})
  /\ UNCHANGED <<fileVars, proc, term, hup, nameless, target>>

\* setsid(), and the second fork; its parent exits.
SessionFork(p, child) ==
  /\ proc[p] = "session" /\ proc[child] = "free"
  /\ proc' = [proc EXCEPT ![p] = "free", ![child] = "forked"]
  /\ Successor(p, {child})
  /\ UNCHANGED <<fileVars, term, hup, cmd, target, nameless>>

SetupSignalHandlers(p) ==
  Become(p, "forked", "armed") /\ UNCHANGED <<fileVars, term, hup, cmd, target, nameless, raced>>

\* Opening the file for writing creates or truncates it.
OpenPidFile(p) ==
  /\ Become(p, "armed", "naming")
  /\ pidFile' = EmptyFile /\ writers' = writers \cup {p}
  /\ UNCHANGED <<term, hup, cmd, target, nameless, raced>>

\* The result of writePid() is ignored.
OpenPidFileFails(p) ==
  /\ "unwritable" \in Faults
  /\ Become(p, "armed", "named")
  /\ nameless' = nameless \cup {p}
  /\ UNCHANGED <<fileVars, term, hup, cmd, target, raced>>

\* What is written to a file that was removed meanwhile is not seen again.
WritePid(p) ==
  /\ Become(p, "naming", "named")
  /\ pidFile' = IF p \in writers THEN p ELSE pidFile
  /\ writers' = writers \ {p}
  /\ UNCHANGED <<term, hup, cmd, target, nameless, raced>>

\* A configured mailer: the queue starts and the main loop begins.
Serve(p) ==
  Become(p, "named", "serving") /\ UNCHANGED <<fileVars, term, hup, cmd, target, nameless, raced>>

\* exit(1) of a start that fails (second fork, configuration) or a crash.  The
\* PID file stays.
Exit(p) ==
  /\ proc[p] \in {"session", "named"} \/ ("crash" \in Faults /\ proc[p] \in Starting \cup {"serving"})
  /\ Ended(p) /\ writers' = writers \ {p}
  /\ UNCHANGED <<pidFile, cmd, target>>

(***************************************************************************)
(* --stop and --reload                                                     *)
(***************************************************************************)
\* Without a pid to read, the stop fails and changes nothing.
StopRead(s) ==
  /\ Begin(s)
  /\ \E p \in readPid \ {NoPid} :
       Goto(s, "idle", "stop_term") /\ target' = [target EXCEPT ![s] = p]
  /\ UNCHANGED <<fileVars, proc, term, hup, nameless>>

\* SIGTERM.  If there is no such process, the stop fails and the file stays.
StopTerm(s) ==
  LET p == target[s] IN
  /\ Goto(s, "stop_term", IF Alive(p) THEN "stop_wait" ELSE "idle")
  /\ IF Alive(p) THEN Terminate(p)
     ELSE Successor(s, {}) /\ UNCHANGED <<proc, term, hup, nameless>>
  /\ UNCHANGED <<fileVars, target>>

\* After two seconds the file, which may name another process now, decides.
StopRecheck_Trusting(s) ==
  Goto(s, "stop_wait", "stop_remove") /\ UNCHANGED <<fileVars, procVars, target>>
StopRecheck(s) ==
  /\ \E r \in isRunning : Goto(s, "stop_wait", IF r THEN "stop_kill" ELSE "stop_remove")
  /\ UNCHANGED <<fileVars, procVars, target>>

StopKill_Polite(s) ==
  /\ Goto(s, "stop_kill", "stop_remove")
  /\ IF Alive(target[s]) THEN Terminate(target[s]) ELSE UNCHANGED procVars
  /\ UNCHANGED <<fileVars, target>>
StopKill(s) ==
  /\ Goto(s, "stop_kill", "stop_remove")
  /\ IF Alive(target[s]) THEN Ended(target[s]) ELSE UNCHANGED procVars
  /\ writers' = writers \ {target[s]}
  /\ UNCHANGED <<pidFile, target>>

\* The stop reports success.
StopRemove(s) ==
  /\ Goto(s, "stop_remove", "idle")
  /\ pidFile' = NoFile /\ writers' = {} /\ Successor(s, {})
  /\ UNCHANGED <<proc, term, hup, nameless, target>>

Reload(s) ==
  /\ cmd[s] = "idle"
  /\ \E p \in readPid : Alive(p) /\ Hangup(p)
  /\ UNCHANGED <<fileVars, cmd, target>>

(***************************************************************************)
(* The environment                                                         *)
(***************************************************************************)
\* A service manager signals the daemon itself, without the PID file.
ServiceTerm(p) ==
  Serving(p) /\ Terminate(p) /\ UNCHANGED <<fileVars, cmd, target>>

\* Another program gets a pid that is free, and ends again.
PidReused(p) ==
  /\ "reuse" \in Faults /\ Become(p, "free", "foreign")
  /\ UNCHANGED <<fileVars, term, hup, cmd, target, nameless, raced>>

ForeignEnds(p) ==
  Become(p, "foreign", "free") /\ UNCHANGED <<fileVars, term, hup, cmd, target, nameless, raced>>

(***************************************************************************)
(* The specification                                                       *)
(***************************************************************************)
Init ==
  /\ pidFile = NoFile /\ writers = {}
  /\ proc = [p \in Pids |-> "free"]
  /\ term = [p \in Pids |-> FALSE] /\ hup = [p \in Pids |-> FALSE]
  /\ cmd = [s \in Shells |-> "idle"]
  /\ target = [s \in Shells |-> NoPid]
  /\ nameless = {} /\ raced = {}

\* A command that has begun goes on.
CommandStep(s) ==
  \/ LaunchForkFails(s) \/ \E p \in Pids : LaunchFork(s, p)
  \/ StopTerm(s) \/ StopRecheck(s) \/ StopKill(s) \/ StopRemove(s)

Command(s) == LaunchCheck(s) \/ StopRead(s) \/ Reload(s)

DaemonStep(p) ==
  \/ \E child \in Pids : SessionFork(p, child)
  \/ SetupSignalHandlers(p) \/ OpenPidFile(p) \/ OpenPidFileFails(p) \/ WritePid(p)
  \/ Serve(p)

Environment(p) == Exit(p) \/ ServiceTerm(p) \/ PidReused(p) \/ ForeignEnds(p)

Next == \/ \E s \in Shells : Command(s) \/ CommandStep(s)
        \/ \E p \in Pids : DaemonStep(p) \/ Environment(p)

Spec == Init /\ [][Next]_vars

(***************************************************************************)
(* Properties                                                              *)
(***************************************************************************)
Named(p) == Serving(p) /\ p \notin nameless \cup raced

\* The check of daemonize(), "Check if already running", keeps a second daemon
\* from starting, whatever the PID file held and whatever has the pid in it: of
\* two daemons that could write the file, one comes from a start that another
\* start, or a stop, was on its way with.
SingleDaemon == \A p, q \in Pids : Named(p) /\ Named(q) => p = q

\* A daemon in its main loop can be found: the PID file holds its pid, however
\* stops run into each other, unless the file could not be written or the start
\* of the daemon was itself not alone.
Reachable == \A p \in Pids : Named(p) => pidFile = p

\* stop() signals the pid of its first reading, decides on the second and removes
\* what then is the file.  While a daemon that was started alone serves, all of that
\* is about this daemon: no stop has another process as its target.  And a stop that
\* is alone has one file throughout, whoever wrote it, and removes it only when the
\* daemon it names is gone, also one that could not be told from others or that
\* takes no notice of SIGTERM.
StopHitsDaemon ==
  \A s \in Shells : cmd[s] \in {"stop_term", "stop_wait", "stop_kill", "stop_remove"} =>
    /\ \A p \in Pids : Named(p) => target[s] = p
    /\ s \notin raced =>
         /\ pidFile \in {target[s], EmptyFile}
         /\ cmd[s] = "stop_remove" => \A p \in Pids : pidFile = p => proc[p] \in {"free", "foreign"}

=============================================================================
