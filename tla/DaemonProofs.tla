----------------------------- MODULE DaemonProofs -----------------------------
(***************************************************************************)
(* What TLAPS proves of the daemon, for every set of shells, of process    *)
(* ids and of faults.                                                      *)
(*                                                                         *)
(* The PID file is no lock, so the proofs rest on who was alone.  A start   *)
(* or a stop that did not race is the only one under way (RacedInv).  Such a *)
(* start alone changes the file while it lasts (StartInv), and once it     *)
(* serves, the file keeps new starts out and gives its pid to every stop   *)
(* (NamedInv).  Such a stop has one file as long as it lasts (StopInv).    *)
(***************************************************************************)
EXTENDS Daemon, TLAPS

Stages == {"free", "foreign", "serving"} \cup Starting
Points == {"idle", "fork", "stop_term", "stop_wait", "stop_kill", "stop_remove"}

TypeOK ==
  /\ pidFile \in Pids \cup {NoFile, EmptyFile} /\ writers \subseteq Pids
  /\ proc \in [Pids -> Stages]
  /\ term \in [Pids -> BOOLEAN] /\ hup \in [Pids -> BOOLEAN]
  /\ cmd \in [Shells -> Points] /\ target \in [Shells -> Pids \cup {NoPid}]
  /\ nameless \subseteq Pids /\ raced \subseteq Shells \cup Pids

\* Of two that are under way each has raced.
RacedInv == \A x, y \in UnderWay : x # y => x \in raced

\* A start that did not race has the PID file for itself, from when it opens it.
StartInv ==
  \A p \in Pids \ raced :
    /\ proc[p] = "naming" => p \in writers /\ pidFile = EmptyFile
    /\ proc[p] = "named" /\ p \notin nameless => pidFile = p

\* While a daemon serves that was started alone, its pid is in the file, nothing
\* starts, and the stops are about it and have not ended it.
NamedInv ==
  \A p \in Pids : Named(p) =>
    /\ pidFile = p
    /\ \A q \in Pids : proc[q] \notin Starting
    /\ \A s \in Shells :
         cmd[s] # "idle" => cmd[s] \in {"stop_term", "stop_wait", "stop_kill"} /\ target[s] = p

(***************************************************************************)
(* Types                                                                   *)
(***************************************************************************)
LEMMA EndedType ==
  ASSUME TypeOK, NEW p \in Pids, Ended(p) \/ Terminate(p) \/ Hangup(p)
  PROVE  /\ proc' \in [Pids -> Stages]
         /\ term' \in [Pids -> BOOLEAN] /\ hup' \in [Pids -> BOOLEAN]
         /\ nameless' \subseteq Pids /\ raced' \subseteq Shells \cup Pids
BY DEF TypeOK, Ended, Terminate, Hangup, Stages

LEMMA TypeStep == TypeOK /\ [Next]_vars => TypeOK'
<1> SUFFICES ASSUME TypeOK, [Next]_vars PROVE TypeOK'
  OBVIOUS
<1> USE DEF fileVars, procVars
<1>1. ASSUME NEW s \in Shells, Command(s) PROVE TypeOK'
  <2>1. UnderWay \subseteq Shells \cup Pids
    BY DEF UnderWay
  <2>2. CASE LaunchCheck(s)
    BY <2>1, <2>2 DEF LaunchCheck, Begin, Goto, TypeOK, Points
  <2>3. CASE StopRead(s)
    <3>1. readPid \ {NoPid} \subseteq Pids
      BY DEF readPid, TypeOK
    <3> QED
      BY <2>1, <2>3, <3>1 DEF StopRead, Begin, Goto, TypeOK, Points
  <2>4. CASE Reload(s)
    <3>1. PICK p \in readPid : Alive(p) /\ Hangup(p)
      BY <2>4 DEF Reload
    <3>2. p \in Pids
      BY <3>1 DEF readPid, Alive, TypeOK
    <3> QED
      BY <2>4, <3>1, <3>2, EndedType DEF Reload, TypeOK
  <2> QED
    BY <1>1, <2>2, <2>3, <2>4 DEF Command
<1>2. ASSUME NEW s \in Shells, CommandStep(s) PROVE TypeOK'
  <2>1. CASE LaunchForkFails(s)
    BY <2>1 DEF LaunchForkFails, Goto, Successor, TypeOK, Points
  <2>2. ASSUME NEW p \in Pids, LaunchFork(s, p) PROVE TypeOK'
    BY <2>2 DEF LaunchFork, Goto, Become, Successor, TypeOK, Points, Stages, Starting
  <2>3. CASE StopTerm(s)
    <3>1. cmd' \in [Shells -> Points]
      BY <2>3 DEF StopTerm, Goto, TypeOK, Points
    <3>2. CASE Alive(target[s])
      <4>1. target[s] \in Pids
        BY <3>2 DEF Alive, TypeOK
      <4> QED
        BY <2>3, <3>1, <3>2, <4>1, EndedType DEF StopTerm, TypeOK
    <3>3. CASE ~Alive(target[s])
      BY <2>3, <3>1, <3>3 DEF StopTerm, Successor, TypeOK
    <3> QED
      BY <3>2, <3>3
  <2>4. CASE StopRecheck(s)
    BY <2>4 DEF StopRecheck, Goto, TypeOK, Points
  <2>5. CASE StopKill(s)
    <3>1. cmd' \in [Shells -> Points]
      BY <2>5 DEF StopKill, Goto, TypeOK, Points
    <3>2. CASE Alive(target[s])
      <4>1. target[s] \in Pids
        BY <3>2 DEF Alive, TypeOK
      <4> QED
        BY <2>5, <3>1, <3>2, <4>1, EndedType DEF StopKill, TypeOK
    <3>3. CASE ~Alive(target[s])
      BY <2>5, <3>1, <3>3 DEF StopKill, TypeOK
    <3> QED
      BY <3>2, <3>3
  <2>6. CASE StopRemove(s)
    BY <2>6 DEF StopRemove, Goto, Successor, TypeOK, Points
  <2> QED
    BY <1>2, <2>1, <2>2, <2>3, <2>4, <2>5, <2>6 DEF CommandStep
<1>3. ASSUME NEW p \in Pids, DaemonStep(p) PROVE TypeOK'
  BY <1>3 DEF DaemonStep, SessionFork, SetupSignalHandlers, OpenPidFile, OpenPidFileFails, WritePid,
              Serve, Become, Successor, TypeOK, Stages, Starting
<1>4. ASSUME NEW p \in Pids, Environment(p) PROVE TypeOK'
  <2>1. CASE Exit(p)
    BY <2>1, EndedType DEF Exit, TypeOK
  <2>2. CASE ServiceTerm(p)
    BY <2>2, EndedType DEF ServiceTerm, TypeOK
  <2>3. CASE PidReused(p) \/ ForeignEnds(p)
    BY <2>3 DEF PidReused, ForeignEnds, Become, TypeOK, Stages
  <2> QED
    BY <1>4, <2>1, <2>2, <2>3 DEF Environment
<1>5. CASE UNCHANGED vars
  BY <1>5 DEF vars, TypeOK
<1> QED
  BY <1>1, <1>2, <1>3, <1>4, <1>5 DEF Next

\* The file is absent, being written or names one process, and a pid is in one of
\* the stages of a daemon's life.
LEMMA TypeCorrect == Spec => []TypeOK
<1>1. Init => TypeOK
  BY DEF Init, TypeOK, Stages, Points
<1> QED
  BY <1>1, TypeStep, PTL DEF Spec

(***************************************************************************)
(* Who was alone                                                           *)
(***************************************************************************)
Alone == RacedInv /\ StartInv /\ NamedInv

LEMMA Disjoint == \A s \in Shells, p \in Pids : s # p
BY DaemonAssumption

\* A process that ends takes nothing from the others.
LEMMA EndKeepsAlone ==
  ASSUME TypeOK, Alone, NEW p \in Pids,
         proc' = [proc EXCEPT ![p] = "free"],
         nameless' = nameless \ {p}, raced' = raced \ {p},
         pidFile' = pidFile, writers \ {p} \subseteq writers', target' = target,
         \A s \in Shells : \/ cmd'[s] = cmd[s]
                           \/ cmd[s] # "idle" /\ cmd'[s] # "idle" /\ target[s] = p
  PROVE  Alone'
<1>1. proc'[p] = "free" /\ \A q \in Pids \ {p} : proc'[q] = proc[q]
  BY DEF TypeOK
<1>2. RacedInv'
  <2>1. \A x \in UnderWay' : x \in UnderWay /\ x # p
    BY <1>1, Disjoint DEF UnderWay, Starting
  <2> QED
    BY <2>1 DEF Alone, RacedInv
<1>3. StartInv'
  BY <1>1 DEF Alone, StartInv
<1>4. NamedInv'
  <2> SUFFICES ASSUME NEW q \in Pids, Named(q)'
               PROVE  /\ pidFile' = q
                      /\ \A r \in Pids : proc'[r] \notin Starting
                      /\ \A s \in Shells : cmd'[s] # "idle" =>
                           /\ cmd'[s] \in {"stop_term", "stop_wait", "stop_kill"}
                           /\ target'[s] = q
    BY DEF NamedInv
  <2>1. q # p /\ Named(q)
    BY <1>1 DEF Named, Serving
  <2>2. /\ pidFile = q
        /\ \A r \in Pids : proc[r] \notin Starting
        /\ \A s \in Shells : cmd[s] # "idle" =>
             cmd[s] \in {"stop_term", "stop_wait", "stop_kill"} /\ target[s] = q
    BY <2>1 DEF Alone, NamedInv
  <2>3. \A r \in Pids : proc'[r] \notin Starting
    BY <1>1, <2>2 DEF Starting
  <2> QED
    BY <2>1, <2>2, <2>3
<1> QED
  BY <1>2, <1>3, <1>4 DEF Alone

\* A step that moves a stop, or sets a flag, does no more.
LEMMA MoveKeepsAlone ==
  ASSUME TypeOK, Alone, UNCHANGED <<proc, nameless, raced, pidFile, writers, target>>,
         \A s \in Shells :
           \/ cmd'[s] = cmd[s]
           \/ /\ cmd[s] # "idle"
              /\ \/ cmd'[s] \in {"stop_term", "stop_wait", "stop_kill"}
                 \/ cmd'[s] # "idle" /\ \A q \in Pids : ~Named(q)
  PROVE  Alone'
<1>1. UnderWay' = UnderWay
  <2>1. \A s \in Shells : cmd'[s] # "idle" <=> cmd[s] # "idle"
    OBVIOUS
  <2> QED
    BY <2>1 DEF UnderWay
<1>2. RacedInv' /\ StartInv'
  BY <1>1 DEF Alone, RacedInv, StartInv
<1>3. \A q \in Pids : Named(q)' <=> Named(q)
  BY DEF Named, Serving
<1>4. NamedInv'
  <2> SUFFICES ASSUME NEW q \in Pids, Named(q)
               PROVE  /\ pidFile = q
                      /\ \A r \in Pids : proc[r] \notin Starting
                      /\ \A s \in Shells : cmd'[s] # "idle" =>
                           /\ cmd'[s] \in {"stop_term", "stop_wait", "stop_kill"}
                           /\ target[s] = q
    BY <1>3 DEF NamedInv
  <2> QED
    BY DEF Alone, NamedInv
<1> QED
  BY <1>2, <1>4 DEF Alone

\* A start or a stop that begins leaves itself alone, or has raced with every other.
LEMMA BeginKeepsRaced ==
  ASSUME TypeOK, Alone, NEW s \in Shells, Begin(s), UNCHANGED proc,
         \A r \in Shells \ {s} : cmd'[r] = cmd[r]
  PROVE  /\ RacedInv' /\ raced \subseteq raced'
         /\ \A p \in Pids : proc[p] \in Starting => p \in raced'
<1>1. UnderWay' \subseteq UnderWay \cup {s} /\ s \notin UnderWay
  BY Disjoint DEF UnderWay, Begin
<1>2. CASE UnderWay = {}
  BY <1>1, <1>2 DEF RacedInv, Begin, UnderWay
<1>3. CASE UnderWay # {}
  BY <1>1, <1>3 DEF RacedInv, Begin, UnderWay
<1> QED
  BY <1>2, <1>3

LEMMA AloneCommand ==
  ASSUME TypeOK, Alone, NEW s \in Shells, Command(s)
  PROVE  Alone'
<1> USE DEF fileVars, procVars
<1>1. CASE LaunchCheck(s)
  <2>1. /\ RacedInv' /\ raced \subseteq raced'
        /\ \A p \in Pids : proc[p] \in Starting => p \in raced'
    BY <1>1, BeginKeepsRaced DEF LaunchCheck, Goto, TypeOK
  <2>2. StartInv'
    BY <1>1, <2>1 DEF LaunchCheck, Alone, StartInv
  <2>3. \A p \in Pids : ~Named(p)
    <3> SUFFICES ASSUME NEW p \in Pids, Named(p) PROVE FALSE
      OBVIOUS
    <3>1. pidFile = p
      BY DEF Alone, NamedInv
    <3>2. readPid = {p} /\ Alive(p)
      BY <3>1, DaemonAssumption DEF readPid, Alive, Named, Serving
    <3> QED
      BY <1>1, <3>2 DEF LaunchCheck, isRunning
  <2>4. \A p \in Pids : ~Named(p)'
    BY <1>1, <2>1, <2>3 DEF LaunchCheck, Named, Serving
  <2> QED
    BY <2>1, <2>2, <2>4 DEF Alone, NamedInv
<1>2. CASE StopRead(s)
  <2>1. /\ RacedInv' /\ raced \subseteq raced'
        /\ \A p \in Pids : proc[p] \in Starting => p \in raced'
    BY <1>2, BeginKeepsRaced DEF StopRead, Goto, TypeOK
  <2>2. StartInv'
    BY <1>2, <2>1 DEF StopRead, Alone, StartInv
  <2>3. NamedInv'
    <3> SUFFICES ASSUME NEW q \in Pids, Named(q)'
                 PROVE  /\ pidFile' = q
                        /\ \A r \in Pids : proc'[r] \notin Starting
                        /\ \A r \in Shells : cmd'[r] # "idle" =>
                             /\ cmd'[r] \in {"stop_term", "stop_wait", "stop_kill"}
                             /\ target'[r] = q
      BY DEF NamedInv
    <3>1. Named(q)
      BY <1>2, <2>1 DEF StopRead, Named, Serving
    <3>2. /\ pidFile = q
          /\ \A r \in Pids : proc[r] \notin Starting
          /\ \A r \in Shells : cmd[r] # "idle" =>
               cmd[r] \in {"stop_term", "stop_wait", "stop_kill"} /\ target[r] = q
      BY <3>1 DEF Alone, NamedInv
    <3>3. cmd'[s] = "stop_term" /\ target'[s] = q
      BY <1>2, <3>2, DaemonAssumption DEF StopRead, Goto, readPid, TypeOK
    <3>4. \A r \in Shells \ {s} : cmd'[r] = cmd[r] /\ target'[r] = target[r]
      BY <1>2 DEF StopRead, Goto, TypeOK
    <3> QED
      BY <1>2, <3>2, <3>3, <3>4 DEF StopRead
  <2> QED
    BY <2>1, <2>2, <2>3 DEF Alone
<1>3. CASE Reload(s)
  <2>1. PICK p \in readPid : Alive(p) /\ Hangup(p)
    BY <1>3 DEF Reload
  <2>2. p \in Pids
    BY <2>1 DEF readPid, Alive, TypeOK
  <2>3. CASE DefaultAction(p)
    <3>1. Ended(p) /\ UNCHANGED <<pidFile, writers, cmd, target>>
      BY <1>3, <2>1, <2>3 DEF Reload, Hangup
    <3>2. /\ proc' = [proc EXCEPT ![p] = "free"]
          /\ nameless' = nameless \ {p} /\ raced' = raced \ {p}
          /\ pidFile' = pidFile /\ writers \ {p} \subseteq writers' /\ target' = target
          /\ \A r \in Shells : cmd'[r] = cmd[r]
      BY <3>1 DEF Ended
    <3> QED
      BY <2>2, <3>2, EndKeepsAlone
  <2>4. CASE ~DefaultAction(p)
    BY <1>3, <2>1, <2>2, <2>4, MoveKeepsAlone DEF Reload, Hangup
  <2> QED
    BY <2>3, <2>4
<1> QED
  BY <1>1, <1>2, <1>3 DEF Command

LEMMA AloneCommandStep ==
  ASSUME TypeOK, Alone, NEW s \in Shells, CommandStep(s)
  PROVE  Alone'
<1> USE DEF fileVars, procVars
<1>1. CASE LaunchForkFails(s) \/ StopRemove(s)
  <2>1. /\ cmd[s] \in {"fork", "stop_remove"}
        /\ cmd'[s] = "idle" /\ \A r \in Shells \ {s} : cmd'[r] = cmd[r]
        /\ raced' = raced \ {s} /\ UNCHANGED <<proc, nameless>>
    BY <1>1 DEF LaunchForkFails, StopRemove, Goto, Successor, TypeOK
  <2>2. \A x \in UnderWay' : x \in UnderWay /\ x # s
    BY <2>1, Disjoint DEF UnderWay
  <2>3. RacedInv'
    BY <2>1, <2>2 DEF Alone, RacedInv
  <2>4. \A p \in Pids : ~Named(p)'
    <3>1. \A p \in Pids : ~Named(p)
      BY <2>1 DEF Alone, NamedInv
    <3> QED
      BY <2>1, <3>1, Disjoint DEF Named, Serving
  <2>5. \A p \in Pids : proc[p] \in Starting => p \in raced'
    <3>1. \A p \in Pids : proc[p] \in Starting => p \in UnderWay /\ p # s
      BY Disjoint DEF UnderWay
    <3>2. s \in UnderWay
      BY <2>1 DEF UnderWay
    <3> QED
      BY <2>1, <3>1, <3>2 DEF Alone, RacedInv
  <2>6. StartInv'
    BY <2>1, <2>5 DEF StartInv, Starting
  <2> QED
    BY <2>3, <2>4, <2>6 DEF Alone, NamedInv
<1>2. ASSUME NEW p \in Pids, LaunchFork(s, p) PROVE Alone'
  <2>1. /\ cmd[s] = "fork" /\ proc[p] = "free" /\ proc'[p] = "session"
        /\ cmd'[s] = "idle" /\ \A r \in Shells \ {s} : cmd'[r] = cmd[r]
        /\ \A q \in Pids \ {p} : proc'[q] = proc[q]
        /\ raced' = (IF s \in raced THEN (raced \ {s}) \cup {p} ELSE raced)
        /\ UNCHANGED <<nameless, pidFile, writers>>
    BY <1>2 DEF LaunchFork, Goto, Become, Successor, TypeOK
  <2>2. \A x \in UnderWay' : x = p \/ (x \in UnderWay /\ x # s)
    BY <2>1, Disjoint DEF UnderWay
  <2>3. s \in UnderWay
    BY <2>1 DEF UnderWay
  <2>4. RacedInv'
    BY <2>1, <2>2, <2>3 DEF Alone, RacedInv
  <2>5. \A q \in Pids : ~Named(q)'
    <3>1. \A q \in Pids : ~Named(q)
      BY <2>1 DEF Alone, NamedInv
    <3> QED
      BY <2>1, <3>1, Disjoint DEF Named, Serving
  <2>6. StartInv'
    <3>1. \A q \in Pids \ raced' : q \in Pids \ raced
      BY <2>1, Disjoint
    <3> QED
      BY <2>1, <3>1 DEF Alone, StartInv
  <2> QED
    BY <2>4, <2>5, <2>6 DEF Alone, NamedInv
<1>3. CASE StopTerm(s)
  <2>1. CASE Alive(target[s])
    <3>1. /\ target[s] \in Pids /\ Terminate(target[s])
          /\ cmd[s] # "idle" /\ cmd'[s] = "stop_wait" /\ \A r \in Shells \ {s} : cmd'[r] = cmd[r]
          /\ UNCHANGED <<pidFile, writers, target>>
      BY <1>3, <2>1 DEF StopTerm, Alive, Goto, TypeOK
    <3>2. CASE DefaultAction(target[s])
      <4>1. PICK p \in Pids : p = target[s]
        BY <3>1
      <4>2. /\ proc' = [proc EXCEPT ![p] = "free"]
            /\ nameless' = nameless \ {p} /\ raced' = raced \ {p}
            /\ pidFile' = pidFile /\ writers \ {p} \subseteq writers' /\ target' = target
        BY <3>1, <3>2, <4>1 DEF Terminate, Ended
      <4>3. \A r \in Shells : \/ cmd'[r] = cmd[r]
                              \/ cmd[r] # "idle" /\ cmd'[r] # "idle" /\ target[r] = p
        BY <3>1, <4>1
      <4> QED
        BY <4>2, <4>3, EndKeepsAlone
    <3>3. CASE ~DefaultAction(target[s])
      BY <3>1, <3>3, MoveKeepsAlone DEF Terminate
    <3> QED
      BY <3>2, <3>3
  <2>2. CASE ~Alive(target[s])
    <3>1. /\ cmd[s] = "stop_term" /\ cmd'[s] = "idle" /\ \A r \in Shells \ {s} : cmd'[r] = cmd[r]
          /\ raced' = raced \ {s} /\ UNCHANGED <<proc, nameless, pidFile, writers, target>>
      BY <1>3, <2>2 DEF StopTerm, Goto, Successor, TypeOK
    <3>2. \A x \in UnderWay' : x \in UnderWay /\ x # s
      BY <3>1, Disjoint DEF UnderWay
    <3>3. RacedInv'
      BY <3>1, <3>2 DEF Alone, RacedInv
    <3>4. \A p \in Pids \ raced' : p \in Pids \ raced
      BY <3>1, Disjoint
    <3>5. StartInv'
      BY <3>1, <3>4 DEF Alone, StartInv
    <3>6. \A q \in Pids : Named(q)' => Named(q) /\ FALSE
      <4> SUFFICES ASSUME NEW q \in Pids, Named(q)' PROVE Named(q) /\ FALSE
        OBVIOUS
      <4>1. Named(q)
        BY <3>1, <3>4 DEF Named, Serving
      <4>2. target[s] = q
        BY <3>1, <4>1 DEF Alone, NamedInv
      <4> QED
        BY <2>2, <4>1, <4>2, DaemonAssumption DEF Alive, Named, Serving
    <3> QED
      BY <3>3, <3>5, <3>6 DEF Alone, NamedInv
  <2> QED
    BY <2>1, <2>2
<1>4. CASE StopRecheck(s)
  <2>1. cmd'[s] = "stop_remove" => \A q \in Pids : ~Named(q)
    <3> SUFFICES ASSUME cmd'[s] = "stop_remove", NEW q \in Pids, Named(q) PROVE FALSE
      OBVIOUS
    <3>1. pidFile = q
      BY DEF Alone, NamedInv
    <3>2. isRunning = {TRUE}
      BY <3>1, DaemonAssumption DEF isRunning, readPid, Alive, Named, Serving
    <3> QED
      BY <1>4, <3>2 DEF StopRecheck, Goto, TypeOK
  <2>2. /\ cmd[s] # "idle" /\ cmd'[s] \in {"stop_kill", "stop_remove"}
        /\ \A r \in Shells \ {s} : cmd'[r] = cmd[r]
        /\ UNCHANGED <<proc, nameless, raced, pidFile, writers, target>>
    BY <1>4 DEF StopRecheck, Goto, TypeOK
  <2> QED
    BY <2>1, <2>2, MoveKeepsAlone
<1>5. CASE StopKill(s)
  <2>1. /\ cmd[s] # "idle" /\ cmd'[s] = "stop_remove" /\ \A r \in Shells \ {s} : cmd'[r] = cmd[r]
        /\ UNCHANGED <<pidFile, target>> /\ writers' = writers \ {target[s]}
    BY <1>5 DEF StopKill, Goto, TypeOK
  <2>2. CASE Alive(target[s])
    <3>1. target[s] \in Pids /\ Ended(target[s])
      BY <1>5, <2>2 DEF StopKill, Alive, TypeOK
    <3>2. PICK p \in Pids : p = target[s]
      BY <3>1
    <3>3. /\ proc' = [proc EXCEPT ![p] = "free"]
          /\ nameless' = nameless \ {p} /\ raced' = raced \ {p}
          /\ pidFile' = pidFile /\ writers \ {p} \subseteq writers' /\ target' = target
      BY <2>1, <3>1, <3>2 DEF Ended
    <3>4. \A r \in Shells : \/ cmd'[r] = cmd[r]
                            \/ cmd[r] # "idle" /\ cmd'[r] # "idle" /\ target[r] = p
      BY <2>1, <3>2
    <3> QED
      BY <3>3, <3>4, EndKeepsAlone
  <2>3. CASE ~Alive(target[s])
    <3>1. UNCHANGED <<proc, nameless, raced>>
      BY <1>5, <2>3 DEF StopKill
    <3>2. \A q \in Pids : ~Named(q)
      <4> SUFFICES ASSUME NEW q \in Pids, Named(q) PROVE FALSE
        OBVIOUS
      <4>1. target[s] = q
        BY <2>1, DaemonAssumption DEF Alone, NamedInv
      <4> QED
        BY <2>3, <4>1, DaemonAssumption DEF Alive, Named, Serving
    <3>3. \A q \in Pids : ~Named(q)'
      BY <3>1, <3>2 DEF Named, Serving
    <3>4. RacedInv'
      <4>1. UnderWay' = UnderWay
        BY <2>1, <3>1 DEF UnderWay
      <4> QED
        BY <3>1, <4>1 DEF Alone, RacedInv
    <3>5. StartInv'
      <4>1. \A q \in Pids : proc[q] = "naming" => q # target[s]
        BY <2>3, DaemonAssumption DEF Alive
      <4> QED
        BY <2>1, <3>1, <4>1 DEF Alone, StartInv
    <3> QED
      BY <3>3, <3>4, <3>5 DEF Alone, NamedInv
  <2> QED
    BY <2>2, <2>3
<1> QED
  BY <1>1, <1>2, <1>3, <1>4, <1>5 DEF CommandStep

\* The steps of a start that did not race: no command and no other start is there.
LEMMA AloneDaemonStep ==
  ASSUME TypeOK, Alone, NEW p \in Pids, DaemonStep(p)
  PROVE  Alone'
<1>1. /\ proc[p] \in Starting /\ p \in UnderWay
      /\ \A q \in Pids : ~Named(q)
      /\ p \notin raced => \A q \in UnderWay : q = p
  <2>1. proc[p] \in Starting
    BY DEF DaemonStep, SessionFork, SetupSignalHandlers, OpenPidFile, OpenPidFileFails, WritePid,
           Serve, Become, Starting
  <2> QED
    BY <2>1 DEF UnderWay, Alone, NamedInv, RacedInv
<1>2. ASSUME NEW child \in Pids, SessionFork(p, child) PROVE Alone'
  <2>1. /\ proc[p] = "session" /\ proc[child] = "free"
        /\ proc'[p] = "free" /\ proc'[child] = "forked"
        /\ \A q \in Pids \ {p, child} : proc'[q] = proc[q]
        /\ raced' = (IF p \in raced THEN (raced \ {p}) \cup {child} ELSE raced)
        /\ UNCHANGED <<nameless, pidFile, writers, cmd>>
    BY <1>2 DEF SessionFork, Successor, TypeOK, fileVars
  <2>2. \A x \in UnderWay' : x = child \/ (x \in UnderWay /\ x # p)
    BY <2>1, Disjoint DEF UnderWay, Starting
  <2>3. RacedInv'
    BY <1>1, <2>1, <2>2 DEF Alone, RacedInv
  <2>4. StartInv'
    BY <2>1 DEF Alone, StartInv
  <2>5. \A q \in Pids : ~Named(q)'
    BY <1>1, <2>1 DEF Named, Serving
  <2> QED
    BY <2>3, <2>4, <2>5 DEF Alone, NamedInv
<1>3. ASSUME NEW to \in Starting, proc' = [proc EXCEPT ![p] = to], nameless \subseteq nameless',
             UNCHANGED <<raced, cmd>>, StartInv'
      PROVE  Alone'
  <2>1. proc'[p] = to /\ \A q \in Pids \ {p} : proc'[q] = proc[q]
    BY <1>3 DEF TypeOK
  <2>2. UnderWay' = UnderWay
    BY <1>1, <1>3, <2>1 DEF UnderWay
  <2>3. RacedInv'
    BY <1>3, <2>2 DEF Alone, RacedInv
  <2>4. \A q \in Pids : ~Named(q)'
    BY <1>1, <1>3, <2>1 DEF Named, Serving, Starting
  <2> QED
    BY <1>3, <2>3, <2>4 DEF Alone, NamedInv
<1>4. ASSUME NEW q \in Pids \ raced, q # p PROVE proc[q] \notin {"naming", "named"}
  <2>1. proc[q] \in {"naming", "named"} => q \in UnderWay
    BY DEF UnderWay, Starting
  <2> QED
    BY <1>1, <1>4, <2>1 DEF Alone, RacedInv
<1>5. CASE SetupSignalHandlers(p)
  <2>1. StartInv'
    BY <1>5 DEF SetupSignalHandlers, Become, fileVars, Alone, StartInv, TypeOK
  <2> QED
    BY <1>3, <1>5, <2>1 DEF SetupSignalHandlers, Become, Starting
<1>6. CASE OpenPidFile(p)
  <2>1. StartInv'
    BY <1>4, <1>6 DEF OpenPidFile, Become, Alone, StartInv, TypeOK
  <2> QED
    BY <1>3, <1>6, <2>1 DEF OpenPidFile, Become, Starting
<1>7. CASE OpenPidFileFails(p)
  <2>1. StartInv'
    BY <1>4, <1>7 DEF OpenPidFileFails, Become, fileVars, Alone, StartInv, TypeOK
  <2> QED
    BY <1>3, <1>7, <2>1 DEF OpenPidFileFails, Become, Starting
<1>8. CASE WritePid(p)
  <2>1. StartInv'
    BY <1>4, <1>8 DEF WritePid, Become, Alone, StartInv, TypeOK
  <2> QED
    BY <1>3, <1>8, <2>1 DEF WritePid, Become, Starting
<1>9. CASE Serve(p)
  <2>1. /\ proc[p] = "named" /\ proc'[p] = "serving"
        /\ \A q \in Pids \ {p} : proc'[q] = proc[q]
        /\ UNCHANGED <<raced, nameless, pidFile, writers, cmd>>
    BY <1>9 DEF Serve, Become, TypeOK, fileVars
  <2>2. \A x \in UnderWay' : x \in UnderWay /\ x # p
    BY <2>1, Disjoint DEF UnderWay, Starting
  <2>3. RacedInv'
    BY <2>1, <2>2 DEF Alone, RacedInv
  <2>4. StartInv'
    BY <2>1 DEF Alone, StartInv
  <2>5. NamedInv'
    <3> SUFFICES ASSUME NEW q \in Pids, Named(q)'
                 PROVE  /\ pidFile' = q
                        /\ \A r \in Pids : proc'[r] \notin Starting
                        /\ \A s \in Shells : cmd'[s] = "idle"
      BY DEF NamedInv
    <3>1. q = p /\ p \notin raced /\ p \notin nameless
      BY <1>1, <2>1 DEF Named, Serving
    <3>2. pidFile' = q
      BY <2>1, <3>1 DEF Alone, StartInv
    <3>3. UnderWay' = {}
      BY <1>1, <2>2, <3>1
    <3> QED
      BY <3>2, <3>3 DEF UnderWay
  <2> QED
    BY <2>3, <2>4, <2>5 DEF Alone
<1> QED
  BY <1>2, <1>5, <1>6, <1>7, <1>8, <1>9 DEF DaemonStep

LEMMA AloneEnvironment ==
  ASSUME TypeOK, Alone, NEW p \in Pids, Environment(p)
  PROVE  Alone'
<1>1. CASE Exit(p)
  <2>1. /\ proc' = [proc EXCEPT ![p] = "free"]
        /\ nameless' = nameless \ {p} /\ raced' = raced \ {p}
        /\ pidFile' = pidFile /\ writers \ {p} \subseteq writers' /\ target' = target
        /\ \A s \in Shells : cmd'[s] = cmd[s]
    BY <1>1 DEF Exit, Ended
  <2> QED
    BY <2>1, EndKeepsAlone
<1>2. CASE ServiceTerm(p)
  <2>1. /\ UNCHANGED <<proc, nameless, raced, pidFile, writers, target>>
        /\ \A s \in Shells : cmd'[s] = cmd[s]
    BY <1>2 DEF ServiceTerm, Serving, Terminate, DefaultAction, fileVars
  <2> QED
    BY <2>1, MoveKeepsAlone
<1>3. CASE PidReused(p) \/ ForeignEnds(p)
  <2>1. /\ {proc[p], proc'[p]} = {"free", "foreign"}
        /\ \A q \in Pids \ {p} : proc'[q] = proc[q]
        /\ UNCHANGED <<raced, nameless, pidFile, writers, cmd, target>>
    BY <1>3 DEF PidReused, ForeignEnds, Become, TypeOK, fileVars
  <2>2. UnderWay' = UnderWay /\ \A q \in Pids : Named(q)' <=> Named(q)
    BY <2>1 DEF UnderWay, Named, Serving, Starting
  <2>3. RacedInv'
    BY <2>1, <2>2 DEF Alone, RacedInv
  <2>4. StartInv'
    BY <2>1 DEF Alone, StartInv
  <2>5. NamedInv'
    <3> SUFFICES ASSUME NEW q \in Pids, Named(q)
                 PROVE  /\ pidFile = q
                        /\ \A r \in Pids : proc'[r] \notin Starting
                        /\ \A s \in Shells : cmd[s] # "idle" =>
                             /\ cmd[s] \in {"stop_term", "stop_wait", "stop_kill"}
                             /\ target[s] = q
      BY <2>1, <2>2 DEF NamedInv
    <3> QED
      BY <2>1 DEF Alone, NamedInv, Starting
  <2> QED
    BY <2>3, <2>4, <2>5 DEF Alone
<1> QED
  BY <1>1, <1>2, <1>3 DEF Environment

LEMMA AloneStep == TypeOK /\ Alone /\ [Next]_vars => Alone'
<1> SUFFICES ASSUME TypeOK, Alone, [Next]_vars PROVE Alone'
  OBVIOUS
<1>1. CASE UNCHANGED vars
  BY <1>1 DEF vars, fileVars, procVars, Alone, RacedInv, StartInv, NamedInv, UnderWay, Named, Serving
<1> QED
  BY <1>1, AloneCommand, AloneCommandStep, AloneDaemonStep, AloneEnvironment DEF Next

LEMMA AlwaysAlone == Spec => [](TypeOK /\ Alone)
<1>1. Init => Alone
  BY DEF Init, Alone, RacedInv, StartInv, NamedInv, UnderWay, Named, Serving, Starting
<1> QED
  BY <1>1, TypeCorrect, AloneStep, PTL DEF Spec

\* A daemon that was started alone and could write the PID file is found through
\* it, however stops run into each other, processes end and pids are used again.
THEOREM DaemonReachable == Spec => []Reachable
<1>1. Alone => Reachable
  BY DEF Alone, NamedInv, Reachable
<1> QED
  BY <1>1, AlwaysAlone, PTL

\* The check for a running daemon lets no second one start: the one file cannot
\* hold two pids.
THEOREM OneDaemon == Spec => []SingleDaemon
<1>1. Alone => SingleDaemon
  BY DEF Alone, NamedInv, SingleDaemon
<1> QED
  BY <1>1, AlwaysAlone, PTL

(***************************************************************************)
(* What a stop is about                                                    *)
(***************************************************************************)
Stops == {"stop_term", "stop_wait", "stop_kill", "stop_remove"}

\* What a stop that did not race finds in the file, and where its target is.
Holds(s) ==
  /\ pidFile \in {target[s], EmptyFile}
  /\ cmd[s] = "stop_remove" /\ pidFile \in Pids => proc[pidFile] \in {"free", "foreign"}

StopInv == \A s \in Shells \ raced : cmd[s] \in Stops => Holds(s)

\* Nothing else is under way while it lasts.
LEMMA StopAlone ==
  ASSUME TypeOK, Alone, NEW s \in Shells, cmd[s] # "idle", s \notin raced
  PROVE  UnderWay = {s}
BY DEF Alone, RacedInv, UnderWay

LEMMA StopCommand ==
  ASSUME TypeOK, Alone, StopInv, NEW r \in Shells, Command(r),
         NEW s \in Shells, s \notin raced', cmd'[s] \in Stops
  PROVE  Holds(s)'
<1> USE DEF fileVars, procVars
<1>1. ASSUME r # s, Begin(r), cmd'[s] = cmd[s] PROVE FALSE
  <2>1. s \in UnderWay
    BY <1>1 DEF UnderWay, Stops
  <2> QED
    BY <1>1, <2>1 DEF Begin
<1>2. CASE LaunchCheck(r)
  BY <1>1, <1>2 DEF LaunchCheck, Goto, Stops, TypeOK
<1>3. CASE StopRead(r)
  <2>1. r = s
    BY <1>1, <1>3 DEF StopRead, Goto, TypeOK
  <2>2. PICK p \in readPid \ {NoPid} : target' = [target EXCEPT ![s] = p]
    BY <1>3, <2>1 DEF StopRead
  <2>3. pidFile \in {p, EmptyFile}
    BY <2>2 DEF readPid
  <2>4. target'[s] = p /\ cmd'[s] = "stop_term" /\ UNCHANGED pidFile
    BY <1>3, <2>1, <2>2 DEF StopRead, Goto, TypeOK
  <2> QED
    BY <2>3, <2>4 DEF Holds
<1>4. CASE Reload(r)
  <2>1. PICK p \in readPid : Alive(p) /\ Hangup(p)
    BY <1>4 DEF Reload
  <2>2. p \in Pids
    BY <2>1 DEF readPid, Alive, TypeOK
  <2>3. /\ UNCHANGED <<pidFile, cmd, target>> /\ s \notin raced
        /\ \A q \in Pids : proc'[q] \in {proc[q], "free"}
    <3>1. p # s
      BY <2>2, Disjoint
    <3> QED
      BY <1>4, <2>1, <2>2, <3>1 DEF Reload, Hangup, Ended, TypeOK
  <2> QED
    BY <2>3 DEF StopInv, Holds
<1> QED
  BY <1>2, <1>3, <1>4 DEF Command

LEMMA StopCommandStep ==
  ASSUME TypeOK, Alone, StopInv, NEW r \in Shells, CommandStep(r),
         NEW s \in Shells, s \notin raced', cmd'[s] \in Stops
  PROVE  Holds(s)'
<1> USE DEF fileVars, procVars
<1>1. cmd[r] # "idle" /\ \A x \in Shells \ {r} : cmd'[x] = cmd[x]
  BY DEF CommandStep, LaunchForkFails, LaunchFork, StopTerm, StopRecheck, StopKill, StopRemove,
         Goto, TypeOK
<1>2. \A x \in Shells : x \in raced /\ x # r => x \in raced'
  <2>1. ASSUME target[r] \in Pids PROVE \A x \in Shells : x # target[r]
    BY <2>1, Disjoint
  <2>2. Alive(target[r]) => target[r] \in Pids
    BY DEF Alive, TypeOK
  <2> QED
    BY <2>1, <2>2 DEF CommandStep, LaunchForkFails, LaunchFork, StopTerm, StopRecheck, StopKill,
       StopRemove, Successor, Terminate, Ended
<1>3. r = s
  <2> SUFFICES ASSUME r # s PROVE FALSE
    OBVIOUS
  <2>1. cmd[s] # "idle" /\ s \notin raced
    BY <1>1, <1>2 DEF Stops
  <2>2. r \in UnderWay
    BY <1>1 DEF UnderWay
  <2> QED
    BY <2>1, <2>2, StopAlone
<1>4. \A q \in Pids : s # q
  BY Disjoint
<1>5. CASE StopTerm(s)
  <2>1. Alive(target[s]) /\ target[s] \in Pids /\ Terminate(target[s])
    BY <1>5 DEF StopTerm, Goto, Alive, Stops, TypeOK
  <2>2. cmd[s] = "stop_term" /\ cmd'[s] = "stop_wait" /\ UNCHANGED <<pidFile, target>>
    BY <1>5, <2>1 DEF StopTerm, Goto, TypeOK
  <2>3. s \notin raced
    BY <1>4, <2>1 DEF Terminate, Ended
  <2> QED
    BY <2>2, <2>3 DEF StopInv, Holds, Stops
<1>6. CASE StopRecheck(s)
  <2>1. PICK run \in isRunning :
          Goto(s, "stop_wait", IF run THEN "stop_kill" ELSE "stop_remove")
    BY <1>6 DEF StopRecheck
  <2>2. run \in BOOLEAN
    BY DEF isRunning, Alive
  <2>3. /\ cmd[s] = "stop_wait" /\ cmd'[s] \in {"stop_kill", "stop_remove"} /\ s \notin raced
        /\ UNCHANGED <<pidFile, proc, target>>
        /\ cmd'[s] = "stop_remove" => FALSE \in isRunning
    BY <1>6, <2>1, <2>2 DEF StopRecheck, Goto, TypeOK
  <2>4. pidFile \in Pids /\ FALSE \in isRunning => proc[pidFile] = "free"
    BY DaemonAssumption DEF isRunning, readPid, Alive
  <2> QED
    BY <2>3, <2>4 DEF StopInv, Holds, Stops
<1>7. CASE StopKill(s)
  <2>1. /\ cmd[s] = "stop_kill" /\ cmd'[s] = "stop_remove" /\ UNCHANGED <<pidFile, target>>
    BY <1>7 DEF StopKill, Goto, TypeOK
  <2>2. s \notin raced
    <3>1. Alive(target[s]) => target[s] \in Pids
      BY DEF Alive, TypeOK
    <3> QED
      BY <1>4, <1>7, <3>1 DEF StopKill, Ended
  <2>3. pidFile \in {target[s], EmptyFile}
    BY <2>1, <2>2 DEF StopInv, Holds, Stops
  <2>4. target[s] \in Pids => proc'[target[s]] = "free"
    BY <1>7, DaemonAssumption DEF StopKill, Alive, Ended, TypeOK
  <2> QED
    BY <2>1, <2>3, <2>4, DaemonAssumption DEF Holds
<1> QED
  BY <1>3, <1>5, <1>6, <1>7
     DEF CommandStep, LaunchForkFails, LaunchFork, StopRemove, Goto, Stops, TypeOK

LEMMA StopStep == TypeOK /\ Alone /\ StopInv /\ [Next]_vars => StopInv'
<1> SUFFICES ASSUME TypeOK, Alone, StopInv, [Next]_vars,
                    NEW s \in Shells, s \notin raced', cmd'[s] \in Stops
             PROVE  Holds(s)'
  BY DEF StopInv
<1>1. CASE UNCHANGED vars
  BY <1>1 DEF vars, fileVars, procVars, StopInv, Holds
<1>2. ASSUME NEW p \in Pids, DaemonStep(p) PROVE Holds(s)'
  <2>1. /\ proc[p] \in Starting /\ UNCHANGED cmd
        /\ \A x \in Shells : x \in raced => x \in raced'
    BY <1>2, Disjoint
       DEF DaemonStep, SessionFork, SetupSignalHandlers, OpenPidFile, OpenPidFileFails, WritePid,
           Serve, Become, Starting, Successor
  <2>2. p \in UnderWay /\ p # s
    BY <2>1, Disjoint DEF UnderWay
  <2> QED
    BY <2>1, <2>2, StopAlone DEF Stops
<1>3. ASSUME NEW p \in Pids, Environment(p) PROVE Holds(s)'
  <2>1. p # s
    BY Disjoint
  <2>2. /\ UNCHANGED <<pidFile, cmd, target>> /\ s \notin raced
        /\ \A q \in Pids : proc'[q] \in {proc[q], "free", "foreign"}
    BY <1>3, <2>1
       DEF Environment, Exit, Ended, ServiceTerm, Serving, Terminate, DefaultAction, PidReused,
           ForeignEnds, Become, TypeOK, fileVars
  <2> QED
    BY <2>2 DEF StopInv, Holds, TypeOK
<1> QED
  BY <1>1, <1>2, <1>3, StopCommand, StopCommandStep DEF Next

\* While a daemon that was started alone serves, it is the target of every stop; and
\* a stop that is alone finds one file throughout, and removes it only when there is
\* no daemon any more with the pid that is in it.
THEOREM StopsAgree == Spec => []StopHitsDaemon
<1>1. Init => StopInv
  BY DEF Init, StopInv, Stops
<1>2. TypeOK /\ Alone /\ StopInv => StopHitsDaemon
  <2> SUFFICES ASSUME TypeOK, Alone, StopInv, NEW s \in Shells, cmd[s] \in Stops
               PROVE  /\ \A p \in Pids : Named(p) => target[s] = p
                      /\ s \notin raced =>
                           /\ pidFile \in {target[s], EmptyFile}
                           /\ cmd[s] = "stop_remove" =>
                                \A p \in Pids : pidFile = p => proc[p] \in {"free", "foreign"}
    BY DEF StopHitsDaemon, Stops
  <2>1. \A p \in Pids : Named(p) => target[s] = p
    BY DEF Alone, NamedInv, Stops
  <2> QED
    BY <2>1 DEF StopInv, Holds
<1> QED
  BY <1>1, <1>2, StopStep, AlwaysAlone, PTL DEF Spec

=============================================================================
