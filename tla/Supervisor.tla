------------------------------- MODULE Supervisor -------------------------------
(***************************************************************************)
(* The parent process of --reload and --workers (supervisors/): BaseReload *)
(* with its three ways to find a change (StatReload, WatchFilesReload,     *)
(* WatchGodReload) and Multiprocess.  Both start the server in child       *)
(* processes (_subprocess.py), wait for a signal in should_exit, and       *)
(* terminate and join the children; BaseReload also replaces its child     *)
(* when a watched file changes.                                            *)
(*                                                                         *)
(* The watched files are one file with a modification time; the file       *)
(* system, the signals and the children run between any two steps of the   *)
(* parent.  Systems other than Windows.                                    *)
(***************************************************************************)
EXTENDS Naturals, Sequences

CONSTANTS
    Workers,        \* config.workers
    MaxSaves,       \* bound: times the file is saved
    MaxSignals      \* bound: signals sent from outside

ASSUME ConstantsAssumption ==
    /\ Workers \in Nat \ {0}
    /\ MaxSaves \in Nat /\ MaxSignals \in Nat

VARIABLES
    kind,       \* of supervisor: "stat", "watchfiles", "watchgod", "workers"
    pc,         \* the parent: "start": is to start a process; "wait"; "scan";
                \* "restart": has found a change; "rejoin": in its join();
                \* "stop", "join": in shutdown(); "done"
    shouldExit,
    processes,  \* started so far, each with its state "boot": has no signal
                \* handler yet, "serve", "leave": shuts down, "dead", and the
                \* file it has loaded (None while it boots)
    current,    \* shutdown(): the process to stop
    mtime,      \* of the file: 1, 2, ...
    known,      \* the time the reloader compares with, or None
    signals     \* sent so far

vars == <<kind, pc, shouldExit, processes, current, mtime, known, signals>>

None      == 0
Reloaders == {"stat", "watchfiles", "watchgod"}
Total     == IF kind = "workers" THEN Workers ELSE 1
Last      == Len(processes)

Process   == [state : {"boot", "serve", "leave", "dead"}, loaded : 0 .. MaxSaves + 1]

TypeOK ==
    /\ kind \in Reloaders \cup {"workers"}
    /\ pc \in {"start", "wait", "scan", "restart", "rejoin", "stop", "join", "done"}
    /\ shouldExit \in BOOLEAN
    /\ processes \in Seq(Process)
    /\ current \in 1 .. Last + 1
    /\ mtime \in 1 .. MaxSaves + 1 /\ known \in 0 .. mtime
    /\ signals \in 0 .. MaxSignals

\* WatchGod's watchers have read the files when they were made, the others begin
\* with their first look.
FirstNoted == IF kind = "watchgod" THEN 1 ELSE None

\* The signal handlers are installed.
Init ==
    /\ kind \in Reloaders \cup {"workers"}
    /\ pc = "start" /\ shouldExit = FALSE
    /\ processes = <<>> /\ current = 1
    /\ mtime = 1 /\ known = FirstNoted
    /\ signals = 0

-----------------------------------------------------------------------------
(* Signals, and the children.                                              *)

\* handle_exit of the server in a child; before the server has installed it the
\* signal kills.  Only a second signal that is a SIGINT forces the exit.
Signalled(p, sigint) ==
    [p EXCEPT !.state = CASE p.state = "boot"             -> "dead"
                          [] p.state = "serve"            -> "leave"
                          [] p.state = "leave" /\ sigint  -> "dead"
                          [] OTHER                        -> p.state]

\* A signal for the parent alone (kill), or CTRL+C in its terminal, which its
\* children get too.
Signal(ctrlC) ==
    /\ pc # "done" /\ signals < MaxSignals
    /\ signals' = signals + 1
    /\ shouldExit' = TRUE
    /\ processes' = IF ctrlC THEN [k \in 1 .. Last |-> Signalled(processes[k], TRUE)]
                             ELSE processes
    /\ UNCHANGED <<kind, pc, current, mtime, known>>

Becomes(k, p) ==
    /\ processes' = [processes EXCEPT ![k] = p]
    /\ UNCHANGED <<kind, pc, shouldExit, current, mtime, known, signals>>

\* The child loads the application as it is on the disk, and serves.
ChildLoads(k) ==
    /\ processes[k].state = "boot"
    /\ Becomes(k, [state |-> "serve", loaded |-> mtime])

\* Its graceful shutdown ends.
ChildLeaves(k) ==
    /\ processes[k].state = "leave"
    /\ Becomes(k, [processes[k] EXCEPT !.state = "dead"])

\* The application cannot be loaded, or the process dies.
ChildFails(k) ==
    /\ processes[k].state \in {"boot", "serve"}
    /\ Becomes(k, [processes[k] EXCEPT !.state = "dead"])

Save ==
    /\ mtime <= MaxSaves
    /\ mtime' = mtime + 1
    /\ UNCHANGED <<kind, pc, shouldExit, processes, current, known, signals>>

-----------------------------------------------------------------------------
(* startup(), and the start at the end of restart().                       *)

StartProcess ==
    /\ pc = "start"
    /\ processes' = Append(processes, [state |-> "boot", loaded |-> None])
    /\ pc' = IF Len(processes) + 1 < Total THEN "start" ELSE "wait"
    /\ UNCHANGED <<kind, shouldExit, current, mtime, known, signals>>

(* run() and pause(): should_exit is set, or the delay is over.            *)

StopWaiting ==
    /\ pc = "wait" /\ shouldExit
    /\ pc' = "stop"
    /\ current' = IF kind = "workers" THEN 1 ELSE Last
    /\ UNCHANGED <<kind, shouldExit, processes, mtime, known, signals>>

DelayOver ==
    /\ pc = "wait" /\ ~shouldExit /\ kind # "workers"
    /\ pc' = "scan"
    /\ UNCHANGED <<kind, shouldExit, processes, current, mtime, known, signals>>

\* should_restart().  StatReload keeps the time it has noted and forgets it in
\* restart(); a watcher reports a change once.
Noted(old)  == IF kind = "stat" /\ old # None THEN old ELSE mtime
ForgetTimes == known' = IF kind = "stat" THEN None ELSE known

\* (mutant: StatReload notes the time before it compares)
NotedFirst(old) == kind # "stat" /\ old # None /\ mtime > old
Changed(old)    == old # None /\ mtime > old
Scan ==
    /\ pc = "scan"
    /\ pc' = IF Changed(known) THEN "restart" ELSE "wait"
    /\ known' = Noted(known)
    /\ UNCHANGED <<kind, shouldExit, processes, current, mtime, signals>>

\* watchfiles ends its iteration when should_exit is set.
ScanStops ==
    /\ pc = "scan" /\ kind = "watchfiles" /\ shouldExit
    /\ pc' = "stop"
    /\ current' = Last
    /\ UNCHANGED <<kind, shouldExit, processes, mtime, known, signals>>

(* restart() and shutdown().                                               *)

\* process.terminate().  (mutant: the child is not signalled)
LeavesAlone(k) == UNCHANGED processes
Terminates(k)  ==
    processes' = [processes EXCEPT ![k] = Signalled(processes[k], FALSE)]

Restart ==
    /\ pc = "restart"
    /\ pc' = "rejoin"
    /\ ForgetTimes
    /\ Terminates(Last)
    /\ UNCHANGED <<kind, shouldExit, current, mtime, signals>>

\* process.join() returns.  (mutant: does not wait)
AnyState(k) == k \in 1 .. Last
Joined(k)   == processes[k].state = "dead"

RestartJoins ==
    /\ pc = "rejoin" /\ Joined(Last)
    /\ pc' = "start"
    /\ UNCHANGED <<kind, shouldExit, processes, current, mtime, known, signals>>

\* One process after the other.
Stop ==
    /\ pc = "stop"
    /\ IF current > Last THEN pc' = "done" /\ UNCHANGED processes
                         ELSE pc' = "join" /\ Terminates(current)
    /\ UNCHANGED <<kind, shouldExit, current, mtime, known, signals>>

StopJoins ==
    /\ pc = "join" /\ Joined(current)
    /\ pc' = "stop"
    /\ current' = current + 1
    /\ UNCHANGED <<kind, shouldExit, processes, mtime, known, signals>>

-----------------------------------------------------------------------------
Parent == \/ StartProcess \/ StopWaiting \/ DelayOver \/ Scan \/ ScanStops
          \/ Restart \/ RestartJoins \/ Stop \/ StopJoins

Environment == \/ \E ctrlC \in BOOLEAN : Signal(ctrlC)
               \/ Save
               \/ \E k \in 1 .. Last : ChildLoads(k) \/ ChildLeaves(k) \/ ChildFails(k)

Next == Parent \/ Environment

Spec == Init /\ [][Next]_vars

\* The parent runs, and a child that shuts down ends: its clients finish, or
\* timeout_graceful_shutdown is set.
FairSpec ==
    /\ Spec
    /\ WF_vars(Parent)
    /\ WF_vars(\E k \in 1 .. Last : ChildLeaves(k))

-----------------------------------------------------------------------------
\* A reloader never has two servers on its sockets, and a supervisor that has
\* ended leaves no process behind, whenever the signals came.
NoProcessLeft ==
    \A k \in 1 .. Last : processes[k].state # "dead" =>
        /\ pc # "done"
        /\ kind \in Reloaders => k = Last

\* A signal, at any point of startup, scan or restart, ends the supervisor.
SignalEnds == shouldExit ~> pc = "done"

\* A child that has loaded v is replaced after the file has changed, if v is
\* not older than what the reloader compares with.
Loaded(v) == /\ pc \in {"wait", "scan"} /\ kind \in Reloaders
             /\ processes[Last].loaded = v

ChangeReloads == \A v \in 1 .. MaxSaves :
    Loaded(v) /\ known # None /\ known <= v /\ v < mtime ~> ~Loaded(v) \/ shouldExit
=============================================================================
