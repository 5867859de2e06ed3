---------------------------- MODULE SupervisorProofs ----------------------------
(***************************************************************************)
(* Safety of the supervisors for any number of workers, saves and signals. *)
(***************************************************************************)
EXTENDS Supervisor, SequenceTheorems, TLAPS

Kinds  == Reloaders \cup {"workers"}
States == {"boot", "serve", "leave", "dead"}

-----------------------------------------------------------------------------
(* Steps of the sequence of processes.                                     *)

\* The dead stay dead, and no process comes or goes.
Survive ==
    /\ Len(processes') = Len(processes)
    /\ \A k \in 1 .. Last : processes[k].state = "dead" => processes'[k].state = "dead"

LEMMA ProcessesTyped ==
    ASSUME processes \in Seq(Process)
    PROVE  /\ Last \in Nat
           /\ \A k \in 1 .. Last : processes[k] \in Process
BY LenProperties DEF Last

LEMMA SignalledTyped ==
    ASSUME NEW p \in Process, NEW sigint \in BOOLEAN
    PROVE  /\ Signalled(p, sigint) \in Process
           /\ p.state = "dead" => Signalled(p, sigint).state = "dead"
<1> DEFINE s == CASE p.state = "boot"            -> "dead"
                  [] p.state = "serve"           -> "leave"
                  [] p.state = "leave" /\ sigint -> "dead"
                  [] OTHER                       -> p.state
<1>1. s \in States /\ (p.state = "dead" => s = "dead")
    BY DEF Process, States
<1>2. Signalled(p, sigint) = [p EXCEPT !.state = s]
    BY DEF Signalled
<1> HIDE DEF s
<1>3. QED
    BY <1>1, <1>2 DEF Process, States

LEMMA BecomesTyped ==
    ASSUME processes \in Seq(Process), NEW k \in 1 .. Last, NEW p \in Process,
           processes[k].state = "dead" => p.state = "dead",
           processes' = [processes EXCEPT ![k] = p]
    PROVE  processes' \in Seq(Process) /\ Survive
<1>1. /\ processes' \in Seq(Process) /\ Len(processes') = Len(processes)
      /\ \A j \in 1 .. Len(processes) :
            processes'[j] = IF j = k THEN p ELSE processes[j]
    BY ExceptSeq DEF Last
<1>2. QED
    BY <1>1 DEF Survive, Last

LEMMA AllSignalled ==
    ASSUME processes \in Seq(Process),
           processes' = [k \in 1 .. Last |-> Signalled(processes[k], TRUE)]
    PROVE  processes' \in Seq(Process) /\ Survive
<1>1. \A k \in 1 .. Last : Signalled(processes[k], TRUE) \in Process
    BY ProcessesTyped, SignalledTyped
<1>2. Last \in Nat
    BY ProcessesTyped
<1>3. processes' \in [1 .. Last -> Process]
    BY <1>1
<1>5. processes' \in Seq(Process)
    BY <1>2, <1>3, SeqDef
<1>6. 1 .. Len(processes') = 1 .. Last /\ Len(processes') \in Nat
    BY <1>3, <1>5, LenProperties
<1>7. Len(processes') = Last
    BY <1>2, <1>6
<1>4. \A k \in 1 .. Last : processes[k].state = "dead" => processes'[k].state = "dead"
    BY ProcessesTyped, SignalledTyped
<1>8. QED
    BY <1>4, <1>5, <1>7 DEF Survive, Last

LEMMA TerminatesTyped ==
    ASSUME processes \in Seq(Process), NEW k \in 1 .. Last, Terminates(k)
    PROVE  processes' \in Seq(Process) /\ Survive
<1>1. /\ Signalled(processes[k], FALSE) \in Process
      /\ processes[k].state = "dead" => Signalled(processes[k], FALSE).state = "dead"
    BY ProcessesTyped, SignalledTyped
<1>2. QED
    BY <1>1, BecomesTyped DEF Terminates

-----------------------------------------------------------------------------
(* The inductive invariant: shutdown() has joined the processes before     *)
(* current, restart() the one it replaces.                                 *)

Stopping == pc \in {"stop", "join", "done"}

StopInv ==
    /\ Stopping => /\ \A k \in 1 .. Last : k < current => processes[k].state = "dead"
                   /\ pc = "join" => current <= Last
                   /\ pc = "done" => current > Last
    /\ pc # "start" => Last # 0

OneInv ==
    kind \in Reloaders =>
        \A k \in 1 .. Last : pc = "start" \/ k # Last => processes[k].state = "dead"

ParentInv == TypeOK /\ StopInv /\ OneInv

\* Steps of the environment: the parent stays where it is.
LEMMA EnvironmentKeeps ==
    ASSUME ParentInv, Survive, UNCHANGED <<pc, current, kind>>
    PROVE  StopInv' /\ OneInv'
<1>1. Last' = Last
    BY DEF Survive, Last
<1>2. StopInv'
    BY <1>1 DEF ParentInv, StopInv, Stopping, Survive
<1>3. OneInv'
    BY <1>1 DEF ParentInv, OneInv, Survive
<1>4. QED
    BY <1>2, <1>3

LEMMA BecomesKeeps ==
    ASSUME ParentInv, NEW k \in 1 .. Last, NEW p \in Process, Becomes(k, p),
           processes[k].state # "dead" \/ p.state = "dead"
    PROVE  ParentInv'
<1>1. processes' \in Seq(Process) /\ Survive
    BY BecomesTyped DEF ParentInv, TypeOK, Becomes
<1>2. StopInv' /\ OneInv'
    BY <1>1, EnvironmentKeeps DEF Becomes
<1>3. current' \in 1 .. Last' + 1
    BY <1>1 DEF ParentInv, TypeOK, Becomes, Survive, Last
<1>4. TypeOK'
    BY <1>1, <1>3 DEF ParentInv, TypeOK, Becomes
<1>5. QED
    BY <1>2, <1>4 DEF ParentInv

LEMMA ChildStep ==
    ASSUME ParentInv, NEW k \in 1 .. Last,
           ChildLoads(k) \/ ChildLeaves(k) \/ ChildFails(k)
    PROVE  ParentInv'
<1>1. processes[k] \in Process /\ mtime \in 0 .. MaxSaves + 1
    BY ProcessesTyped, ConstantsAssumption DEF ParentInv, TypeOK
<1>2. CASE ChildLoads(k)
  <2>1. [state |-> "serve", loaded |-> mtime] \in Process
      BY <1>1 DEF Process
  <2>2. QED
      BY <1>2, <2>1, BecomesKeeps DEF ChildLoads
<1>3. CASE ChildLeaves(k) \/ ChildFails(k)
  <2>1. /\ [processes[k] EXCEPT !.state = "dead"] \in Process
        /\ [processes[k] EXCEPT !.state = "dead"].state = "dead"
      BY <1>1 DEF Process
  <2>2. Becomes(k, [processes[k] EXCEPT !.state = "dead"])
      BY <1>3 DEF ChildLeaves, ChildFails
  <2>3. QED
      BY <2>1, <2>2, BecomesKeeps
<1>4. QED
    BY <1>2, <1>3

LEMMA SignalStep ==
    ASSUME ParentInv, NEW ctrlC \in BOOLEAN, Signal(ctrlC)
    PROVE  ParentInv'
<1>1. processes' \in Seq(Process) /\ Survive
  <2>1. CASE ctrlC
      BY <2>1, AllSignalled DEF Signal, ParentInv, TypeOK
  <2>2. CASE ~ctrlC
      BY <2>2 DEF Signal, ParentInv, TypeOK, Survive
  <2>3. QED
      BY <2>1, <2>2
<1>2. StopInv' /\ OneInv'
    BY <1>1, EnvironmentKeeps DEF Signal
<1>3. current' \in 1 .. Last' + 1 /\ signals' \in 0 .. MaxSignals
    BY <1>1, ConstantsAssumption DEF ParentInv, TypeOK, Signal, Survive, Last
<1>4. TypeOK'
    BY <1>1, <1>3 DEF ParentInv, TypeOK, Signal
<1>5. QED
    BY <1>2, <1>4 DEF ParentInv

LEMMA SaveStep == ParentInv /\ Save => ParentInv'
<1> SUFFICES ASSUME ParentInv, Save PROVE ParentInv'
    OBVIOUS
<1>1. Survive
    BY DEF Save, Survive
<1>2. StopInv' /\ OneInv'
    BY <1>1, EnvironmentKeeps DEF Save
<1>3. mtime' \in 1 .. MaxSaves + 1 /\ known' \in 0 .. mtime'
    BY ConstantsAssumption DEF ParentInv, TypeOK, Save
<1>4. current' \in 1 .. Last' + 1
    BY DEF ParentInv, TypeOK, Save, Last
<1>5. TypeOK'
    BY <1>3, <1>4 DEF ParentInv, TypeOK, Save
<1>6. QED
    BY <1>2, <1>5 DEF ParentInv

-----------------------------------------------------------------------------
(* Steps of the parent.                                                    *)

LEMMA StartStep == ParentInv /\ StartProcess => ParentInv'
<1> SUFFICES ASSUME ParentInv, StartProcess PROVE ParentInv'
    OBVIOUS
<1> DEFINE new == [state |-> "boot", loaded |-> None]
<1>1. new \in Process
    BY ConstantsAssumption DEF Process, None
<1>2. /\ Last \in Nat /\ processes \in Seq(Process)
      /\ pc' \in {"start", "wait"} /\ pc = "start"
      /\ UNCHANGED <<kind, shouldExit, current, mtime, known, signals>>
    BY ProcessesTyped DEF ParentInv, TypeOK, StartProcess
<1>3. processes' = Append(processes, new)
    BY DEF StartProcess
<1> HIDE DEF new
<1>4. /\ processes' \in Seq(Process) /\ Last' = Last + 1
      /\ \A k \in 1 .. Last : processes'[k] = processes[k]
    BY <1>1, <1>2, <1>3, AppendProperties DEF Last
<1>5. StopInv'
    BY <1>2, <1>4 DEF StopInv, Stopping
<1>6. OneInv'
  <2>1. SUFFICES ASSUME kind \in Reloaders, NEW k \in 1 .. Last', pc' = "start" \/ k # Last'
                 PROVE  processes'[k].state = "dead"
      BY <1>2 DEF OneInv
  <2>2. Total = 1
      BY <2>1 DEF Total, Reloaders
  <2>3. pc' = "wait"
      BY <1>2, <2>2 DEF StartProcess, Last
  <2>4. k \in 1 .. Last
      BY <1>2, <1>4, <2>1, <2>3
  <2>5. QED
      BY <1>2, <1>4, <2>1, <2>4 DEF ParentInv, OneInv
<1>7. current' \in 1 .. Last' + 1
    BY <1>2, <1>4 DEF ParentInv, TypeOK
<1>8. TypeOK'
    BY <1>2, <1>4, <1>7 DEF ParentInv, TypeOK
<1>9. QED
    BY <1>5, <1>6, <1>8 DEF ParentInv

\* Steps of the parent that leave the processes alone.
LEMMA WaitStep ==
    ASSUME ParentInv, StopWaiting \/ DelayOver \/ Scan \/ ScanStops \/ RestartJoins \/ StopJoins
    PROVE  ParentInv'
<1>1. /\ Last \in Nat /\ Last # 0 /\ Last' = Last /\ processes' = processes
      /\ UNCHANGED <<kind, shouldExit, mtime, signals>>
      /\ kind \in Kinds
  <2>1. pc # "start"
      BY DEF StopWaiting, DelayOver, Scan, Noted, ScanStops, RestartJoins, StopJoins
  <2>2. processes' = processes /\ UNCHANGED <<kind, shouldExit, mtime, signals>>
      BY DEF StopWaiting, DelayOver, Scan, Noted, ScanStops, RestartJoins, StopJoins
  <2>3. QED
      BY <2>1, <2>2, ProcessesTyped DEF ParentInv, TypeOK, StopInv, Last, Kinds
<1>2. CASE StopWaiting \/ ScanStops
  <2>1. /\ pc' = "stop" /\ pc # "start" /\ UNCHANGED known
        /\ current' = IF kind = "workers" THEN 1 ELSE Last
      BY <1>2 DEF StopWaiting, ScanStops
  <2>2. kind \in Reloaders \/ kind = "workers"
      BY <1>1 DEF Kinds
  <2>3. \A k \in 1 .. Last : k < current' => processes[k].state = "dead"
      BY <1>1, <2>1, <2>2 DEF ParentInv, OneInv
  <2>4. current' \in 1 .. Last + 1
      BY <1>1, <2>1
  <2>5. StopInv' /\ OneInv'
      BY <1>1, <2>1, <2>3 DEF ParentInv, StopInv, OneInv, Stopping
  <2>6. TypeOK'
      BY <1>1, <2>1, <2>4 DEF ParentInv, TypeOK
  <2>7. QED
      BY <2>5, <2>6 DEF ParentInv
<1>3. CASE DelayOver \/ Scan
  <2>1. /\ pc' \in {"scan", "restart", "wait"} /\ pc # "start" /\ UNCHANGED current
      BY <1>3 DEF DelayOver, Scan, Noted
  <2>2. known' \in 0 .. mtime'
      BY <1>1, <1>3, ConstantsAssumption DEF DelayOver, Scan, Noted, ParentInv, TypeOK
  <2>3. StopInv' /\ OneInv'
      BY <1>1, <2>1 DEF ParentInv, StopInv, OneInv, Stopping
  <2>4. TypeOK'
      BY <1>1, <2>1, <2>2 DEF ParentInv, TypeOK
  <2>5. QED
      BY <2>3, <2>4 DEF ParentInv
<1>4. CASE RestartJoins
  <2>1. /\ pc' = "start" /\ pc = "rejoin" /\ UNCHANGED <<current, known>>
        /\ processes[Last].state = "dead"
      BY <1>4 DEF RestartJoins, Joined
  <2>2. StopInv' /\ OneInv'
      BY <1>1, <2>1 DEF ParentInv, StopInv, OneInv, Stopping
  <2>3. TypeOK'
      BY <1>1, <2>1 DEF ParentInv, TypeOK
  <2>4. QED
      BY <2>2, <2>3 DEF ParentInv
<1>5. CASE StopJoins
  <2>1. /\ pc' = "stop" /\ pc = "join" /\ UNCHANGED known
        /\ current' = current + 1 /\ processes[current].state = "dead"
      BY <1>5 DEF StopJoins, Joined
  <2>2. current \in 1 .. Last
      BY <1>1, <2>1 DEF ParentInv, TypeOK, StopInv, Stopping
  <2>3. StopInv' /\ OneInv'
      BY <1>1, <2>1, <2>2 DEF ParentInv, StopInv, OneInv, Stopping
  <2>4. TypeOK'
      BY <1>1, <2>1, <2>2 DEF ParentInv, TypeOK
  <2>5. QED
      BY <2>3, <2>4 DEF ParentInv
<1>6. QED
    BY <1>2, <1>3, <1>4, <1>5

LEMMA TerminateStep ==
    ASSUME ParentInv, Restart \/ Stop
    PROVE  ParentInv'
<1>1. /\ Last \in Nat /\ Last # 0 /\ current \in 1 .. Last + 1
      /\ UNCHANGED <<kind, shouldExit, current, mtime, signals>>
  <2>1. pc # "start" /\ UNCHANGED <<kind, shouldExit, current, mtime, signals>>
      BY DEF Restart, ForgetTimes, Stop
  <2>2. QED
      BY <2>1, ProcessesTyped DEF ParentInv, TypeOK, StopInv
<1>2. CASE Restart
  <2>1. /\ pc' = "rejoin" /\ pc = "restart" /\ Terminates(Last)
        /\ known' \in {None, known}
      BY <1>2 DEF Restart, ForgetTimes
  <2>2. processes' \in Seq(Process) /\ Survive
      BY <1>1, <2>1, TerminatesTyped DEF ParentInv, TypeOK
  <2>3. Last' = Last
      BY <2>2 DEF Survive, Last
  <2>4. StopInv' /\ OneInv'
      BY <1>1, <2>1, <2>2, <2>3 DEF ParentInv, StopInv, OneInv, Stopping, Survive
  <2>5. known' \in 0 .. mtime'
      BY <1>1, <2>1, ConstantsAssumption DEF ParentInv, TypeOK, None
  <2>6. TypeOK'
      BY <1>1, <2>1, <2>2, <2>3, <2>5 DEF ParentInv, TypeOK
  <2>7. QED
      BY <2>4, <2>6 DEF ParentInv
<1>3. CASE Stop /\ current > Last
  <2>1. pc' = "done" /\ processes' = processes /\ pc = "stop" /\ UNCHANGED known
      BY <1>3 DEF Stop
  <2>2. Last' = Last
      BY <2>1 DEF Last
  <2>3. StopInv' /\ OneInv'
      BY <1>1, <1>3, <2>1, <2>2 DEF ParentInv, StopInv, OneInv, Stopping
  <2>4. TypeOK'
      BY <1>1, <2>1, <2>2 DEF ParentInv, TypeOK
  <2>5. QED
      BY <2>3, <2>4 DEF ParentInv
<1>4. CASE Stop /\ ~(current > Last)
  <2>1. /\ pc' = "join" /\ pc = "stop" /\ Terminates(current) /\ UNCHANGED known
        /\ current \in 1 .. Last
      BY <1>1, <1>4 DEF Stop
  <2>2. processes' \in Seq(Process) /\ Survive
      BY <2>1, TerminatesTyped DEF ParentInv, TypeOK
  <2>3. Last' = Last
      BY <2>2 DEF Survive, Last
  <2>4. StopInv' /\ OneInv'
      BY <1>1, <2>1, <2>2, <2>3 DEF ParentInv, StopInv, OneInv, Stopping, Survive
  <2>5. TypeOK'
      BY <1>1, <2>1, <2>2, <2>3 DEF ParentInv, TypeOK
  <2>6. QED
      BY <2>4, <2>5 DEF ParentInv
<1>5. QED
    BY <1>2, <1>3, <1>4

LEMMA ParentAlways == Spec => []ParentInv
<1>1. Init => ParentInv
  <2>1. SUFFICES ASSUME Init PROVE ParentInv
      OBVIOUS
  <2>2. processes \in Seq(Process) /\ Last = 0 /\ pc = "start" /\ current = 1
      BY <2>1, EmptySeq DEF Init, Last
  <2>3. mtime \in 1 .. MaxSaves + 1 /\ known \in 0 .. mtime /\ signals \in 0 .. MaxSignals
      BY <2>1, ConstantsAssumption DEF Init, FirstNoted, None
  <2>4. kind \in Reloaders \cup {"workers"} /\ shouldExit \in BOOLEAN
      BY <2>1 DEF Init
  <2>5. TypeOK
      BY <2>2, <2>3, <2>4 DEF TypeOK
  <2>6. StopInv /\ OneInv
      BY <2>2 DEF StopInv, OneInv, Stopping
  <2>7. QED
      BY <2>5, <2>6 DEF ParentInv
<1>2. ParentInv /\ [Next]_vars => ParentInv'
  <2>1. SUFFICES ASSUME ParentInv, [Next]_vars PROVE ParentInv'
      OBVIOUS
  <2>2. CASE UNCHANGED vars
    <3>1. Last' = Last
        BY <2>2 DEF vars, Last
    <3>2. TypeOK'
        BY <2>1, <2>2, <3>1 DEF ParentInv, TypeOK, vars
    <3>3. StopInv' /\ OneInv'
        BY <2>1, <2>2, <3>1 DEF ParentInv, StopInv, OneInv, Stopping, vars
    <3>4. QED
        BY <3>2, <3>3 DEF ParentInv
  <2>3. CASE Parent
      BY <2>1, <2>3, StartStep, WaitStep, TerminateStep DEF Parent
  <2>4. CASE Environment
      BY <2>1, <2>4, SignalStep, SaveStep, ChildStep DEF Environment
  <2>5. QED
      BY <2>1, <2>2, <2>3, <2>4 DEF Next
<1>3. QED
    BY <1>1, <1>2, PTL DEF Spec

\* The state of a supervisor has the type the code gives it.
THEOREM SupervisorTypeCorrect == Spec => []TypeOK
<1>1. ParentInv => TypeOK
    BY DEF ParentInv
<1>2. QED
    BY <1>1, ParentAlways, PTL

\* A reloader never has two live children, and a supervisor that has ended has
\* none.
THEOREM ProcessSafety == Spec => []NoProcessLeft
<1>1. ParentInv => NoProcessLeft
  <2>1. SUFFICES ASSUME ParentInv, NEW k \in 1 .. Last, processes[k].state # "dead"
                 PROVE  pc # "done" /\ (kind \in Reloaders => k = Last)
      BY DEF NoProcessLeft
  <2>2. Last \in Nat /\ current \in 1 .. Last + 1
      BY <2>1, ProcessesTyped DEF ParentInv, TypeOK
  <2>3. pc # "done"
      BY <2>1, <2>2 DEF ParentInv, StopInv, Stopping
  <2>4. kind \in Reloaders => k = Last
      BY <2>1 DEF ParentInv, OneInv
  <2>5. QED
      BY <2>3, <2>4
<1>2. QED
    BY <1>1, ParentAlways, PTL
=============================================================================
