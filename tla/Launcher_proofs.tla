--------------------------- MODULE Launcher_proofs ----------------------------
(* Proofs about the launcher, for every number of children, every exit code   *)
(* and any number of signals.                                                 *)
EXTENDS Launcher, TLAPS

\* Where the main thread is tells what exit_reason may be, and exit_reason
\* tells what has happened: "signal" is written only by the handler and
\* "child" only with a status that is not 0.
Reasons ==
  /\ at = "spawn" => reason = "running"
  /\ at \in {"install", "test", "poll", "sleep"} => reason # "child"
  /\ at = "stop" => reason = "child"
  /\ at \in {"wait", "kill", "returned"} => reason # "running"
  /\ reason = "signal" => signals > 0
  /\ reason = "child" => status # 0

\* The handler leaves no child without its signal, and none starts afterwards.
AllForwarded == reason = "signal" => \A c \in Procs : child[c] # "running"

\* How far the loops over the processes have come.
LoopStarts == at \in {"install", "test", "sleep"} => next = 1
StoppedSoFar == at = "stop" => \A c \in Procs : c < next => child[c] # "running"
WaitedSoFar == at \in {"wait", "kill"} => \A c \in Procs : c < next => ~Alive(c)

IInv == /\ TypeOK /\ Reasons /\ AllForwarded /\ LoopStarts /\ StoppedSoFar
        /\ WaitedSoFar /\ AskedBeforeKilled /\ NoneLeftBehind

LEMMA ProcsType == Procs \subseteq Nat /\ 1 \in Procs /\ \A c \in Procs : 1 <= c /\ c <= Children
BY ChildrenAssumption DEF Procs

\* The next turn of a loop that has one.
LEMMA NextProc ==
  ASSUME NEW c \in Procs, c < Children
  PROVE  c + 1 \in Procs
BY ChildrenAssumption DEF Procs

LEMMA InitInv == Init => IInv
BY ProcsType DEF Init, IInv, TypeOK, Reasons, AllForwarded, LoopStarts, StoppedSoFar,
   WaitedSoFar, AskedBeforeKilled, NoneLeftBehind, Alive

\* A signal sent to some children, in _stop_process.
LEMMA Asking ==
  ASSUME TypeOK, NEW S, AskTo(S)
  PROVE  /\ child' \in [Procs -> {"none", "running", "asked", "crashed", "stopped", "killed"}]
         /\ \A c \in Procs : Alive(c)' <=> Alive(c)
         /\ \A c \in Procs : c \in S => child'[c] # "running"
         /\ \A c \in Procs : child[c] # "running" => child'[c] # "running"
BY DEF TypeOK, AskTo, Alive

\* The end of a wait: the loops go on to the next child or supervise() returns.
LEMMA WaitedInv ==
  ASSUME IInv, at \in {"wait", "kill"}, ~Alive(next), Waited,
         UNCHANGED <<child, code, reason, signals>>
  PROVE  IInv'
<1> USE DEF IInv, Waited
<1>1. TypeOK'
  BY ProcsType, NextProc DEF TypeOK
<1>2. Reasons'
  BY DEF Reasons
<1>3. AllForwarded' /\ LoopStarts' /\ StoppedSoFar' /\ AskedBeforeKilled'
  BY DEF AllForwarded, LoopStarts, StoppedSoFar, AskedBeforeKilled
<1>4. \A c \in Procs : c <= next => ~Alive(c)'
  BY ProcsType DEF WaitedSoFar, Alive, TypeOK
<1>5. CASE next < Children
  BY <1>1, <1>2, <1>3, <1>4, <1>5, ProcsType DEF WaitedSoFar, NoneLeftBehind, TypeOK
<1>6. CASE ~(next < Children)
  <2>1. next = Children
    BY <1>6, ProcsType, ChildrenAssumption DEF TypeOK
  <2> QED
    BY <1>1, <1>2, <1>3, <1>4, <1>6, <2>1, ProcsType DEF WaitedSoFar, NoneLeftBehind
<1> QED
  BY <1>5, <1>6

\* A child that ends.
LEMMA ExitInv ==
  ASSUME IInv, NEW c \in Procs, NEW n \in Int, NEW how \in {"crashed", "stopped", "killed"},
         Exit(c, how, n)
  PROVE  IInv'
<1>1. \A d \in Procs : child'[d] = IF d = c THEN how ELSE child[d]
  BY DEF Exit, IInv, TypeOK
<1>2. \A d \in Procs : /\ Alive(d)' => Alive(d)
                       /\ child'[d] = "running" => child[d] = "running"
  BY <1>1 DEF Alive
<1>3. TypeOK'
  BY DEF IInv, TypeOK, Exit
<1> QED
  BY <1>2, <1>3 DEF Exit, IInv, Reasons, AllForwarded, LoopStarts, StoppedSoFar,
     WaitedSoFar, AskedBeforeKilled, NoneLeftBehind

LEMMA StepInv == IInv /\ [Next]_vars => IInv'
<1> SUFFICES ASSUME IInv, [Next]_vars PROVE IInv'
  OBVIOUS
<1> DEFINE Parts == /\ Reasons' /\ AllForwarded' /\ LoopStarts' /\ StoppedSoFar'
                    /\ WaitedSoFar' /\ AskedBeforeKilled' /\ NoneLeftBehind'
<1>0. \A c \in Procs : c < Children \/ c = Children
  BY ProcsType, ChildrenAssumption
<1>1. CASE Spawn
  <2>1. TypeOK'
    BY <1>1, ProcsType, NextProc DEF IInv, TypeOK, Spawn, Advance
  <2>2. at' \in {"spawn", "install"} /\ (at' = "install" => next' = 1) /\ reason' = "running"
    BY <1>1 DEF Spawn, Advance, IInv, Reasons
  <2> QED
    BY <1>1, <2>1, <2>2 DEF IInv, Spawn, Reasons, AllForwarded, LoopStarts, StoppedSoFar,
       WaitedSoFar, AskedBeforeKilled, NoneLeftBehind
<1>2. CASE SpawnFails \/ EarlySignal \/ Install \/ KillTimesOut
  BY <1>2, SignalsAssumption
  DEF IInv, TypeOK, SpawnFails, EarlySignal, Install, KillTimesOut, Reasons, AllForwarded, LoopStarts,
     StoppedSoFar, WaitedSoFar, AskedBeforeKilled, NoneLeftBehind
<1>3. CASE Test
  <2>1. TypeOK' /\ Reasons' /\ AllForwarded' /\ LoopStarts' /\ StoppedSoFar' /\ NoneLeftBehind'
    BY <1>3 DEF Test, IInv, TypeOK, Reasons, AllForwarded, LoopStarts, StoppedSoFar, NoneLeftBehind
  <2>2. WaitedSoFar'
    BY <1>3, ProcsType DEF Test, IInv, TypeOK, LoopStarts, WaitedSoFar
  <2>3. AskedBeforeKilled'
    BY <1>3 DEF Test, IInv, TypeOK, Reasons, AllForwarded, AskedBeforeKilled
  <2> QED
    BY <2>1, <2>2, <2>3 DEF IInv
<1>4. CASE Poll
  <2>1. CASE Alive(next)
    <3>1. TypeOK'
      BY <1>4, <2>1, ProcsType, NextProc DEF Poll, Advance, IInv, TypeOK
    <3>2. at' \in {"poll", "sleep"} /\ (at' = "sleep" => next' = 1)
      BY <1>4, <2>1 DEF Poll, Advance
    <3> QED
      BY <1>4, <2>1, <3>1, <3>2 DEF Poll, IInv, Reasons, AllForwarded, LoopStarts,
         StoppedSoFar, WaitedSoFar, AskedBeforeKilled, NoneLeftBehind
  <2>2. CASE ~Alive(next)
    <3>1. StatusOf(code[next]) \in Int /\ StatusOf(code[next]) # 0
      BY DEF StatusOf, IInv, TypeOK
    <3>2. TypeOK' /\ StoppedSoFar'
      BY <1>4, <2>2, <3>1, ProcsType DEF Poll, IInv, TypeOK, StoppedSoFar
    <3> QED
      BY <1>4, <2>2, <3>1, <3>2 DEF Poll, IInv, Reasons, AllForwarded, LoopStarts,
         WaitedSoFar, AskedBeforeKilled, NoneLeftBehind
  <2> QED
    BY <2>1, <2>2
<1>5. CASE Stop
  <2>1. \A c \in Procs : c <= next => child'[c] # "running"
    <3>1. \A c \in Procs : c <= next => c < next \/ c \in {next}
      BY ProcsType DEF IInv, TypeOK
    <3>2. \A c \in Procs : c < next => child[c] # "running"
      BY <1>5 DEF Stop, IInv, StoppedSoFar
    <3> QED
      BY <1>5, <3>1, <3>2, Asking DEF Stop, IInv
  <2>2. TypeOK'
    BY <1>5, Asking, ProcsType, NextProc DEF Stop, Advance, IInv, TypeOK
  <2>3. Reasons' /\ AllForwarded' /\ LoopStarts' /\ NoneLeftBehind'
    BY <1>5 DEF Stop, Advance, IInv, Reasons, AllForwarded, LoopStarts, NoneLeftBehind
  <2>4. StoppedSoFar' /\ WaitedSoFar' /\ AskedBeforeKilled'
    <3>1. CASE next < Children
      BY <1>5, <2>1, <3>1, ProcsType DEF Stop, Advance, IInv, TypeOK, StoppedSoFar, WaitedSoFar, AskedBeforeKilled
    <3>2. CASE next = Children
      <4>1. \A c \in Procs : child'[c] # "running"
        BY <2>1, <3>2, ProcsType
      <4>2. at' = "wait" /\ next' = 1
        BY <1>5, <3>2, ProcsType, ChildrenAssumption DEF Stop, Advance
      <4> QED
        BY <4>1, <4>2, ProcsType DEF StoppedSoFar, WaitedSoFar, AskedBeforeKilled
    <3> QED
      BY <1>0, <3>1, <3>2 DEF IInv, TypeOK
  <2> QED
    BY <2>2, <2>3, <2>4 DEF IInv
<1>6. CASE Sleep
  BY <1>6 DEF Sleep, IInv, TypeOK, Reasons, AllForwarded, LoopStarts, StoppedSoFar,
     WaitedSoFar, AskedBeforeKilled, NoneLeftBehind
<1>7. CASE WaitEnds \/ KillEnds
  BY <1>7, WaitedInv DEF WaitEnds, KillEnds
<1>8. CASE WaitTimesOut
  BY <1>8 DEF WaitTimesOut, WaitKills, IInv, TypeOK, Reasons, AllForwarded, LoopStarts,
     StoppedSoFar, WaitedSoFar, AskedBeforeKilled, NoneLeftBehind, Alive
<1>9. CASE HandleSignal
  <2>1. TypeOK'
    BY <1>9, Asking DEF HandleSignal, IInv, TypeOK
  <2>2. AskTo(Procs)
    BY <1>9 DEF HandleSignal, ForwardTo
  <2>4. \A c \in Procs : child'[c] # "running" /\ (Alive(c)' => Alive(c))
    BY <2>2, Asking DEF IInv
  <2>3. Reasons' /\ LoopStarts'
    BY <1>9, SignalsAssumption DEF HandleSignal, Supervising, IInv, TypeOK, Reasons, LoopStarts
  <2> QED
    BY <1>9, <2>1, <2>3, <2>4 DEF HandleSignal, Supervising, IInv, AllForwarded, StoppedSoFar,
       WaitedSoFar, AskedBeforeKilled, NoneLeftBehind
<1>10. ASSUME NEW c \in Procs, Crashes(c) \/ Stopped(c) \/ Killed(c) PROVE IInv'
  BY <1>10, ExitInv, CodesAssumption DEF Crashes, Stopped, Killed, SIGTERM, SIGKILL
<1>11. CASE UNCHANGED vars
  BY <1>11 DEF vars, IInv, TypeOK, Reasons, AllForwarded, LoopStarts, StoppedSoFar,
     WaitedSoFar, AskedBeforeKilled, NoneLeftBehind, Alive
<1> QED
  BY <1>1, <1>2, <1>3, <1>4, <1>5, <1>6, <1>7, <1>8, <1>9, <1>10, <1>11 DEF Next, Main

LEMMA Invariant == Spec => []IInv
<1>1. Init => IInv
  BY InitInv
<1>2. IInv /\ [Next]_vars => IInv'
  BY StepInv
<1> QED
  BY <1>1, <1>2, PTL DEF Spec

\* Every variable of the launcher keeps its type.
THEOREM TypeCorrect == Spec => []TypeOK
<1>1. IInv => TypeOK
  BY DEF IInv
<1> QED
  BY <1>1, Invariant, PTL

\* supervise() returns only when none of its children is alive.
THEOREM NoneSurvives == Spec => []NoneLeftBehind
<1>1. IInv => NoneLeftBehind
  BY DEF IInv
<1> QED
  BY <1>1, Invariant, PTL

\* However many signals come and children end, and wherever they interrupt the
\* loops, every child has had its signal before the launcher waits for one.
THEOREM AskedFirst == Spec => []AskedBeforeKilled
<1>1. IInv => AskedBeforeKilled
  BY DEF IInv
<1> QED
  BY <1>1, Invariant, PTL

\* A launcher that nobody told to stop returns a status that is not 0.
THEOREM ExitReported == Spec => []UnexpectedExitReported
<1>1. IInv => UnexpectedExitReported
  BY DEF IInv, Reasons, TypeOK, UnexpectedExitReported
<1> QED
  BY <1>1, Invariant, PTL

-----------------------------------------------------------------------------
(* The shutdown cannot go round in circles: what ShutdownEnds says, short of  *)
(* the fairness that makes each step come.                                    *)

\* A bound on the steps of the main thread from here to the end of supervise().
StepsLeft ==
  LET left == Children - next
  IN CASE at = "poll" -> 3 * Children + 3 + left
       [] at = "stop" -> 2 * Children + 1 + left
       [] at \in {"install", "sleep"} -> 2 * Children + 2
       [] at = "test" -> 2 * Children + 1
       [] at = "wait" -> 2 * left + 2
       [] at = "kill" -> 2 * left + 1
       [] OTHER -> 0

\* Once exit_reason is set, no step of the main thread leads back.
Shutdown ==
  reason # "running" /\ (at' # at \/ next' # next) => StepsLeft' < StepsLeft

LEMMA StepsLeftType ==
  ASSUME TypeOK
  PROVE  StepsLeft \in Nat /\ StepsLeft <= 4 * Children + 2
BY ProcsType, ChildrenAssumption DEF TypeOK, StepsLeft

LEMMA ShutdownStep == IInv /\ [Next]_vars => [Shutdown]_vars
<1> SUFFICES ASSUME IInv, Next, reason # "running", at' # at \/ next' # next
             PROVE  StepsLeft' < StepsLeft
  BY DEF Shutdown
<1>1. /\ next \in Nat /\ 1 <= next /\ next <= Children /\ Children \in Nat \ {0}
      /\ at # "spawn"
      /\ at \in {"install", "test", "sleep"} => next = 1
  BY ProcsType, ChildrenAssumption DEF IInv, TypeOK, Reasons, LoopStarts
<1>2. CASE Test
  BY <1>1, <1>2 DEF Test, StepsLeft
<1>3. CASE Poll
  <2>1. CASE Alive(next) /\ next < Children
    BY <1>1, <1>3, <2>1 DEF Poll, Advance, StepsLeft
  <2>2. CASE Alive(next) /\ ~(next < Children)
    BY <1>1, <1>3, <2>2 DEF Poll, Advance, StepsLeft
  <2>3. CASE ~Alive(next)
    BY <1>1, <1>3, <2>3 DEF Poll, StepsLeft
  <2> QED
    BY <2>1, <2>2, <2>3
<1>4. CASE Stop
  <2>1. CASE next < Children
    BY <1>1, <1>4, <2>1 DEF Stop, Advance, StepsLeft
  <2>2. CASE ~(next < Children)
    BY <1>1, <1>4, <2>2 DEF Stop, Advance, StepsLeft
  <2> QED
    BY <2>1, <2>2
<1>5. CASE Sleep \/ Install
  BY <1>1, <1>5 DEF Sleep, Install, StepsLeft
<1>6. CASE WaitEnds \/ KillEnds
  <2>1. CASE next < Children
    BY <1>1, <1>6, <2>1 DEF WaitEnds, KillEnds, Waited, StepsLeft
  <2>2. CASE ~(next < Children)
    BY <1>1, <1>6, <2>2 DEF WaitEnds, KillEnds, Waited, StepsLeft
  <2> QED
    BY <2>1, <2>2
<1>7. CASE WaitTimesOut
  BY <1>1, <1>7 DEF WaitTimesOut, WaitKills, StepsLeft
<1>8. CASE KillTimesOut \/ EarlySignal
  BY <1>1, <1>8 DEF KillTimesOut, EarlySignal, StepsLeft
<1> QED
  BY <1>1, <1>2, <1>3, <1>4, <1>5, <1>6, <1>7, <1>8 DEF Next, Main, Spawn, SpawnFails,
     HandleSignal, Crashes, Stopped, Killed, Exit

\* From the moment exit_reason is set, the main thread takes at most
\* 4 * Children + 2 steps before supervise() returns or raises.
THEOREM ShutdownIsShort ==
  Spec => [](StepsLeft \in 0..(4 * Children + 2)) /\ [][Shutdown]_vars
<1>1. IInv => StepsLeft \in 0..(4 * Children + 2)
  BY StepsLeftType, ChildrenAssumption DEF IInv
<1>2. IInv /\ [Next]_vars => [Shutdown]_vars
  BY ShutdownStep
<1> QED
  BY <1>1, <1>2, Invariant, PTL DEF Spec
=============================================================================
