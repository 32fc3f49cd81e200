------------------------------- MODULE Launcher -------------------------------
(* supervise() of app/launch.py: one process that runs the API and the worker *)
(* as children, forwards SIGINT and SIGTERM to them, and stops the others     *)
(* when one exits.  A step is what the main thread does up to the next place  *)
(* where a signal handler or a child can make a difference; Python runs a     *)
(* handler in the main thread, between two of its steps.  shutdown_timeout is *)
(* not measured: a wait for a child may run out at any time.                  *)
EXTENDS Integers

CONSTANTS Children,   \* number of commands
          OwnCodes,   \* exit codes of a child that ends of its own accord
          MaxSignals  \* bound: signals sent to the launcher

ASSUME ChildrenAssumption == Children \in Nat \ {0}
ASSUME CodesAssumption == OwnCodes \subseteq Int
ASSUME SignalsAssumption == MaxSignals \in Nat

SIGTERM == 15
SIGKILL == 9
Procs == 1..Children

VARIABLES
  child,   \* each child: none, running, asked (signalled), crashed, stopped, killed
  code,    \* its exit code
  at,      \* where the main thread is
  next,    \* the child its current loop has come to
  reason,  \* exit_reason
  status,  \* status, and at the end what supervise() returns
  signals

vars == <<child, code, at, next, reason, status, signals>>

Init ==
  /\ child = [c \in Procs |-> "none"] /\ code = [c \in Procs |-> 0]
  /\ at = "spawn" /\ next = 1
  /\ reason = "running" /\ status = 0 /\ signals = 0

Alive(c) == child[c] \in {"running", "asked"}
Supervising == at \in {"test", "poll", "stop", "sleep", "wait", "kill"}

\* One turn of "for proc in processes"; after the last child, the main thread
\* goes on at a.
AdvancePast(a) == IF next <= Children THEN at' = at /\ next' = next + 1
                                      ELSE at' = a /\ next' = 1
Advance(a) == IF next < Children THEN at' = at /\ next' = next + 1
                                 ELSE at' = a /\ next' = 1

-----------------------------------------------------------------------------
(* The main thread. *)

\* Popen.
Spawn ==
  /\ at = "spawn"
  /\ child' = [child EXCEPT ![next] = "running"]
  /\ Advance("install")
  /\ UNCHANGED <<code, reason, status, signals>>

\* Popen raises: there is no "try" yet.
SpawnFails ==
  /\ at = "spawn"
  /\ at' = "raised"
  /\ UNCHANGED <<child, code, next, reason, status, signals>>

\* Both handlers are installed; "try" begins.
Install ==
  /\ at = "install"
  /\ at' = "test"
  /\ UNCHANGED <<child, code, next, reason, status, signals>>

\* while exit_reason == "running"
Test ==
  /\ at = "test"
  /\ at' = IF reason = "running" THEN "poll" ELSE "wait"
  /\ UNCHANGED <<child, code, next, reason, status, signals>>

StatusAsIs(c) == c
StatusOf(c) == IF c # 0 THEN c ELSE 1

Poll ==
  /\ at = "poll"
  /\ IF Alive(next)
     THEN Advance("sleep") /\ UNCHANGED <<reason, status>>
     ELSE /\ reason' = "child" /\ status' = StatusOf(code[next])
          /\ at' = "stop" /\ next' = 1
  /\ UNCHANGED <<child, code, signals>>

\* _stop_process leaves a child that has exited alone.
AskTo(S) == child' = [c \in Procs |-> IF c \in S /\ child[c] = "running"
                                      THEN "asked" ELSE child[c]]

\* _stop_process(other, SIGTERM) for each process, then "break".
Stop ==
  /\ at = "stop"
  /\ AskTo({next})
  /\ Advance("wait")
  /\ UNCHANGED <<code, reason, status, signals>>

Sleep ==
  /\ at = "sleep"
  /\ at' = "test"
  /\ UNCHANGED <<child, code, next, reason, status, signals>>

\* What supervise() does when a wait, and with the last one the loop, is over.
Waited ==
  IF next < Children
  THEN at' = "wait" /\ next' = next + 1 /\ status' = status
  ELSE /\ at' = "returned" /\ next' = 1
       /\ status' = IF reason = "signal" THEN 0 ELSE status

\* proc.wait(timeout) finds that the child is gone.
WaitEnds ==
  /\ at = "wait"
  /\ ~Alive(next)
  /\ Waited
  /\ UNCHANGED <<child, code, reason, signals>>

WaitGivesUp == Waited
WaitAgain == UNCHANGED <<at, next, status>>
WaitKills == at' = "kill" /\ UNCHANGED <<next, status>>

\* proc.wait(timeout) runs out.
WaitTimesOut ==
  /\ at = "wait"
  /\ Alive(next)
  /\ WaitKills
  /\ UNCHANGED <<child, code, reason, signals>>

\* proc.wait(timeout=5) after proc.kill() finds that the child is gone.
KillEnds ==
  /\ at = "kill"
  /\ ~Alive(next)
  /\ Waited
  /\ UNCHANGED <<child, code, reason, signals>>

\* proc.wait(timeout=5) runs out, for a child that even SIGKILL has not ended
\* yet: TimeoutExpired leaves supervise().
KillTimesOut ==
  /\ at = "kill"
  /\ Alive(next)
  /\ at' = "raised"
  /\ UNCHANGED <<child, code, next, reason, status, signals>>

Main == \/ Spawn \/ Install \/ Test \/ Poll \/ Stop \/ Sleep
        \/ WaitEnds \/ WaitTimesOut \/ KillEnds \/ KillTimesOut

-----------------------------------------------------------------------------
(* Signals and children. *)

ForwardToFirst == {1}
ForwardTo == Procs

\* handle_signal; the handlers are installed one after the other.
HandleSignal ==
  /\ Supervising \/ at = "install"
  /\ signals < MaxSignals /\ signals' = signals + 1
  /\ reason' = IF reason = "running" THEN "signal" ELSE reason
  /\ AskTo(ForwardTo)
  /\ UNCHANGED <<code, at, next, status>>

\* A signal that comes before its handler is installed ends the launcher.
EarlySignal ==
  /\ at \in {"spawn", "install"}
  /\ signals < MaxSignals /\ signals' = signals + 1
  /\ at' = "raised"
  /\ UNCHANGED <<child, code, next, reason, status>>

Exit(c, how, n) == /\ child' = [child EXCEPT ![c] = how]
                   /\ code' = [code EXCEPT ![c] = n]
                   /\ UNCHANGED <<at, next, reason, status, signals>>

\* A child ends though nobody asked it to.
Crashes(c) == child[c] = "running" /\ \E n \in OwnCodes : Exit(c, "crashed", n)

\* A child shuts down as asked, or dies of the signal.  It may also ignore it.
Stopped(c) == child[c] = "asked" /\ \E n \in {0, -SIGTERM} : Exit(c, "stopped", n)

\* proc.kill(): the kernel ends the child, as soon as it can.
Killed(c) == at = "kill" /\ next = c /\ Alive(c) /\ Exit(c, "killed", -SIGKILL)

Next == \/ Main \/ SpawnFails \/ HandleSignal \/ EarlySignal
        \/ \E c \in Procs : Crashes(c) \/ Stopped(c) \/ Killed(c)

Spec == Init /\ [][Next]_vars

\* The operating system runs the launcher, and a wait with a timeout ends.
\* Nothing is assumed of the children, nor of SIGKILL.
FairSpec == Spec /\ WF_vars(Main)

-----------------------------------------------------------------------------
(* Properties. *)

\* The type of every variable.
TypeOK ==
  /\ child \in [Procs -> {"none", "running", "asked", "crashed", "stopped", "killed"}]
  /\ code \in [Procs -> Int]
  /\ at \in {"spawn", "install", "test", "poll", "stop", "sleep", "wait", "kill",
             "returned", "raised"}
  /\ next \in Procs
  /\ reason \in {"running", "signal", "child"}
  /\ status \in Int /\ signals \in Nat

\* No child survives a launcher that returns.
NoneLeftBehind == at = "returned" => \A c \in Procs : ~Alive(c)

\* A child is killed only if it was asked to stop and did not: whichever of a
\* signal and an exit comes first, and whatever interrupts the loops, every
\* child gets its signal before the launcher waits for it.
AskedBeforeKilled == at \in {"wait", "kill"} => \A c \in Procs : child[c] # "running"

\* Docstring: "If any child exits on its own, ... this function returns a
\* non-zero status", also when the exit code of the child is 0.
UnexpectedExitReported == at = "returned" /\ signals = 0 => status # 0

\* Once a child has exited or a signal has been handled, supervise() ends, even
\* if the other children ignore every signal: it returns, or it raises when a
\* child has outlived its SIGKILL by five seconds.
ShutdownEnds ==
  Supervising /\ (reason # "running" \/ \E c \in Procs : ~Alive(c))
    ~> at \in {"returned", "raised"}

\* tests/test_launch.py: a launcher whose children end because it was told to
\* stop, and for no other reason, exits with status 0.
SignalIsSuccess ==
  at = "returned" /\ (\A c \in Procs : child[c] # "crashed") => status = 0
=============================================================================
