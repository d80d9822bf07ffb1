------------------------------ MODULE Executor ------------------------------
(***************************************************************************)
(* One command of the agent (Run in internal/executor/executor.go): a      *)
(* shell under a context with a time limit, its output collected through   *)
(* pipes.  What os/exec does is modelled as Run relies on it: a command    *)
(* whose context is done is killed, which on Windows gives it exit code 1, *)
(* and Run waits until nobody holds the pipes any more.                    *)
(***************************************************************************)
EXTENDS Integers

CONSTANT Pieces  \* bound: pieces of output that a command prints

ASSUME ExecutorAssumption == Pieces \in Nat

VARIABLES
  run,      \* Run: "idle" until it is called
  ctxDone,  \* the time limit is over, or the agent was interrupted
  child,    \* the shell, and its exit code
  printed,  \* pieces of output it has printed
  held,     \* a process that it started and left behind holds its pipes
  kill,     \* what became of the attempt to kill it
  result    \* what Run returned

execVars == <<run, ctxDone, child, printed, held, kill, result>>

Result(code, text, out) == [code |-> code, text |-> text, out |-> out]

NoResult == Result(0, "none", 0)

ExecutorInit(called) ==
  /\ run = IF called THEN "start" ELSE "idle"
  /\ ctxDone = FALSE
  /\ child = [pc |-> "none", code |-> 0]
  /\ printed = 0
  /\ held = FALSE
  /\ kill = "none"
  /\ result = NoResult

Return(code, text) ==
  /\ run' = "returned"
  /\ result' = Result(code, text, printed)

ContextDone ==
  /\ run \in {"start", "failed", "wait"} /\ ~ctxDone
  /\ ctxDone' = TRUE
  /\ UNCHANGED <<run, child, printed, held, kill, result>>

(* cmd.Start, which may fail, and does not start anything for a context that *)
(* is done.                                                                 *)
StartCommand ==
  /\ run = "start"
  /\ \/ /\ ~ctxDone
        /\ run' = "wait" /\ child' = [child EXCEPT !.pc = "running"]
     \/ run' = "failed" /\ UNCHANGED child
  /\ UNCHANGED <<ctxDone, printed, held, kill, result>>

(* An error that is no exit code: the context decides on its wording.        *)
ReportFailure ==
  /\ run = "failed"
  /\ Return(-1, IF ctxDone THEN "timed out" ELSE "exec error")
  /\ UNCHANGED <<ctxDone, child, printed, held, kill>>

PrintPiece ==
  /\ child.pc = "running" /\ printed < Pieces
  /\ printed' = printed + 1
  /\ UNCHANGED <<run, ctxDone, child, held, kill, result>>

(* It ends by itself.  Exit code 0 says that it did all it should.          *)
ChildExits ==
  /\ child.pc = "running"
  /\ \E code \in 0..2 :
       /\ code = 0 => printed = Pieces
       /\ child' = [pc |-> "ended", code |-> code]
  /\ held' \in BOOLEAN
  /\ UNCHANGED <<run, ctxDone, printed, kill, result>>

HolderEnds ==
  /\ held /\ child.pc # "running"
  /\ held' = FALSE
  /\ UNCHANGED <<run, ctxDone, child, printed, kill, result>>

(* A variant for a mutant: exec.Command, which knows no context.            *)
NeverKill == FALSE /\ UNCHANGED execVars

(* The context is done: the shell is killed, not the processes it started.   *)
(* A shell that has just ended by itself cannot be killed.                  *)
KillShell ==
  /\ ctxDone /\ kill = "none"
  /\ \/ /\ child.pc = "running"
        /\ child' = [pc |-> "ended", code |-> 1]
        /\ held' \in BOOLEAN
        /\ kill' = "killed"
     \/ /\ child.pc = "ended"
        /\ kill' = "refused"
        /\ UNCHANGED <<child, held>>
  /\ UNCHANGED <<run, ctxDone, printed, result>>

(* Process.Wait: from now on the context has no effect.                     *)
Reap ==
  /\ child.pc = "ended"
  /\ child' = [child EXCEPT !.pc = "reaped"]
  /\ UNCHANGED <<run, ctxDone, printed, held, kill, result>>

(* A variant for a mutant: the context is asked before the exit code.       *)
RunReturnsContextFirst ==
  /\ run = "wait" /\ child.pc = "reaped" /\ ~held
  /\ IF ctxDone THEN Return(0, "timed out") ELSE Return(child.code, "none")
  /\ UNCHANGED <<ctxDone, child, printed, held, kill>>

(* An exit code other than 0 goes before the error of the kill.              *)
RunReturns ==
  /\ run = "wait" /\ child.pc = "reaped" /\ ~held
  /\ IF child.code = 0 /\ kill = "refused" THEN Return(-1, "timed out")
                                           ELSE Return(child.code, "none")
  /\ UNCHANGED <<ctxDone, child, printed, held, kill>>

(* What the Go runtime and its timers do; the shell does as it likes.        *)
RunStep == ContextDone \/ StartCommand \/ ReportFailure \/ KillShell \/ Reap \/ RunReturns

ShellStep == PrintPiece \/ ChildExits \/ HolderEnds
=============================================================================
