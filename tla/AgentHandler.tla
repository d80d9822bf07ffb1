---------------------------- MODULE AgentHandler ----------------------------
(***************************************************************************)
(* The agent's side of a session: the main program that connects, runs,    *)
(* reconnects and ends with a report (cmd/lokifix-agent/main.go), the read *)
(* loop and its pool of workers (internal/transport/client.go), and the    *)
(* handler that each worker runs (internal/agent/handler.go): confirm,     *)
(* dispatch, log.  All of them write the audit log of AuditLog.            *)
(*                                                                         *)
(* What a request asks for is left out, except whether it needs a          *)
(* confirmation.  A dangerous command, a write to a protected path, the    *)
(* first chunk of an upload to one, and every deletion do.  The handler    *)
(* can be used with any server: it is not assumed here that the server     *)
(* waits for one answer before it sends the next request.                  *)
(***************************************************************************)
EXTENDS Naturals, Sequences, FiniteSets

CONSTANTS
  Requests,      \* requests that may arrive
  Dangerous,     \* those for which needsConfirmation holds
  NoRequest,
  MaxWorkers,    \* requests a connection processes at once (20)
  MaxRetries,    \* failed connection attempts in a row before the agent ends (5)
  MaxConns,      \* bound: connections ever made
  MaxEntries, MaxFailures  \* of AuditLog

ASSUME AgentAssumption ==
  /\ Dangerous \subseteq Requests
  /\ NoRequest \notin Requests
  /\ MaxWorkers \in Nat \ {0}
  /\ MaxRetries \in Nat /\ MaxConns \in Nat /\ MaxEntries \in Nat /\ MaxFailures \in Nat

VARIABLES
  main,         \* the main goroutine: where it is
  logging,      \* the log could be created
  interrupted,  \* Ctrl+C: the context is cancelled
  linkUp,       \* the current connection works
  conns,        \* the current connection, counted
  retries,      \* failures to connect in a row
  worker,       \* per request: its goroutine, and the connection it came from
  result,       \* per request: what dispatch returned
  replied,      \* history: the responses that the operator was sent
  executed,     \* history: the requests that were dispatched
  stdin,        \* lines typed and not read yet
  typed,        \* history: every line typed, with the question it is meant for
  file, fileOpen, prevHash, entries, report, reporter, lost, reports, failures  \* AuditLog

logVars == <<file, fileOpen, prevHash, entries, report, reporter, lost, reports, failures>>
mainVars == <<main, linkUp, conns, retries>>
userVars == <<stdin, typed>>
workVars == <<worker, result, replied, executed>>
vars == <<mainVars, logging, interrupted, workVars, userVars, logVars>>

Record(about, action, res) == [about |-> about, action |-> action, result |-> res]

SessionStart == Record(NoRequest, "SESSION_START", "OK")
SessionEnd == Record(NoRequest, "SESSION_END", "OK")
Denied(r) == Record(r, "DENIED", "DENIED")
Approved(r) == Record(r, "APPROVED", "OK")
Action(r, res) == Record(r, "ACTION", res)

LogRecords ==
  {SessionStart, SessionEnd} \cup {Denied(r) : r \in Requests}
    \cup {Approved(r) : r \in Requests}
    \cup {Action(r, res) : r \in Requests, res \in {"OK", "ERROR"}}

Audit == INSTANCE AuditLog WITH Records <- LogRecords, Reporters <- {"main"}, MaxReports <- 1

(* A line on the console, and the question that whoever typed it had in mind. *)
Answer(r, yes) == [about |-> r, yes |-> yes]

Enter == Answer(NoRequest, FALSE)

Init ==
  /\ main = "dial"
  /\ logging \in BOOLEAN
  /\ interrupted = FALSE
  /\ linkUp = FALSE
  /\ conns = 0
  /\ retries = 0
  /\ worker = [r \in Requests |-> [pc |-> "none", conn |-> 0]]
  /\ result = [r \in Requests |-> "none"]
  /\ replied = {}
  /\ executed = {}
  /\ stdin = <<>>
  /\ typed = {}
  /\ Audit!Init

(* The calls of the logger are skipped if it could not be created.          *)
LogIfAny(w) == IF logging THEN Audit!Log(w) ELSE UNCHANGED logVars

-----------------------------------------------------------------------------
(* The main goroutine.                                                       *)

Connected ==
  /\ main = "dial" /\ ~interrupted
  /\ conns < MaxConns
  /\ conns' = conns + 1
  /\ retries' = 0
  /\ linkUp' = TRUE
  /\ main' = "run"
  /\ LogIfAny(SessionStart)
  /\ UNCHANGED <<logging, interrupted, workVars, userVars>>

(* A variant for a mutant: an off-by-one in the number of retries.           *)
ConnectFailsOnceMore ==
  /\ main = "dial" /\ ~interrupted
  /\ retries' = retries + 1
  /\ main' = IF retries > MaxRetries THEN "end" ELSE "dial"
  /\ UNCHANGED <<linkUp, conns, logging, interrupted, workVars, userVars, logVars>>

ConnectFails ==
  /\ main = "dial" /\ ~interrupted
  /\ retries' = retries + 1
  /\ main' = IF retries' > MaxRetries THEN "end" ELSE "dial"
  /\ UNCHANGED <<linkUp, conns, logging, interrupted, workVars, userVars, logVars>>

ConnectInterrupted ==
  /\ main = "dial" /\ interrupted
  /\ main' = "end"
  /\ UNCHANGED <<linkUp, conns, retries, logging, interrupted, workVars, userVars, logVars>>

Queued == {r \in Requests : worker[r].pc = "queued"}

(* A variant for a mutant: only the loss of the connection ends Run.        *)
RunReturnsOnLoss ==
  /\ main = "run"
  /\ ~linkUp
  /\ Queued = {}
  /\ main' = IF interrupted THEN "end" ELSE "dial"
  /\ UNCHANGED <<linkUp, conns, retries, logging, interrupted, workVars, userVars, logVars>>

(* Run returns when the read fails.  It is not reading while it waits for a  *)
(* free worker, and that wait ignores the context.                          *)
RunReturns ==
  /\ main = "run"
  /\ interrupted \/ ~linkUp
  /\ Queued = {}
  /\ linkUp' = FALSE
  /\ main' = IF interrupted THEN "end" ELSE "dial"
  /\ UNCHANGED <<conns, retries, logging, interrupted, workVars, userVars, logVars>>

EndSession ==
  /\ main = "end"
  /\ main' = IF logging THEN "report" ELSE "enter"
  /\ LogIfAny(SessionEnd)
  /\ UNCHANGED <<linkUp, conns, retries, logging, interrupted, workVars, userVars>>

BeginReport ==
  /\ main = "report"
  /\ Audit!BeginReport("main")
  /\ main' = "reporting"
  /\ UNCHANGED <<linkUp, conns, retries, logging, interrupted, workVars, userVars>>

WriteReport ==
  /\ \/ Audit!WriteReportFile("main")
     \/ Audit!AppendMarker("main")
     \/ Audit!AppendSummary("main")
  /\ UNCHANGED <<mainVars, logging, interrupted, workVars, userVars>>

CloseLog ==
  /\ main = "reporting" /\ reporter["main"].pc = "idle"
  /\ Audit!Close
  /\ main' = "enter"
  /\ UNCHANGED <<linkUp, conns, retries, logging, interrupted, workVars, userVars>>

-----------------------------------------------------------------------------
(* Lines typed on the console, and who gets them.  A reader takes one line,  *)
(* or, if the input is a pipe, whatever was written, and drops all but the  *)
(* first with its buffer.                                                   *)

Question(r) == main # "exited" /\ worker[r].pc = "asking"

Type(line) ==
  /\ stdin' = Append(stdin, line)
  /\ typed' = typed \cup {line}
  /\ UNCHANGED <<mainVars, logging, interrupted, workVars, logVars>>

TypeAnswer(r, yes) == Question(r) /\ (\A l \in typed : l.about # r) /\ Type(Answer(r, yes))

PressEnter == main = "enter" /\ Enter \notin typed /\ Type(Enter)

TakeLine ==
  /\ stdin # <<>>
  /\ stdin' \in {Tail(stdin), <<>>}
  /\ UNCHANGED typed

Interrupt ==
  /\ ~interrupted
  /\ interrupted' = TRUE
  /\ UNCHANGED <<mainVars, logging, workVars, userVars, logVars>>

(* The program ends, and all its goroutines with it.                         *)
Exit ==
  /\ main = "enter"
  /\ TakeLine
  /\ main' = "exited"
  /\ UNCHANGED <<linkUp, conns, retries, logging, interrupted, workVars, logVars>>

-----------------------------------------------------------------------------
(* The read loop and the workers.                                            *)

Busy(k) ==
  {r \in Requests : worker[r].conn = k /\ worker[r].pc \notin {"none", "queued", "done"}}

FreeWorker == Cardinality(Busy(conns)) < MaxWorkers

ReadRequest(r) ==
  /\ main = "run" /\ linkUp
  /\ Queued = {}
  /\ worker[r].pc = "none"
  /\ worker' = [worker EXCEPT ![r] = [pc |-> "queued", conn |-> conns]]
  /\ UNCHANGED <<mainVars, logging, interrupted, result, replied, executed, userVars, logVars>>

NeedsConfirmation(r) == r \in Dangerous

At(r, pc) == main # "exited" /\ worker[r].pc = pc

Goto(r, pc) == worker' = [worker EXCEPT ![r].pc = pc]

(* A free slot of the pool; the dialog is printed if the request needs one.  *)
StartWorker(r) ==
  /\ At(r, "queued") /\ FreeWorker
  /\ Goto(r, IF NeedsConfirmation(r) THEN "asking" ELSE "dispatch")
  /\ UNCHANGED <<mainVars, logging, interrupted, result, replied, executed, userVars, logVars>>

TakeAnswer(r) ==
  /\ At(r, "asking")
  /\ TakeLine
  /\ Goto(r, IF Head(stdin).yes THEN "approved" ELSE "denied")
  /\ UNCHANGED <<mainVars, logging, interrupted, result, replied, executed, logVars>>

(* A variant for a mutant: the return after the denial is missing.          *)
LogDeniedAndGoOn(r) ==
  /\ At(r, "denied")
  /\ LogIfAny(Denied(r))
  /\ Goto(r, "dispatch")
  /\ UNCHANGED <<mainVars, logging, interrupted, result, replied, executed, userVars>>

LogDenied(r) ==
  /\ At(r, "denied")
  /\ LogIfAny(Denied(r))
  /\ result' = [result EXCEPT ![r] = "DENIED"]
  /\ Goto(r, "respond")
  /\ UNCHANGED <<mainVars, logging, interrupted, replied, executed, userVars>>

LogApproved(r) ==
  /\ At(r, "approved")
  /\ LogIfAny(Approved(r))
  /\ Goto(r, "dispatch")
  /\ UNCHANGED <<mainVars, logging, interrupted, result, replied, executed, userVars>>

(* Variants for mutants: a failed action is not logged; the response is sent *)
(* before the action is logged.                                             *)
DispatchLogsSuccess(r) ==
  /\ At(r, "dispatch")
  /\ executed' = executed \cup {r}
  /\ \E res \in {"OK", "ERROR"} :
       /\ result' = [result EXCEPT ![r] = res]
       /\ Goto(r, IF res = "OK" THEN "log" ELSE "respond")
  /\ UNCHANGED <<mainVars, logging, interrupted, replied, userVars, logVars>>

DispatchResponds(r) ==
  /\ At(r, "dispatch")
  /\ executed' = executed \cup {r}
  /\ \E res \in {"OK", "ERROR"} : result' = [result EXCEPT ![r] = res]
  /\ replied' = IF linkUp /\ worker[r].conn = conns THEN replied \cup {r} ELSE replied
  /\ Goto(r, "log")
  /\ UNCHANGED <<mainVars, logging, interrupted, userVars, logVars>>

Dispatch(r) ==
  /\ At(r, "dispatch")
  /\ executed' = executed \cup {r}
  /\ \E res \in {"OK", "ERROR"} : result' = [result EXCEPT ![r] = res]
  /\ Goto(r, "log")
  /\ UNCHANGED <<mainVars, logging, interrupted, replied, userVars, logVars>>

LogAction(r) ==
  /\ At(r, "log")
  /\ LogIfAny(Action(r, result[r]))
  /\ Goto(r, "respond")
  /\ UNCHANGED <<mainVars, logging, interrupted, result, replied, executed, userVars>>

(* The response goes to the connection the request came from, if that is     *)
(* still open and works.                                                    *)
Respond(r) ==
  /\ At(r, "respond")
  /\ replied' = IF linkUp /\ ~interrupted /\ worker[r].conn = conns
                THEN replied \cup {r} ELSE replied
  /\ Goto(r, "done")
  /\ UNCHANGED <<mainVars, logging, interrupted, result, executed, userVars, logVars>>

-----------------------------------------------------------------------------
LinkLost ==
  /\ main = "run" /\ linkUp
  /\ linkUp' = FALSE
  /\ UNCHANGED <<main, conns, retries, logging, interrupted, workVars, userVars, logVars>>

MainStep ==
  \/ Connected \/ ConnectFails \/ ConnectInterrupted \/ RunReturns
  \/ EndSession \/ BeginReport \/ WriteReport \/ CloseLog \/ Exit

WorkerStep(r) ==
  \/ StartWorker(r) \/ TakeAnswer(r) \/ LogDenied(r) \/ LogApproved(r)
  \/ Dispatch(r) \/ LogAction(r) \/ Respond(r)

UserStep ==
  \/ Interrupt \/ PressEnter
  \/ \E r \in Requests, yes \in BOOLEAN : TypeAnswer(r, yes)

Next ==
  \/ MainStep
  \/ \E r \in Requests : WorkerStep(r) \/ ReadRequest(r)
  \/ UserStep
  \/ LinkLost

Spec == Init /\ [][Next]_vars

(* The scheduler runs the main goroutine and the workers; nobody has to type *)
(* or to send anything.                                                     *)
FairSpec == Spec /\ WF_vars(MainStep) /\ \A r \in Requests : WF_vars(WorkerStep(r))

-----------------------------------------------------------------------------
MainPC == {"dial", "run", "end", "report", "reporting", "enter", "exited"}

WorkerPC == {"none", "queued", "asking", "approved", "denied", "dispatch", "log", "respond",
             "done"}

Lines == {Enter} \cup {Answer(r, yes) : r \in Requests, yes \in BOOLEAN}

(* The type of every variable.                                              *)
TypeOK ==
  /\ Audit!TypeOK
  /\ main \in MainPC
  /\ logging \in BOOLEAN /\ interrupted \in BOOLEAN /\ linkUp \in BOOLEAN
  /\ conns \in 0..MaxConns
  /\ retries \in 0..(MaxRetries + 1)
  /\ worker \in [Requests -> [pc : WorkerPC, conn : 0..MaxConns]]
  /\ result \in [Requests -> {"none", "OK", "ERROR", "DENIED"}]
  /\ replied \subseteq Requests
  /\ executed \subseteq Requests
  /\ stdin \in Seq(Lines)
  /\ typed \subseteq Lines

(* However many questions are open, and whoever gets which line: no more     *)
(* operations that need a confirmation run than the user typed a yes        *)
(* (handler.go:58-73, main.go:168-185).                                     *)
NeverMoreThanApproved ==
  Cardinality(executed \cap Dangerous) <= Cardinality({l \in typed : l.yes})

Logged(w) == \E i \in 1..Len(entries) : entries[i] = w

Counted(w) == \E i \in 1..report.total : entries[i] = w

(* The log agrees with what was done: an operation that needed a             *)
(* confirmation is preceded by its APPROVED, a request that was dealt with   *)
(* is there with its result, and a denied one has no effect, not even later *)
(* (handler.go:62-83).                                                      *)
EffectsAreLogged ==
  logging =>
    \A r \in Requests :
      /\ r \in executed \cap Dangerous => Logged(Approved(r))
      /\ worker[r].pc = "done" =>
           IF r \in executed THEN Logged(Action(r, result[r])) /\ ~Logged(Denied(r))
                            ELSE Logged(Denied(r))

(* Whatever the operator had an answer to is counted by the report of the    *)
(* session, although the report does not wait for the workers (handler.go:   *)
(* 76-85 before client.go:208, main.go:83-92).                              *)
AnswersAreReported ==
  report # Audit!NoSummary =>
    \A r \in replied : IF result[r] = "DENIED" THEN Counted(Denied(r))
                                               ELSE Counted(Action(r, result[r]))

InFile(w) == \E i \in 1..Len(file) : file[i].kind = "entry" /\ file[i].what = w

(* Every action that was executed is in the log file once its worker is done *)
(* (guide: every action executed is registered in the audit log).           *)
ActionsInTheFile ==
  logging => \A r \in executed : worker[r].pc = "done" => InFile(Action(r, result[r]))

(* Ctrl+C ends the session once no question is open any more: neither a full *)
(* pool nor a connection that is being made keeps it (main.go:44-50, 105,    *)
(* client.go:139-168).                                                      *)
CtrlCEndsOnceAnswered ==
  <>[](\A r \in Requests : ~Question(r)) => (interrupted ~> main \in {"enter", "exited"})
=============================================================================
