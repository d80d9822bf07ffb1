------------------------- MODULE AgentHandlerProofs -------------------------
(***************************************************************************)
(* Proofs about AgentHandler, for any number of requests, workers, retries *)
(* and connections: the agent uses the audit log as AuditLog says, and the *)
(* log and its report tell what was done.                                  *)
(***************************************************************************)
EXTENDS AgentHandler, FiniteSetTheorems, SequenceTheorems, TLAPS

USE AgentAssumption

LogProofs == INSTANCE AuditLogProofs
               WITH Records <- LogRecords, Reporters <- {"main"}, MaxReports <- 1

(* What is not the log's.                                                   *)
AgentTypeOK ==
  /\ main \in MainPC
  /\ logging \in BOOLEAN /\ interrupted \in BOOLEAN /\ linkUp \in BOOLEAN
  /\ conns \in 0..MaxConns
  /\ retries \in 0..(MaxRetries + 1)
  /\ worker \in [Requests -> [pc : WorkerPC, conn : 0..MaxConns]]
  /\ result \in [Requests -> {"none", "OK", "ERROR", "DENIED"}]
  /\ replied \subseteq Requests
  /\ executed \subseteq Requests
  /\ stdin \in Seq(Lines)
  /\ typed \subseteq Lines

(* The main goroutine: the link is up in Run only, and the one report is     *)
(* begun after the last connection.                                         *)
MainStages ==
  /\ linkUp => main = "run"
  /\ main \in {"dial", "run"} => retries <= MaxRetries
  /\ main \in {"report", "reporting"} => logging
  /\ main \in {"dial", "run", "end", "report"} => reports = 0
  /\ reporter["main"].pc # "idle" => reports # 0

(* A worker: what it has done of its request.                               *)
Stages(r) ==
  /\ worker[r].pc \in {"none", "queued", "asking", "approved", "denied", "dispatch"} =>
       r \notin executed
  /\ worker[r].pc = "log" => r \in executed
  /\ r \in replied => worker[r].pc = "done"
  /\ r \in executed => result[r] \in {"OK", "ERROR"}
  /\ worker[r].pc \in {"respond", "done"} /\ r \notin executed => result[r] = "DENIED"

WorkerStages == \A r \in Requests : Stages(r)

(* The entry that tells the outcome of a request.                           *)
Outcome(r) == IF result[r] = "DENIED" THEN Denied(r) ELSE Action(r, result[r])

(* What a worker has done is in the log, and nothing that it has not done.   *)
Told(r) ==
  /\ r \in Dangerous /\ (worker[r].pc = "dispatch" \/ r \in executed) => Logged(Approved(r))
  /\ worker[r].pc \in {"respond", "done"} => Logged(Outcome(r))
  /\ Logged(Denied(r)) => worker[r].pc \in {"respond", "done"} /\ r \notin executed

WorkIsLogged == logging => \A r \in Requests : Told(r)

(* The summary counts all that was answered, and the report is that summary. *)
AnswersAreCounted ==
  IF reports = 0
  THEN report = Audit!NoSummary
  ELSE /\ report \in {Audit!NoSummary, reporter["main"].summary}
       /\ \A r \in replied :
            \E i \in 1..reporter["main"].summary.total : entries[i] = Outcome(r)

(* Requests that the user permitted, and lines with a yes: typed, and not    *)
(* read yet.                                                                *)
Permitted == {r \in Dangerous : worker[r].pc \in {"approved", "dispatch"} \/ r \in executed}

YesTyped == {l \in typed : l.yes}

Waiting == {stdin[i] : i \in 1..Len(stdin)}

YesWaiting == {l \in Waiting : l.yes}

(* Every line is read once at most, and a permission costs a line.           *)
LinesOnce ==
  /\ Waiting \subseteq typed
  /\ \A i, j \in 1..Len(stdin) : stdin[i] = stdin[j] => i = j

PermissionsPaid ==
  /\ IsFiniteSet(typed) /\ IsFiniteSet(Permitted)
  /\ Cardinality(Permitted) + Cardinality(YesWaiting) <= Cardinality(YesTyped)

IInv ==
  /\ LogProofs!IInv
  /\ AgentTypeOK
  /\ MainStages
  /\ WorkerStages
  /\ WorkIsLogged
  /\ AnswersAreCounted
  /\ LinesOnce
  /\ PermissionsPaid

-----------------------------------------------------------------------------
(* The log inside the agent.                                                 *)

LEMMA LogAssumption == LogProofs!AuditLogAssumption
<1>1. \A w \in LogRecords : w.result \in {"OK", "ERROR", "DENIED"}
  BY DEF LogRecords, SessionStart, SessionEnd, Denied, Approved, Action, Record
<1> QED
  BY <1>1 DEF LogProofs!AuditLogAssumption

LEMMA SameConstants ==
  /\ Audit!Genesis = LogProofs!Genesis /\ Audit!NoSummary = LogProofs!NoSummary
  /\ Audit!logVars = logVars /\ LogProofs!logVars = logVars
BY DEF Audit!Genesis, LogProofs!Genesis, Audit!NoSummary, LogProofs!NoSummary,
       Audit!logVars, LogProofs!logVars, logVars

LEMMA SameDisk ==
  /\ \A line : Audit!Written(line) <=> LogProofs!Written(line)
  /\ Audit!NotWritten <=> LogProofs!NotWritten
  /\ Audit!DiskFails <=> LogProofs!DiskFails
BY DEF Audit!Written, LogProofs!Written, Audit!NotWritten, LogProofs!NotWritten,
       Audit!DiskFails, LogProofs!DiskFails

LEMMA SameSummary == Audit!SessionSummary = LogProofs!SessionSummary
<1>1. \A S : Audit!Cardinality(S) = LogProofs!Cardinality(S)
  BY Zenon DEF Audit!Cardinality, LogProofs!Cardinality
<1>2. \A res : Audit!Count(res) = LogProofs!Count(res)
  BY <1>1 DEF Audit!Count, LogProofs!Count
<1> QED
  BY <1>2 DEF Audit!SessionSummary, LogProofs!SessionSummary

LEMMA SameLog ==
  /\ \A w : Audit!Log(w) <=> LogProofs!Log(w)
  /\ Audit!BeginReport("main") <=> LogProofs!BeginReport("main")
  /\ Audit!WriteReportFile("main") <=> LogProofs!WriteReportFile("main")
  /\ Audit!AppendMarker("main") <=> LogProofs!AppendMarker("main")
  /\ Audit!AppendSummary("main") <=> LogProofs!AppendSummary("main")
  /\ Audit!Close <=> LogProofs!Close
<1>1. \A w : Audit!EntryLine(w) = LogProofs!EntryLine(w)
  BY DEF Audit!EntryLine, LogProofs!EntryLine
<1>2. ASSUME NEW w PROVE Audit!Log(w) <=> LogProofs!Log(w)
  BY <1>1, SameDisk DEF Audit!Log, LogProofs!Log
<1>3. Audit!BeginReport("main") <=> LogProofs!BeginReport("main")
  BY SameSummary DEF Audit!BeginReport, LogProofs!BeginReport
<1>4. Audit!WriteReportFile("main") <=> LogProofs!WriteReportFile("main")
  BY SameDisk, SameConstants DEF Audit!WriteReportFile, LogProofs!WriteReportFile
<1>5. Audit!AppendMarker("main") <=> LogProofs!AppendMarker("main")
  BY SameDisk DEF Audit!AppendMarker, LogProofs!AppendMarker
<1>6. Audit!AppendSummary("main") <=> LogProofs!AppendSummary("main")
  BY SameDisk DEF Audit!AppendSummary, LogProofs!AppendSummary
<1>7. Audit!Close <=> LogProofs!Close
  BY DEF Audit!Close, LogProofs!Close
<1> QED
  BY <1>2, <1>3, <1>4, <1>5, <1>6, <1>7

LEMMA SameStart == (Audit!Init <=> LogProofs!Init) /\ (Audit!TypeOK <=> LogProofs!TypeOK)
<1>1. Audit!Init <=> LogProofs!Init
  BY SameConstants DEF Audit!Init, LogProofs!Init
<1>2. Audit!Summary = LogProofs!Summary /\ Audit!Hashes = LogProofs!Hashes
  BY SameConstants DEF Audit!Summary, LogProofs!Summary, Audit!Hashes, LogProofs!Hashes
<1>3. Audit!Line = LogProofs!Line
  BY <1>2, SameConstants DEF Audit!Line, LogProofs!Line
<1>4. Audit!TypeOK <=> LogProofs!TypeOK
  BY <1>2, <1>3, SameConstants DEF Audit!TypeOK, LogProofs!TypeOK
<1> QED
  BY <1>1, <1>4

(* A step of the agent is one of the log, or leaves the log alone.          *)
LEMMA LogStep ==
  ASSUME NEW w \in LogRecords, LogIfAny(w)
  PROVE  LogProofs!Next \/ UNCHANGED logVars
BY SameLog DEF LogIfAny, LogProofs!Next

LEMMA StepIsLogStep ==
  ASSUME WorkerStages, [Next]_vars
  PROVE  LogProofs!Next \/ UNCHANGED logVars
<1>1. CASE Connected \/ EndSession
  <2>1. SessionStart \in LogRecords /\ SessionEnd \in LogRecords
    BY DEF LogRecords
  <2> QED
    BY <1>1, <2>1, LogStep DEF Connected, EndSession
<1>2. CASE \E r \in Requests : LogDenied(r) \/ LogApproved(r) \/ LogAction(r)
  <2>1. PICK r \in Requests : LogDenied(r) \/ LogApproved(r) \/ LogAction(r)
    BY <1>2
  <2>2. Denied(r) \in LogRecords /\ Approved(r) \in LogRecords
    BY DEF LogRecords
  <2>3. LogAction(r) => result[r] \in {"OK", "ERROR"}
    BY DEF LogAction, At, WorkerStages, Stages
  <2>4. LogAction(r) => Action(r, result[r]) \in LogRecords
    BY <2>3 DEF LogRecords
  <2> QED
    BY <2>1, <2>2, <2>4, LogStep DEF LogDenied, LogApproved, LogAction
<1>3. CASE BeginReport
  BY <1>3, SameLog DEF BeginReport, LogProofs!Next
<1>4. CASE WriteReport
  BY <1>4, SameLog DEF WriteReport, LogProofs!Next
<1>5. CASE CloseLog
  BY <1>5, SameLog DEF CloseLog, LogProofs!Next
<1>6. CASE \E r \in Requests : \/ StartWorker(r) \/ TakeAnswer(r) \/ Dispatch(r)
                               \/ Respond(r) \/ ReadRequest(r)
  BY <1>6 DEF StartWorker, TakeAnswer, Dispatch, Respond, ReadRequest
<1>7. CASE \/ ConnectFails \/ ConnectInterrupted \/ RunReturns \/ Exit \/ UserStep \/ LinkLost
           \/ UNCHANGED vars
  BY <1>7 DEF ConnectFails, ConnectInterrupted, RunReturns, Exit, UserStep, Interrupt,
              PressEnter, TypeAnswer, Type, LinkLost, vars
<1> QED
  BY <1>1, <1>2, <1>3, <1>4, <1>5, <1>6, <1>7 DEF Next, MainStep, WorkerStep

LEMMA LogInvInit == Init => LogProofs!IInv
  BY LogAssumption, SameStart, LogProofs!InitIInv DEF Init

LEMMA LogInvStep == LogProofs!IInv /\ WorkerStages /\ [Next]_vars => LogProofs!IInv'
  BY LogAssumption, StepIsLogStep, LogProofs!NextIInv DEF LogProofs!logVars, logVars

-----------------------------------------------------------------------------
(* What logging does to the copy of the entries.                             *)

LEMMA RecordsApart ==
  \A r, s \in Requests : \A a, b \in {"OK", "ERROR"} :
    /\ Denied(r) = Denied(s) => r = s
    /\ Denied(r) # Approved(s) /\ Denied(r) # Action(s, a)
    /\ Denied(r) # SessionStart /\ Denied(r) # SessionEnd
BY DEF Denied, Approved, Action, SessionStart, SessionEnd, Record

LEMMA LogSays ==
  ASSUME LogProofs!IInv, NEW w \in LogRecords, LogIfAny(w)
  PROVE  /\ UNCHANGED <<report, reporter, reports>>
         /\ \A i \in 1..Len(entries) : i \in 1..Len(entries') /\ entries'[i] = entries[i]
         /\ \A v : Logged(v) => Logged(v)'
         /\ \A v : Logged(v)' => Logged(v) \/ v = w
         /\ logging => Logged(w)'
<1>1. CASE ~logging
  BY <1>1 DEF LogIfAny, logVars, Logged
<1>2. CASE logging
  <2>1. entries' = Append(entries, w) /\ UNCHANGED <<report, reporter, reports>>
    BY <1>2 DEF LogIfAny, Audit!Log
  <2>2. entries \in Seq(LogRecords)
    BY DEF LogProofs!IInv, LogProofs!TypeOK
  <2>3. /\ Len(entries) \in Nat /\ Len(entries') = Len(entries) + 1
        /\ \A i \in 1..Len(entries) : entries'[i] = entries[i]
        /\ entries'[Len(entries) + 1] = w
    BY <2>1, <2>2, LogProofs!AppendSays
  <2>4. \A v : Logged(v) => Logged(v)'
    BY <2>3 DEF Logged
  <2>5. \A v : Logged(v)' => Logged(v) \/ v = w
    BY <2>3 DEF Logged
  <2>6. Logged(w)'
    BY <2>3 DEF Logged
  <2> QED
    BY <2>1, <2>3, <2>4, <2>5, <2>6
<1> QED
  BY <1>1, <1>2

-----------------------------------------------------------------------------
(* The stages of the main goroutine and of the workers.                      *)

LEMMA TakeLineSays ==
  ASSUME AgentTypeOK, TakeLine
  PROVE  /\ stdin' \in Seq(Lines) /\ UNCHANGED typed
         /\ stdin # <<>> /\ Len(stdin) \in Nat /\ Len(stdin) > 0
         /\ Head(stdin) = stdin[1]
         /\ stdin' = <<>> \/ /\ Len(stdin') = Len(stdin) - 1
                             /\ \A i \in 1..Len(stdin') : stdin'[i] = stdin[i + 1]
<1>1. stdin \in Seq(Lines) /\ stdin # <<>>
  BY DEF AgentTypeOK, TakeLine
<1>2. Len(stdin) \in Nat /\ Len(stdin) > 0 /\ Head(stdin) = stdin[1]
  BY <1>1, EmptySeq
<1>3. CASE stdin' = <<>>
  BY <1>1, <1>2, <1>3, EmptySeq DEF TakeLine
<1>4. CASE stdin' = Tail(stdin)
  BY <1>1, <1>2, <1>4, HeadTailProperties DEF TakeLine
<1> QED
  BY <1>3, <1>4 DEF TakeLine

LEMMA TypesKept == AgentTypeOK /\ MainStages /\ [Next]_vars => AgentTypeOK'
<1> SUFFICES ASSUME AgentTypeOK, MainStages, [Next]_vars PROVE AgentTypeOK'
  OBVIOUS
<1> USE DEF AgentTypeOK
<1>1. CASE \/ Connected \/ ConnectFails \/ ConnectInterrupted \/ RunReturns
           \/ EndSession \/ BeginReport \/ WriteReport \/ CloseLog
  <2>1. main' \in MainPC /\ linkUp' \in BOOLEAN
    BY <1>1 DEF Connected, ConnectFails, ConnectInterrupted, RunReturns, EndSession,
                BeginReport, WriteReport, CloseLog, MainPC, mainVars
  <2>2. conns' \in 0..MaxConns /\ retries' \in 0..(MaxRetries + 1)
    BY <1>1 DEF Connected, ConnectFails, ConnectInterrupted, RunReturns, EndSession,
                BeginReport, WriteReport, CloseLog, MainStages, mainVars
  <2>3. UNCHANGED <<logging, interrupted, workVars, userVars>>
    BY <1>1 DEF Connected, ConnectFails, ConnectInterrupted, RunReturns, EndSession,
                BeginReport, WriteReport, CloseLog
  <2> QED
    BY <2>1, <2>2, <2>3 DEF workVars, userVars
<1>2. CASE Exit
  BY <1>2, TakeLineSays DEF Exit, MainPC, workVars
<1>3. ASSUME NEW r \in Requests, WorkerStep(r) \/ ReadRequest(r) PROVE AgentTypeOK'
  <2>1. CASE ReadRequest(r)
    <3>1. [pc |-> "queued", conn |-> conns] \in [pc : WorkerPC, conn : 0..MaxConns]
      BY DEF WorkerPC
    <3>2. worker' \in [Requests -> [pc : WorkerPC, conn : 0..MaxConns]]
      BY <2>1, <3>1 DEF ReadRequest
    <3> QED
      BY <2>1, <3>2 DEF ReadRequest, mainVars, userVars
  <2>2. CASE TakeAnswer(r)
    <3>1. worker' \in [Requests -> [pc : WorkerPC, conn : 0..MaxConns]]
      BY <2>2 DEF TakeAnswer, Goto, WorkerPC
    <3> QED
      BY <2>2, <3>1, TakeLineSays DEF TakeAnswer, mainVars
  <2>3. CASE StartWorker(r) \/ LogApproved(r) \/ LogAction(r) \/ Respond(r)
    <3>1. worker' \in [Requests -> [pc : WorkerPC, conn : 0..MaxConns]]
      <4>1. PICK pc \in WorkerPC : Goto(r, pc)
        BY <2>3 DEF StartWorker, LogApproved, LogAction, Respond, WorkerPC
      <4> QED
        BY <4>1 DEF Goto
    <3>2. replied' \subseteq Requests
      BY <2>3 DEF StartWorker, LogApproved, LogAction, Respond
    <3>3. UNCHANGED <<mainVars, logging, interrupted, result, executed, userVars>>
      BY <2>3 DEF StartWorker, LogApproved, LogAction, Respond
    <3> QED
      BY <3>1, <3>2, <3>3 DEF mainVars, userVars
  <2>4. CASE LogDenied(r)
    BY <2>4 DEF LogDenied, Goto, WorkerPC, mainVars, userVars
  <2>5. CASE Dispatch(r)
    BY <2>5 DEF Dispatch, Goto, WorkerPC, mainVars, userVars
  <2> QED
    BY <1>3, <2>1, <2>2, <2>3, <2>4, <2>5 DEF WorkerStep
<1>4. CASE UserStep
  <2>1. ASSUME NEW line \in Lines, Type(line) PROVE AgentTypeOK'
    BY <2>1 DEF Type, mainVars, workVars
  <2>2. CASE Interrupt
    BY <2>2 DEF Interrupt, mainVars, workVars, userVars
  <2>3. CASE PressEnter
    BY <2>1, <2>3 DEF PressEnter, Lines
  <2>4. CASE \E r \in Requests, yes \in BOOLEAN : TypeAnswer(r, yes)
    BY <2>1, <2>4 DEF TypeAnswer, Lines
  <2> QED
    BY <1>4, <2>2, <2>3, <2>4 DEF UserStep
<1>5. CASE LinkLost
  BY <1>5 DEF LinkLost, workVars, userVars
<1>6. CASE UNCHANGED vars
  BY <1>6 DEF vars, mainVars, workVars, userVars
<1> QED
  BY <1>1, <1>2, <1>3, <1>4, <1>5, <1>6 DEF Next, MainStep

(* Only the log of the main goroutine's report moves reporter and reports.   *)
LEMMA LogIfAnyQuiet ==
  \A w : LogIfAny(w) => UNCHANGED <<report, reporter, reports>>
BY DEF LogIfAny, Audit!Log, logVars

LEMMA MainStagesKept ==
  LogProofs!IInv /\ AgentTypeOK /\ MainStages /\ [Next]_vars => MainStages'
<1> SUFFICES ASSUME LogProofs!IInv, AgentTypeOK, MainStages, [Next]_vars PROVE MainStages'
  OBVIOUS
<1> USE DEF MainStages
<1>1. CASE Connected \/ EndSession
  BY <1>1, LogIfAnyQuiet DEF Connected, EndSession
<1>2. CASE ConnectFails \/ ConnectInterrupted \/ RunReturns
  BY <1>2 DEF ConnectFails, ConnectInterrupted, RunReturns, logVars, AgentTypeOK
<1>3. CASE BeginReport
  <2>1. reports \in Nat /\ reports' = reports + 1
    BY <1>3 DEF BeginReport, Audit!BeginReport, LogProofs!IInv, LogProofs!TypeOK
  <2> QED
    BY <1>3, <2>1 DEF BeginReport
<1>4. CASE WriteReport
  <2>1. reporter["main"].pc # "idle" /\ UNCHANGED <<reports, mainVars, logging>>
    BY <1>4 DEF WriteReport, Audit!WriteReportFile, Audit!AppendMarker, Audit!AppendSummary
  <2> QED
    BY <2>1 DEF mainVars
<1>5. CASE CloseLog
  BY <1>5 DEF CloseLog, Audit!Close
<1>6. CASE Exit
  BY <1>6 DEF Exit, logVars
<1>7. CASE \E r \in Requests : WorkerStep(r)
  BY <1>7, LogIfAnyQuiet DEF WorkerStep, StartWorker, TakeAnswer, LogDenied, LogApproved,
     Dispatch, LogAction, Respond, mainVars, logVars
<1>8. CASE (\E r \in Requests : ReadRequest(r)) \/ UserStep \/ LinkLost \/ UNCHANGED vars
  BY <1>8 DEF ReadRequest, UserStep, Interrupt, PressEnter, TypeAnswer, Type, LinkLost, vars,
     mainVars, logVars
<1> QED
  BY <1>1, <1>2, <1>3, <1>4, <1>5, <1>6, <1>7, <1>8 DEF Next, MainStep

(* A step of one worker leaves the others where they are.                    *)
LEMMA GotoSays ==
  ASSUME AgentTypeOK, NEW r \in Requests, NEW pc, Goto(r, pc)
  PROVE  /\ worker'[r].pc = pc
         /\ worker'[r].conn = worker[r].conn
         /\ \A s \in Requests \ {r} : worker'[s] = worker[s]
BY DEF AgentTypeOK, Goto

(* What a worker's step does to its own request, and to no other.            *)
LEMMA OthersKept ==
  ASSUME AgentTypeOK, NEW r \in Requests, WorkerStep(r) \/ ReadRequest(r)
  PROVE  \A s \in Requests \ {r} :
           /\ worker'[s] = worker[s] /\ result'[s] = result[s]
           /\ (s \in executed' <=> s \in executed) /\ (s \in replied' <=> s \in replied)
<1>1. CASE StartWorker(r) \/ TakeAnswer(r) \/ LogApproved(r) \/ LogAction(r)
  BY <1>1, GotoSays DEF StartWorker, TakeAnswer, LogApproved, LogAction
<1>2. CASE LogDenied(r)
  BY <1>2, GotoSays DEF LogDenied, AgentTypeOK
<1>3. CASE Dispatch(r)
  BY <1>3, GotoSays DEF Dispatch, AgentTypeOK
<1>4. CASE Respond(r)
  BY <1>4, GotoSays DEF Respond
<1>5. CASE ReadRequest(r)
  BY <1>5 DEF ReadRequest, AgentTypeOK
<1> QED
  BY <1>1, <1>2, <1>3, <1>4, <1>5 DEF WorkerStep

(* No step but a worker's own changes what the workers have done.            *)
LEMMA WorkersOnlyWork ==
  ASSUME [Next]_vars
  PROVE  UNCHANGED workVars \/ \E r \in Requests : WorkerStep(r) \/ ReadRequest(r)
BY DEF Next, MainStep, Connected, ConnectFails, ConnectInterrupted, RunReturns, EndSession,
       BeginReport, WriteReport, CloseLog, Exit, UserStep, Interrupt, PressEnter, TypeAnswer,
       Type, LinkLost, vars

LEMMA WorkerStagesKept ==
  AgentTypeOK /\ WorkerStages /\ [Next]_vars => WorkerStages'
<1> SUFFICES ASSUME AgentTypeOK, WorkerStages, [Next]_vars PROVE WorkerStages'
  OBVIOUS
<1>1. CASE UNCHANGED workVars
  BY <1>1 DEF workVars, WorkerStages, Stages
<1>2. ASSUME NEW r \in Requests, WorkerStep(r) \/ ReadRequest(r) PROVE WorkerStages'
  <2>1. \A s \in Requests \ {r} : Stages(s)'
    BY <1>2, OthersKept DEF WorkerStages, Stages
  <2>2. Stages(r)
    BY DEF WorkerStages
  <2>3. Stages(r)'
    <3>1. CASE ReadRequest(r)
      BY <2>2, <3>1 DEF ReadRequest, Stages, AgentTypeOK
    <3>2. CASE StartWorker(r) \/ TakeAnswer(r) \/ LogApproved(r)
      BY <2>2, <3>2, GotoSays DEF StartWorker, TakeAnswer, LogApproved, Stages, At
    <3>3. CASE LogDenied(r)
      BY <2>2, <3>3, GotoSays DEF LogDenied, Stages, At, AgentTypeOK
    <3>4. CASE Dispatch(r)
      BY <2>2, <3>4, GotoSays DEF Dispatch, Stages, At, AgentTypeOK
    <3>5. CASE LogAction(r) \/ Respond(r)
      BY <2>2, <3>5, GotoSays DEF LogAction, Respond, Stages, At
    <3> QED
      BY <1>2, <3>1, <3>2, <3>3, <3>4, <3>5 DEF WorkerStep
  <2> QED
    BY <2>1, <2>3 DEF WorkerStages
<1> QED
  BY <1>1, <1>2, WorkersOnlyWork

-----------------------------------------------------------------------------
(* The work and its entries.                                                 *)

(* Nothing logged before is lost, and of the new entries none is a denial.   *)
LogGrows ==
  /\ \A v : Logged(v) => Logged(v)'
  /\ \A s \in Requests : Logged(Denied(s))' => Logged(Denied(s))

LEMMA SameEntries == UNCHANGED entries => LogGrows
  BY DEF LogGrows, Logged

LEMMA QuietLog ==
  ASSUME LogProofs!IInv, [Next]_vars
  PROVE  (\E r \in Requests : WorkerStep(r)) \/ (UNCHANGED logging /\ LogGrows)
<1>1. CASE Connected \/ EndSession
  <2>1. SessionStart \in LogRecords /\ SessionEnd \in LogRecords
    BY DEF LogRecords
  <2>2. PICK w \in {SessionStart, SessionEnd} : LogIfAny(w)
    BY <1>1 DEF Connected, EndSession
  <2>3. UNCHANGED logging
    BY <1>1 DEF Connected, EndSession
  <2>4. \A s \in Requests : Denied(s) # w
    BY RecordsApart
  <2>5. /\ \A v : Logged(v) => Logged(v)'
        /\ \A v : Logged(v)' => Logged(v) \/ v = w
    BY <2>1, <2>2, LogSays
  <2> QED
    BY <2>3, <2>4, <2>5 DEF LogGrows
<1>2. CASE BeginReport \/ WriteReport \/ CloseLog
  <2>1. UNCHANGED <<logging, entries>>
    BY <1>2 DEF BeginReport, WriteReport, CloseLog, Audit!BeginReport, Audit!WriteReportFile,
                Audit!AppendMarker, Audit!AppendSummary, Audit!Close
  <2> QED
    BY <2>1, SameEntries
<1>3. CASE \/ ConnectFails \/ ConnectInterrupted \/ RunReturns \/ Exit \/ UserStep \/ LinkLost
           \/ UNCHANGED vars \/ \E r \in Requests : ReadRequest(r)
  <2>1. UNCHANGED <<logging, entries>>
    BY <1>3 DEF ConnectFails, ConnectInterrupted, RunReturns, Exit, UserStep, Interrupt,
                PressEnter, TypeAnswer, Type, LinkLost, ReadRequest, vars, logVars
  <2> QED
    BY <2>1, SameEntries
<1> QED
  BY <1>1, <1>2, <1>3 DEF Next, MainStep

(* What a worker's step adds to the log is about its own request.            *)
LEMMA WorkerLog ==
  ASSUME LogProofs!IInv, WorkerStages, NEW r \in Requests, WorkerStep(r)
  PROVE  /\ UNCHANGED logging
         /\ \A v : Logged(v) => Logged(v)'
         /\ \A s \in Requests \ {r} : Logged(Denied(s))' => Logged(Denied(s))
         /\ ~LogDenied(r) => LogGrows
         /\ logging /\ LogDenied(r) => Logged(Denied(r))'
         /\ logging /\ LogApproved(r) => Logged(Approved(r))'
         /\ logging /\ LogAction(r) => Logged(Action(r, result[r]))'
<1>1. CASE StartWorker(r) \/ TakeAnswer(r) \/ Dispatch(r) \/ Respond(r)
  <2>1. UNCHANGED <<logging, entries>>
    BY <1>1 DEF StartWorker, TakeAnswer, Dispatch, Respond, logVars
  <2>2. ~LogDenied(r) /\ ~LogApproved(r) /\ ~LogAction(r)
    BY <1>1 DEF StartWorker, TakeAnswer, Dispatch, Respond, LogDenied, LogApproved, LogAction, At
  <2> QED
    BY <2>1, <2>2, SameEntries DEF LogGrows
<1>2. CASE LogDenied(r)
  <2>1. Denied(r) \in LogRecords /\ LogIfAny(Denied(r)) /\ UNCHANGED logging
    BY <1>2 DEF LogRecords, LogDenied
  <2>2. ~LogApproved(r) /\ ~LogAction(r)
    BY <1>2 DEF LogDenied, LogApproved, LogAction, At
  <2>3. /\ \A v : Logged(v) => Logged(v)'
        /\ \A v : Logged(v)' => Logged(v) \/ v = Denied(r)
        /\ logging => Logged(Denied(r))'
    BY <2>1, LogSays
  <2>4. \A s \in Requests \ {r} : Denied(s) # Denied(r)
    BY RecordsApart
  <2> QED
    BY <1>2, <2>1, <2>2, <2>3, <2>4
<1>3. CASE LogApproved(r)
  <2>1. Approved(r) \in LogRecords /\ LogIfAny(Approved(r)) /\ UNCHANGED logging
    BY <1>3 DEF LogRecords, LogApproved
  <2>2. ~LogDenied(r) /\ ~LogAction(r)
    BY <1>3 DEF LogDenied, LogApproved, LogAction, At
  <2>3. /\ \A v : Logged(v) => Logged(v)'
        /\ \A v : Logged(v)' => Logged(v) \/ v = Approved(r)
        /\ logging => Logged(Approved(r))'
    BY <2>1, LogSays
  <2>4. \A s \in Requests : Denied(s) # Approved(r)
    BY RecordsApart
  <2>5. LogGrows
    BY <2>3, <2>4 DEF LogGrows
  <2> QED
    BY <2>1, <2>2, <2>3, <2>5 DEF LogGrows
<1>4. CASE LogAction(r)
  <2>1. result[r] \in {"OK", "ERROR"}
    BY <1>4 DEF LogAction, At, WorkerStages, Stages
  <2> DEFINE w == Action(r, result[r])
  <2>2. w \in LogRecords /\ LogIfAny(w) /\ UNCHANGED <<logging, result>>
    BY <1>4, <2>1 DEF LogRecords, LogAction
  <2>3. ~LogDenied(r) /\ ~LogApproved(r)
    BY <1>4 DEF LogDenied, LogApproved, LogAction, At
  <2>4. /\ \A v : Logged(v) => Logged(v)'
        /\ \A v : Logged(v)' => Logged(v) \/ v = w
        /\ logging => \E i \in 1..Len(entries') : entries'[i] = w
    BY <2>2, LogSays DEF Logged
  <2>5. \A s \in Requests : Denied(s) # w
    BY <2>1, RecordsApart
  <2>6. LogGrows
    BY <2>4, <2>5 DEF LogGrows
  <2>7. logging => Logged(Action(r, result[r]))'
    BY <2>2, <2>4 DEF Logged, Action, Record
  <2> QED
    BY <2>2, <2>3, <2>6, <2>7 DEF LogGrows
<1> QED
  BY <1>1, <1>2, <1>3, <1>4 DEF WorkerStep

(* The outcome of a request that is over stays what it is.                   *)
LEMMA OutcomeKept ==
  ASSUME NEW s \in Requests, result'[s] = result[s], Logged(Outcome(s)),
         \A v : Logged(v) => Logged(v)'
  PROVE  Logged(Outcome(s))'
<1>1. \E i \in 1..Len(entries') : entries'[i] = Outcome(s)
  BY DEF Logged
<1>2. Outcome(s)' = Outcome(s)
  BY DEF Outcome, Denied, Action, Record
<1> QED
  BY <1>1, <1>2 DEF Logged

LEMMA WorkIsLoggedKept ==
  ASSUME LogProofs!IInv, AgentTypeOK, WorkerStages, WorkIsLogged, [Next]_vars
  PROVE  WorkIsLogged'
<1>1. ASSUME NEW s \in Requests, logging, LogGrows, UNCHANGED workVars
      PROVE  Told(s)'
  BY <1>1, OutcomeKept DEF WorkIsLogged, Told, LogGrows, workVars, Approved, Denied, Record
<1>2. ASSUME NEW r \in Requests, WorkerStep(r) \/ ReadRequest(r), logging,
             \A v : Logged(v) => Logged(v)', NEW s \in Requests \ {r},
             Logged(Denied(s))' => Logged(Denied(s))
      PROVE  Told(s)'
  <2>1. /\ worker'[s] = worker[s] /\ result'[s] = result[s]
        /\ (s \in executed' <=> s \in executed)
    BY <1>2, OthersKept
  <2>2. Told(s)
    BY <1>2 DEF WorkIsLogged
  <2> QED
    BY <1>2, <2>1, <2>2, OutcomeKept DEF Told
<1>3. ASSUME NEW r \in Requests, ReadRequest(r), logging, LogGrows PROVE Told(r)'
  <2>1. /\ worker[r].pc = "none" /\ worker'[r].pc = "queued" /\ UNCHANGED executed
    BY <1>3 DEF ReadRequest, AgentTypeOK
  <2>2. r \notin executed /\ ~Logged(Denied(r))
    BY <1>3, <2>1 DEF WorkerStages, Stages, WorkIsLogged, Told
  <2> QED
    BY <1>3, <2>1, <2>2 DEF Told, LogGrows
<1>4. ASSUME NEW r \in Requests, WorkerStep(r), logging PROVE Told(r)'
  <2>1. Told(r) /\ Stages(r)
    BY <1>4 DEF WorkIsLogged, WorkerStages
  <2>2. /\ \A v : Logged(v) => Logged(v)'
        /\ ~LogDenied(r) => LogGrows
        /\ logging /\ LogDenied(r) => Logged(Denied(r))'
        /\ logging /\ LogApproved(r) => Logged(Approved(r))'
        /\ logging /\ LogAction(r) => Logged(Action(r, result[r]))'
    BY <1>4, WorkerLog
  <2>3. CASE StartWorker(r)
    <3>1. /\ worker[r].pc = "queued" /\ worker'[r].pc \in {"asking", "dispatch"}
          /\ r \in Dangerous => worker'[r].pc = "asking"
          /\ UNCHANGED executed
      BY <2>3, GotoSays DEF StartWorker, At, NeedsConfirmation
    <3>2. ~LogDenied(r)
      BY <3>1 DEF LogDenied, At
    <3> QED
      BY <2>1, <2>2, <3>1, <3>2 DEF Told, Stages, LogGrows
  <2>4. CASE TakeAnswer(r)
    <3>1. /\ worker[r].pc = "asking" /\ worker'[r].pc \in {"approved", "denied"}
          /\ UNCHANGED executed
      BY <2>4, GotoSays DEF TakeAnswer, At
    <3>2. ~LogDenied(r)
      BY <3>1 DEF LogDenied, At
    <3> QED
      BY <2>1, <2>2, <3>1, <3>2 DEF Told, Stages, LogGrows
  <2>5. CASE LogDenied(r)
    <3>1. /\ worker[r].pc = "denied" /\ worker'[r].pc = "respond"
          /\ UNCHANGED executed /\ result'[r] = "DENIED"
      BY <2>5, GotoSays DEF LogDenied, At, AgentTypeOK
    <3>2. Logged(Denied(r))'
      BY <1>4, <2>2, <2>5
    <3>3. Logged(Outcome(r))'
      BY <3>1, <3>2 DEF Outcome
    <3> QED
      BY <2>1, <3>1, <3>3 DEF Told, Stages
  <2>6. CASE LogApproved(r)
    <3>1. /\ worker[r].pc = "approved" /\ worker'[r].pc = "dispatch" /\ UNCHANGED executed
      BY <2>6, GotoSays DEF LogApproved, At
    <3>2. ~LogDenied(r)
      BY <3>1 DEF LogDenied, At
    <3>3. Logged(Approved(r))'
      BY <1>4, <2>2, <2>6
    <3> QED
      BY <2>1, <2>2, <3>1, <3>2, <3>3 DEF Told, Stages, LogGrows
  <2>7. CASE Dispatch(r)
    <3>1. worker[r].pc = "dispatch" /\ worker'[r].pc = "log"
      BY <2>7, GotoSays DEF Dispatch, At
    <3>2. ~LogDenied(r)
      BY <3>1 DEF LogDenied, At
    <3>3. r \in Dangerous => Logged(Approved(r))
      BY <2>1, <3>1 DEF Told
    <3>4. r \in Dangerous => Logged(Approved(r))'
      BY <2>2, <3>3
    <3> QED
      BY <2>1, <2>2, <3>1, <3>2, <3>4 DEF Told, LogGrows
  <2>8. CASE LogAction(r)
    <3>1. /\ worker[r].pc = "log" /\ worker'[r].pc = "respond" /\ UNCHANGED <<executed, result>>
      BY <2>8, GotoSays DEF LogAction, At
    <3>2. r \in executed /\ result[r] \in {"OK", "ERROR"} /\ ~LogDenied(r)
      BY <2>1, <3>1 DEF Stages, LogDenied, At
    <3>3. Logged(Action(r, result[r]))'
      BY <1>4, <2>2, <2>8
    <3>4. Logged(Outcome(r))'
      BY <3>1, <3>2, <3>3 DEF Outcome
    <3>5. r \in Dangerous => Logged(Approved(r))'
      BY <2>1, <2>2, <3>2 DEF Told
    <3>6. ~Logged(Denied(r))'
      BY <2>1, <2>2, <3>1, <3>2 DEF Told, LogGrows
    <3> QED
      BY <3>4, <3>5, <3>6 DEF Told
  <2>9. CASE Respond(r)
    <3>1. /\ worker[r].pc = "respond" /\ worker'[r].pc = "done" /\ UNCHANGED <<executed, result>>
      BY <2>9, GotoSays DEF Respond, At
    <3>2. ~LogDenied(r)
      BY <3>1 DEF LogDenied, At
    <3>3. Logged(Outcome(r))'
      BY <2>1, <2>2, <3>1, OutcomeKept DEF Told
    <3> QED
      BY <2>1, <2>2, <3>1, <3>2, <3>3 DEF Told, Stages, LogGrows
  <2> QED
    BY <1>4, <2>3, <2>4, <2>5, <2>6, <2>7, <2>8, <2>9 DEF WorkerStep
<1>5. CASE \E r \in Requests : WorkerStep(r)
  <2>1. PICK r \in Requests : WorkerStep(r)
    BY <1>5
  <2>2. /\ UNCHANGED logging /\ \A v : Logged(v) => Logged(v)'
        /\ \A s \in Requests \ {r} : Logged(Denied(s))' => Logged(Denied(s))
    BY <2>1, WorkerLog
  <2>3. ASSUME logging, NEW s \in Requests \ {r} PROVE Told(s)'
    BY <1>2, <2>1, <2>2, <2>3
  <2> QED
    BY <1>4, <2>1, <2>2, <2>3 DEF WorkIsLogged
<1>6. CASE \E r \in Requests : ReadRequest(r) /\ ~WorkerStep(r)
  <2>1. PICK r \in Requests : ReadRequest(r)
    BY <1>6
  <2>2. UNCHANGED logging /\ LogGrows
    BY <2>1, SameEntries DEF ReadRequest, logVars
  <2>3. ASSUME logging, NEW s \in Requests \ {r} PROVE Told(s)'
    BY <1>2, <2>1, <2>2, <2>3 DEF LogGrows
  <2> QED
    BY <1>3, <2>1, <2>2, <2>3 DEF WorkIsLogged
<1>7. CASE ~\E r \in Requests : WorkerStep(r) \/ ReadRequest(r)
  <2>1. UNCHANGED workVars /\ UNCHANGED logging /\ LogGrows
    BY <1>7, WorkersOnlyWork, QuietLog
  <2> QED
    BY <1>1, <2>1 DEF WorkIsLogged
<1> QED
  BY <1>5, <1>6, <1>7

-----------------------------------------------------------------------------
(* The answers and the report.                                               *)

(* What was counted stays counted, if it is only the log that grows, and     *)
(* nobody is answered any more.                                             *)
LEMMA StaysCounted ==
  ASSUME LogProofs!IInv, AnswersAreCounted,
         UNCHANGED <<report, reporter, reports>>,
         \A i \in 1..Len(entries) : i \in 1..Len(entries') /\ entries'[i] = entries[i],
         reports # 0 => replied' \subseteq replied,
         \A s \in replied : result'[s] = result[s]
  PROVE  AnswersAreCounted'
<1>1. CASE reports = 0
  BY <1>1 DEF AnswersAreCounted, Audit!NoSummary, Audit!Genesis
<1>2. CASE reports # 0
  <2> DEFINE total == reporter["main"].summary.total
  <2>1. Len(entries) \in Nat /\ total \in Nat
    BY DEF LogProofs!IInv, LogProofs!TypeOK, LogProofs!Summary
  <2>2. total <= Len(entries)
    BY DEF LogProofs!IInv, LogProofs!SummariesOfThePast
  <2>3. ASSUME NEW r \in replied' PROVE \E i \in 1..total : entries'[i] = Outcome(r)'
    <3>1. r \in replied /\ result'[r] = result[r]
      BY <1>2, <2>3
    <3>2. PICK i \in 1..total : entries[i] = Outcome(r)
      BY <1>2, <3>1 DEF AnswersAreCounted
    <3>3. Outcome(r)' = Outcome(r)
      BY <3>1 DEF Outcome, Denied, Action, Record
    <3>4. i \in 1..Len(entries)
      BY <2>1, <2>2
    <3> QED
      BY <3>2, <3>3, <3>4
  <2> QED
    BY <1>2, <2>3 DEF AnswersAreCounted, Audit!NoSummary, Audit!Genesis
<1> QED
  BY <1>1, <1>2

(* A step of the main goroutine or of a worker that logs or not, except for  *)
(* those of the report.                                                     *)
LEMMA LogKeepsEntries ==
  ASSUME LogProofs!IInv, NEW w \in LogRecords, LogIfAny(w)
  PROVE  /\ UNCHANGED <<report, reporter, reports>>
         /\ \A i \in 1..Len(entries) : i \in 1..Len(entries') /\ entries'[i] = entries[i]
  BY LogSays

LEMMA AnswersAreCountedKept ==
  ASSUME IInv, [Next]_vars
  PROVE  AnswersAreCounted'
<1> USE DEF IInv
<1>1. CASE Connected \/ EndSession
  <2>1. SessionStart \in LogRecords /\ SessionEnd \in LogRecords
    BY DEF LogRecords
  <2>2. PICK w \in LogRecords : LogIfAny(w)
    BY <1>1, <2>1 DEF Connected, EndSession
  <2>3. UNCHANGED <<replied, result>>
    BY <1>1 DEF Connected, EndSession, workVars
  <2>4. /\ UNCHANGED <<report, reporter, reports>>
        /\ \A i \in 1..Len(entries) : i \in 1..Len(entries') /\ entries'[i] = entries[i]
    BY <2>2, LogKeepsEntries
  <2> QED
    BY <2>3, <2>4, StaysCounted
<1>2. CASE BeginReport
  <2>1. /\ main = "report" /\ reports = 0 /\ logging
    BY <1>2 DEF BeginReport, MainStages
  <2>2. /\ reports' = 1 /\ report' = Audit!NoSummary
        /\ reporter' = [reporter EXCEPT !["main"] =
                          [pc |-> "file", summary |-> Audit!SessionSummary]]
        /\ UNCHANGED <<entries, replied, result>>
    BY <1>2, <2>1 DEF BeginReport, Audit!BeginReport, AnswersAreCounted, workVars
  <2>3. reporter'["main"].summary.total = Len(entries)
    BY <2>2 DEF LogProofs!TypeOK, LogProofs!IInv, Audit!SessionSummary
  <2>4. ASSUME NEW r \in replied PROVE \E i \in 1..Len(entries) : entries[i] = Outcome(r)
    BY <2>1 DEF AgentTypeOK, WorkerStages, Stages, WorkIsLogged, Told, Logged
  <2>5. \A r : Outcome(r)' = Outcome(r)
    BY <2>2 DEF Outcome, Denied, Action, Record
  <2> QED
    BY <2>2, <2>3, <2>4, <2>5 DEF AnswersAreCounted, Audit!NoSummary, Audit!Genesis
<1>3. CASE WriteReport
  <2>1. /\ reporter["main"].pc # "idle"
        /\ UNCHANGED <<entries, reports, replied, result>>
    BY <1>3 DEF WriteReport, Audit!WriteReportFile, Audit!AppendMarker, Audit!AppendSummary,
                workVars
  <2>2. reports # 0
    BY <2>1 DEF MainStages
  <2>3. PICK pc \in {"idle", "marker", "summary"} : reporter' = [reporter EXCEPT !["main"].pc = pc]
    BY <1>3 DEF WriteReport, Audit!WriteReportFile, Audit!AppendMarker, Audit!AppendSummary
  <2>4. reporter'["main"].summary = reporter["main"].summary
    BY <2>3 DEF LogProofs!TypeOK, LogProofs!IInv
  <2>5. report' \in {report, Audit!NoSummary, reporter["main"].summary}
    BY <1>3 DEF WriteReport, Audit!WriteReportFile, Audit!AppendMarker, Audit!AppendSummary
  <2>6. \A r : Outcome(r)' = Outcome(r)
    BY <2>1 DEF Outcome, Denied, Action, Record
  <2> QED
    BY <2>1, <2>2, <2>4, <2>5, <2>6 DEF AnswersAreCounted, Audit!NoSummary, Audit!Genesis
<1>4. CASE CloseLog
  <2>1. UNCHANGED <<entries, report, reporter, reports, replied, result>>
    BY <1>4 DEF CloseLog, Audit!Close, workVars
  <2> QED
    BY <2>1, StaysCounted
<1>5. ASSUME NEW r \in Requests, LogDenied(r) \/ LogApproved(r) \/ LogAction(r)
      PROVE  AnswersAreCounted'
  <2>1. result[r] \in {"OK", "ERROR"} \/ ~LogAction(r)
    BY <1>5 DEF LogAction, At, WorkerStages, Stages
  <2>2. PICK w \in LogRecords : LogIfAny(w)
    BY <1>5, <2>1 DEF LogRecords, LogDenied, LogApproved, LogAction
  <2>3. r \notin replied /\ UNCHANGED replied
    BY <1>5 DEF LogDenied, LogApproved, LogAction, At, WorkerStages, Stages
  <2>4. \A s \in replied : result'[s] = result[s]
    BY <1>5, <2>3, OthersKept DEF WorkerStep, AgentTypeOK
  <2>5. /\ UNCHANGED <<report, reporter, reports>>
        /\ \A i \in 1..Len(entries) : i \in 1..Len(entries') /\ entries'[i] = entries[i]
    BY <2>2, LogKeepsEntries
  <2> QED
    BY <2>3, <2>4, <2>5, StaysCounted
<1>6. ASSUME NEW r \in Requests, Dispatch(r) PROVE AnswersAreCounted'
  <2>1. r \notin replied /\ UNCHANGED <<replied, entries, report, reporter, reports>>
    BY <1>6 DEF Dispatch, At, WorkerStages, Stages, logVars
  <2>2. \A s \in replied : result'[s] = result[s]
    BY <1>6, <2>1, OthersKept DEF WorkerStep, AgentTypeOK
  <2> QED
    BY <2>1, <2>2, StaysCounted
<1>7. ASSUME NEW r \in Requests, Respond(r) PROVE AnswersAreCounted'
  <2>1. /\ replied' = replied \/ linkUp
        /\ UNCHANGED <<result, entries, report, reporter, reports>>
    BY <1>7 DEF Respond, logVars
  <2>2. reports # 0 => ~linkUp
    BY DEF MainStages
  <2> QED
    BY <2>1, <2>2, StaysCounted
<1>8. CASE \/ \E r \in Requests : StartWorker(r) \/ TakeAnswer(r) \/ ReadRequest(r)
           \/ ConnectFails \/ ConnectInterrupted \/ RunReturns \/ Exit \/ UserStep \/ LinkLost
           \/ UNCHANGED vars
  <2>1. UNCHANGED <<entries, report, reporter, reports, replied, result>>
    BY <1>8 DEF StartWorker, TakeAnswer, ReadRequest, ConnectFails, ConnectInterrupted,
                RunReturns, Exit, UserStep, Interrupt, PressEnter, TypeAnswer, Type, LinkLost,
                vars, logVars, workVars
  <2> QED
    BY <2>1, StaysCounted
<1> QED
  BY <1>1, <1>2, <1>3, <1>4, <1>5, <1>6, <1>7, <1>8 DEF Next, MainStep, WorkerStep

-----------------------------------------------------------------------------
(* The lines and the permissions.                                            *)

(* What is read is one line at least, and it is not waiting any more.        *)
LEMMA LineTaken ==
  ASSUME AgentTypeOK, LinesOnce, TakeLine
  PROVE  /\ UNCHANGED typed /\ LinesOnce'
         /\ Head(stdin) \in Waiting /\ Waiting' \subseteq Waiting \ {Head(stdin)}
<1>1. /\ stdin' \in Seq(Lines) /\ UNCHANGED typed
      /\ Len(stdin) \in Nat /\ Len(stdin) > 0 /\ Head(stdin) = stdin[1]
      /\ stdin' = <<>> \/ /\ Len(stdin') = Len(stdin) - 1
                          /\ \A i \in 1..Len(stdin') : stdin'[i] = stdin[i + 1]
  BY TakeLineSays
<1>2. Head(stdin) \in Waiting
  BY <1>1 DEF Waiting
<1>3. CASE stdin' = <<>>
  <2>1. Len(stdin') = 0
    BY <1>3
  <2> QED
    BY <1>1, <1>2, <2>1 DEF LinesOnce, Waiting
<1>4. CASE /\ Len(stdin') = Len(stdin) - 1
           /\ \A i \in 1..Len(stdin') : stdin'[i] = stdin[i + 1]
  <2>1. \A i \in 1..Len(stdin') : /\ i + 1 \in 1..Len(stdin) /\ i + 1 # 1
                                  /\ stdin'[i] = stdin[i + 1]
    BY <1>1, <1>4
  <2>2. \A i \in 1..Len(stdin') : stdin'[i] \in Waiting \ {Head(stdin)}
    <3> TAKE i \in 1..Len(stdin')
    <3>1. stdin[i + 1] \in Waiting
      BY <2>1 DEF Waiting
    <3>2. stdin[i + 1] # stdin[1]
      BY <1>1, <2>1 DEF LinesOnce
    <3> QED
      BY <1>1, <2>1, <3>1, <3>2
  <2>3. Waiting' \subseteq Waiting \ {Head(stdin)}
    BY <2>2 DEF Waiting
  <2>4. ASSUME NEW i \in 1..Len(stdin'), NEW j \in 1..Len(stdin'), stdin'[i] = stdin'[j]
        PROVE  i = j
    <3>1. i + 1 = j + 1
      BY <2>1, <2>4 DEF LinesOnce
    <3> QED
      BY <1>1, <3>1
  <2>5. LinesOnce'
    BY <1>1, <2>3, <2>4 DEF LinesOnce
  <2> QED
    BY <1>1, <1>2, <2>3, <2>5
<1> QED
  BY <1>1, <1>3, <1>4

(* A line that was never typed before waits once.                            *)
LEMMA LineTyped ==
  ASSUME AgentTypeOK, LinesOnce, NEW line \in Lines, line \notin typed, Type(line)
  PROVE  LinesOnce' /\ Waiting' = Waiting \cup {line}
<1>1. /\ stdin \in Seq(Lines) /\ stdin' = Append(stdin, line) /\ typed' = typed \cup {line}
  BY DEF AgentTypeOK, Type
<1>2. /\ Len(stdin) \in Nat /\ Len(stdin') = Len(stdin) + 1
      /\ \A i \in 1..Len(stdin) : stdin'[i] = stdin[i]
      /\ stdin'[Len(stdin) + 1] = line
  BY <1>1, LogProofs!AppendSays
<1>3. \A i \in 1..Len(stdin') : i \in 1..Len(stdin) \/ i = Len(stdin) + 1
  BY <1>2
<1>4. Waiting' = Waiting \cup {line}
  <2>1. Waiting' \subseteq Waiting \cup {line}
    BY <1>2, <1>3 DEF Waiting
  <2>2. \A i \in 1..Len(stdin) : stdin[i] = stdin'[i] /\ i \in 1..Len(stdin')
    BY <1>2
  <2>3. Waiting \subseteq Waiting'
    BY <2>2 DEF Waiting
  <2>4. line \in Waiting'
    BY <1>2 DEF Waiting
  <2> QED
    BY <2>1, <2>3, <2>4
<1>5. \A i \in 1..Len(stdin) : stdin[i] # line
  BY DEF LinesOnce, Waiting
<1>6. ASSUME NEW i \in 1..Len(stdin'), NEW j \in 1..Len(stdin'), stdin'[i] = stdin'[j]
      PROVE  i = j
  BY <1>2, <1>3, <1>5, <1>6 DEF LinesOnce
<1> QED
  BY <1>1, <1>4, <1>6 DEF LinesOnce

(* The answers: each question is answered once, and Enter is pressed once.   *)
LEMMA EveryLineIsNew ==
  ASSUME UserStep
  PROVE  Interrupt \/ \E line \in Lines : line \notin typed /\ Type(line)
<1>1. CASE PressEnter
  BY <1>1 DEF PressEnter, Lines
<1>2. ASSUME NEW r \in Requests, NEW yes \in BOOLEAN, TypeAnswer(r, yes)
      PROVE  \E line \in Lines : line \notin typed /\ Type(line)
  <2>1. Answer(r, yes) \in Lines /\ Answer(r, yes).about = r
    BY DEF Answer, Lines
  <2> QED
    BY <1>2, <2>1 DEF TypeAnswer
<1> QED
  BY <1>1, <1>2 DEF UserStep

(* The console is used by the user's steps, by a worker that asks, and at    *)
(* the end.                                                                 *)
LEMMA ConsoleUsers ==
  ASSUME [Next]_vars
  PROVE  \/ UNCHANGED userVars /\ ~\E r \in Requests : TakeAnswer(r)
         \/ \E r \in Requests : TakeAnswer(r)
         \/ (Exit \/ \E line \in Lines : line \notin typed /\ Type(line)) /\ UNCHANGED workVars
<1>1. CASE UserStep
  BY <1>1, EveryLineIsNew DEF Interrupt, Type
<1>2. CASE Exit
  BY <1>2 DEF Exit
<1>3. CASE \/ Connected \/ ConnectFails \/ ConnectInterrupted \/ RunReturns \/ EndSession
           \/ BeginReport \/ WriteReport \/ CloseLog \/ LinkLost \/ UNCHANGED vars
  BY <1>3 DEF Connected, ConnectFails, ConnectInterrupted, RunReturns, EndSession, BeginReport,
              WriteReport, CloseLog, LinkLost, vars
<1>4. ASSUME NEW r \in Requests, WorkerStep(r) \/ ReadRequest(r), ~TakeAnswer(r)
      PROVE  UNCHANGED userVars
  BY <1>4 DEF WorkerStep, StartWorker, LogDenied, LogApproved, Dispatch, LogAction, Respond,
              ReadRequest
<1> QED
  BY <1>1, <1>2, <1>3, <1>4 DEF Next, MainStep

LEMMA LinesOnceKept ==
  ASSUME AgentTypeOK, LinesOnce, [Next]_vars
  PROVE  LinesOnce'
<1>1. CASE UNCHANGED userVars
  BY <1>1 DEF userVars, LinesOnce, Waiting
<1>2. CASE TakeLine
  BY <1>2, LineTaken
<1>3. CASE \E line \in Lines : line \notin typed /\ Type(line)
  BY <1>3, LineTyped
<1> QED
  BY <1>1, <1>2, <1>3, ConsoleUsers DEF TakeAnswer, Exit

(* Only an answer permits.                                                   *)
LEMMA PermittedKept ==
  ASSUME AgentTypeOK, WorkerStages, NEW r \in Requests,
         WorkerStep(r) \/ ReadRequest(r), ~TakeAnswer(r)
  PROVE  Permitted' = Permitted
<1>1. \A s \in Requests \ {r} : worker'[s] = worker[s] /\ (s \in executed' <=> s \in executed)
  BY OthersKept
<1>2. r \in Permitted' <=> r \in Permitted
  <2>1. Stages(r)
    BY DEF WorkerStages
  <2>2. CASE ReadRequest(r)
    BY <2>1, <2>2 DEF ReadRequest, AgentTypeOK, Permitted, Stages
  <2>3. CASE StartWorker(r)
    BY <2>1, <2>3, GotoSays DEF StartWorker, At, NeedsConfirmation, Permitted, Stages
  <2>4. CASE LogDenied(r) \/ LogApproved(r) \/ LogAction(r) \/ Respond(r)
    BY <2>1, <2>4, GotoSays DEF LogDenied, LogApproved, LogAction, Respond, At, Permitted, Stages
  <2>5. CASE Dispatch(r)
    BY <2>1, <2>5, GotoSays DEF Dispatch, At, Permitted, Stages
  <2> QED
    BY <2>2, <2>3, <2>4, <2>5 DEF WorkerStep
<1> QED
  BY <1>1, <1>2, AgentAssumption DEF Permitted

LEMMA AtMostOneMore ==
  ASSUME NEW S, IsFiniteSet(S), NEW x
  PROVE  /\ IsFiniteSet(S \cup {x}) /\ Cardinality(S \cup {x}) \in Nat
         /\ Cardinality(S \cup {x}) <= Cardinality(S) + 1
         /\ x \notin S => Cardinality(S \cup {x}) = Cardinality(S) + 1
<1>1. Cardinality(S) \in Nat
  BY FS_CardinalityType
<1>2. CASE x \in S
  <2>1. S \cup {x} = S
    BY <1>2
  <2> QED
    BY <1>1, <1>2, <2>1
<1>3. CASE x \notin S
  BY <1>1, <1>3, FS_AddElement
<1> QED
  BY <1>2, <1>3

LEMMA YesWaitingFinite ==
  ASSUME LinesOnce, PermissionsPaid
  PROVE  /\ IsFiniteSet(YesTyped) /\ IsFiniteSet(YesWaiting)
         /\ Cardinality(YesTyped) \in Nat /\ Cardinality(YesWaiting) \in Nat
         /\ Cardinality(Permitted) \in Nat
<1>1. YesTyped \subseteq typed /\ YesWaiting \subseteq typed
  BY DEF YesTyped, YesWaiting, LinesOnce
<1>2. IsFiniteSet(YesTyped) /\ IsFiniteSet(YesWaiting)
  BY <1>1, FS_Subset DEF PermissionsPaid
<1> QED
  BY <1>2, FS_CardinalityType DEF PermissionsPaid

LEMMA PermissionsPaidKept ==
  ASSUME AgentTypeOK, WorkerStages, LinesOnce, PermissionsPaid, [Next]_vars
  PROVE  PermissionsPaid'
<1>1. /\ IsFiniteSet(YesTyped) /\ IsFiniteSet(YesWaiting)
      /\ Cardinality(YesTyped) \in Nat /\ Cardinality(YesWaiting) \in Nat
      /\ Cardinality(Permitted) \in Nat
  BY YesWaitingFinite
<1>2. UNCHANGED workVars => Permitted' = Permitted
  BY DEF workVars, Permitted
<1>3. CASE UNCHANGED userVars /\ ~\E r \in Requests : TakeAnswer(r)
  <2>1. Permitted' = Permitted
    BY <1>2, <1>3, WorkersOnlyWork, PermittedKept
  <2>2. UNCHANGED <<typed, YesTyped, YesWaiting>>
    BY <1>3 DEF userVars, YesTyped, YesWaiting, Waiting
  <2> QED
    BY <2>1, <2>2 DEF PermissionsPaid
<1>4. ASSUME TakeLine, Permitted' = Permitted PROVE PermissionsPaid'
  <2>1. UNCHANGED <<typed, YesTyped>> /\ YesWaiting' \subseteq YesWaiting
    BY <1>4, LineTaken DEF YesTyped, YesWaiting
  <2>2. Cardinality(YesWaiting') <= Cardinality(YesWaiting) /\ Cardinality(YesWaiting') \in Nat
    BY <1>1, <2>1, FS_Subset, FS_CardinalityType
  <2> QED
    BY <1>1, <1>4, <2>1, <2>2 DEF PermissionsPaid
<1>5. ASSUME NEW r \in Requests, TakeAnswer(r) PROVE PermissionsPaid'
  <2>1. /\ UNCHANGED typed /\ Head(stdin) \in Waiting
        /\ Waiting' \subseteq Waiting \ {Head(stdin)}
    BY <1>5, LineTaken DEF TakeAnswer
  <2>2. /\ worker[r].pc = "asking" /\ UNCHANGED executed
        /\ worker'[r].pc = IF Head(stdin).yes THEN "approved" ELSE "denied"
        /\ \A s \in Requests \ {r} : worker'[s] = worker[s]
    BY <1>5, GotoSays DEF TakeAnswer, At
  <2>3. CASE Head(stdin).yes
    <3>1. YesWaiting' \subseteq YesWaiting \ {Head(stdin)} /\ Head(stdin) \in YesWaiting
      BY <2>1, <2>3 DEF YesWaiting
    <3>2. /\ IsFiniteSet(YesWaiting \ {Head(stdin)})
          /\ Cardinality(YesWaiting \ {Head(stdin)}) = Cardinality(YesWaiting) - 1
      BY <1>1, <3>1, FS_RemoveElement
    <3>3. /\ Cardinality(YesWaiting') <= Cardinality(YesWaiting) - 1
          /\ Cardinality(YesWaiting') \in Nat
      BY <3>1, <3>2, FS_Subset, FS_CardinalityType
    <3>4. Permitted' \subseteq Permitted \cup {r}
      BY <2>2, AgentAssumption DEF Permitted
    <3>5. /\ IsFiniteSet(Permitted \cup {r})
          /\ Cardinality(Permitted \cup {r}) <= Cardinality(Permitted) + 1
      BY AtMostOneMore DEF PermissionsPaid
    <3>6. /\ IsFiniteSet(Permitted') /\ Cardinality(Permitted') \in Nat
          /\ Cardinality(Permitted') <= Cardinality(Permitted \cup {r})
          /\ Cardinality(Permitted \cup {r}) \in Nat
      BY <3>4, <3>5, FS_Subset, FS_CardinalityType
    <3>7. UNCHANGED <<typed, YesTyped>>
      BY <2>1 DEF YesTyped
    <3> QED
      BY <1>1, <3>3, <3>5, <3>6, <3>7 DEF PermissionsPaid
  <2>4. CASE ~Head(stdin).yes
    <3>1. Permitted' = Permitted
      BY <2>2, <2>4 DEF Permitted
    <3> QED
      BY <1>4, <1>5, <3>1 DEF TakeAnswer
  <2> QED
    BY <2>3, <2>4
<1>6. ASSUME NEW line \in Lines, line \notin typed, Type(line), Permitted' = Permitted
      PROVE  PermissionsPaid'
  <2>1. typed' = typed \cup {line} /\ Waiting' = Waiting \cup {line}
    BY <1>6, LineTyped DEF Type
  <2>2. IsFiniteSet(typed')
    BY <2>1, FS_AddElement DEF PermissionsPaid
  <2>3. CASE line.yes
    <3>1. /\ YesTyped' = YesTyped \cup {line} /\ YesWaiting' = YesWaiting \cup {line}
          /\ line \notin YesTyped
      BY <1>6, <2>1, <2>3 DEF YesTyped, YesWaiting
    <3>2. Cardinality(YesTyped') = Cardinality(YesTyped) + 1
      BY <1>1, <3>1, AtMostOneMore
    <3>3. /\ Cardinality(YesWaiting') <= Cardinality(YesWaiting) + 1
          /\ Cardinality(YesWaiting') \in Nat
      BY <1>1, <3>1, AtMostOneMore
    <3> QED
      BY <1>1, <1>6, <2>2, <3>2, <3>3 DEF PermissionsPaid
  <2>4. CASE ~line.yes
    <3>1. YesTyped' = YesTyped /\ YesWaiting' = YesWaiting
      BY <2>1, <2>4 DEF YesTyped, YesWaiting
    <3> QED
      BY <1>6, <2>2, <3>1 DEF PermissionsPaid
  <2> QED
    BY <2>3, <2>4
<1> QED
  BY <1>2, <1>3, <1>4, <1>5, <1>6, ConsoleUsers DEF Exit

-----------------------------------------------------------------------------
LEMMA InitIInv == Init => IInv
<1> SUFFICES ASSUME Init PROVE IInv
  OBVIOUS
<1>1. LogProofs!IInv
  BY LogInvInit
<1>2. AgentTypeOK
  <2>1. worker \in [Requests -> [pc : WorkerPC, conn : 0..MaxConns]]
    BY DEF Init, WorkerPC
  <2>2. stdin \in Seq(Lines)
    BY EmptySeq DEF Init
  <2>3. result \in [Requests -> {"none", "OK", "ERROR", "DENIED"}]
    BY DEF Init
  <2>4. conns \in 0..MaxConns /\ retries \in 0..(MaxRetries + 1)
    BY DEF Init
  <2> QED
    BY <2>1, <2>2, <2>3, <2>4 DEF Init, AgentTypeOK, MainPC
<1>3. reports = 0 /\ report = Audit!NoSummary /\ reporter["main"].pc = "idle" /\ entries = <<>>
  BY DEF Init, Audit!Init
<1>4. MainStages
  BY <1>3 DEF Init, MainStages
<1>5. WorkerStages
  BY DEF Init, WorkerStages, Stages
<1>6. \A v : ~Logged(v)
  <2>1. Len(entries) = 0
    BY <1>3
  <2> QED
    BY <2>1 DEF Logged
<1>7. WorkIsLogged
  BY <1>6 DEF Init, WorkIsLogged, Told
<1>8. AnswersAreCounted
  BY <1>3 DEF AnswersAreCounted
<1>9. Waiting = {}
  <2>1. Len(stdin) = 0
    BY DEF Init
  <2> QED
    BY <2>1 DEF Waiting
<1>10. LinesOnce
  <2>1. Len(stdin) = 0
    BY DEF Init
  <2> QED
    BY <1>9, <2>1 DEF LinesOnce
<1>11. PermissionsPaid
  <2>1. Permitted = {} /\ YesWaiting = {} /\ YesTyped = {} /\ typed = {}
    BY <1>9 DEF Init, Permitted, YesWaiting, YesTyped
  <2> QED
    BY <2>1, FS_EmptySet DEF PermissionsPaid
<1> QED
  BY <1>1, <1>2, <1>4, <1>5, <1>7, <1>8, <1>10, <1>11 DEF IInv

LEMMA NextIInv == IInv /\ [Next]_vars => IInv'
<1> SUFFICES ASSUME IInv, [Next]_vars PROVE IInv'
  OBVIOUS
<1>1. /\ LogProofs!IInv /\ AgentTypeOK /\ MainStages /\ WorkerStages /\ WorkIsLogged
      /\ LinesOnce /\ PermissionsPaid
  BY DEF IInv
<1>2. LogProofs!IInv'
  BY <1>1, LogInvStep
<1>3. AgentTypeOK' /\ MainStages' /\ WorkerStages'
  BY <1>1, TypesKept, MainStagesKept, WorkerStagesKept
<1>4. WorkIsLogged'
  BY <1>1, WorkIsLoggedKept
<1>5. AnswersAreCounted'
  BY AnswersAreCountedKept
<1>6. LinesOnce' /\ PermissionsPaid'
  BY <1>1, LinesOnceKept, PermissionsPaidKept
<1> QED
  BY <1>2, <1>3, <1>4, <1>5, <1>6 DEF IInv

(* The inductive invariant of the agent.                                     *)
THEOREM IInvHolds == Spec => []IInv
  BY InitIInv, NextIInv, PTL DEF Spec

(* The agent and its log keep their types (main.go:24-116, handler.go:35-99, *)
(* client.go:139-209).                                                      *)
THEOREM TypeCorrect == Spec => []TypeOK
<1>1. IInv => TypeOK
  BY SameStart DEF IInv, TypeOK, AgentTypeOK, LogProofs!IInv
<1> QED
  BY <1>1, IInvHolds, PTL

(* However many workers ask at once, and whoever of them gets which line:    *)
(* every operation that needed a confirmation cost a yes of the user        *)
(* (handler.go:58-73, main.go:168-185).                                     *)
THEOREM PermissionsHold == Spec => []NeverMoreThanApproved
<1>1. IInv => NeverMoreThanApproved
  <2> SUFFICES ASSUME IInv PROVE NeverMoreThanApproved
    OBVIOUS
  <2>1. executed \cap Dangerous \subseteq Permitted
    BY DEF Permitted
  <2>2. /\ Cardinality(executed \cap Dangerous) <= Cardinality(Permitted)
        /\ Cardinality(executed \cap Dangerous) \in Nat
    BY <2>1, FS_Subset, FS_CardinalityType DEF IInv, PermissionsPaid
  <2>3. /\ Cardinality(YesTyped) \in Nat /\ Cardinality(YesWaiting) \in Nat
        /\ Cardinality(Permitted) \in Nat
    BY YesWaitingFinite DEF IInv
  <2>4. Cardinality(executed \cap Dangerous) <= Cardinality(YesTyped)
    BY <2>2, <2>3 DEF IInv, PermissionsPaid
  <2> QED
    BY <2>4 DEF NeverMoreThanApproved, YesTyped
<1> QED
  BY <1>1, IInvHolds, PTL

(* Whatever the other workers and the report do meanwhile: an operation that *)
(* needed a confirmation is preceded by its APPROVED, a request that was     *)
(* dealt with is there with its result, and a denied one was not executed   *)
(* (handler.go:62-83).                                                      *)
THEOREM EffectsLogged == Spec => []EffectsAreLogged
<1>1. IInv => EffectsAreLogged
  <2> SUFFICES ASSUME IInv, logging, NEW r \in Requests
               PROVE  /\ r \in executed \cap Dangerous => Logged(Approved(r))
                      /\ worker[r].pc = "done" =>
                           IF r \in executed
                           THEN Logged(Action(r, result[r])) /\ ~Logged(Denied(r))
                           ELSE Logged(Denied(r))
    BY DEF EffectsAreLogged
  <2>1. Told(r) /\ Stages(r)
    BY DEF IInv, WorkIsLogged, WorkerStages
  <2>2. r \in executed => Outcome(r) = Action(r, result[r])
    BY <2>1 DEF Stages, Outcome
  <2>3. worker[r].pc = "done" /\ r \notin executed => Outcome(r) = Denied(r)
    BY <2>1 DEF Stages, Outcome
  <2> QED
    BY <2>1, <2>2, <2>3 DEF Told
<1> QED
  BY <1>1, IInvHolds, PTL

(* The report of a session counts every request that the operator had an    *)
(* answer to, although it does not wait for the workers (handler.go:76-85    *)
(* before client.go:208, main.go:83-92).                                    *)
THEOREM AnswersReported == Spec => []AnswersAreReported
<1>1. IInv => AnswersAreReported
  <2> SUFFICES ASSUME IInv, report # Audit!NoSummary, NEW r \in replied
               PROVE  IF result[r] = "DENIED" THEN Counted(Denied(r))
                                              ELSE Counted(Action(r, result[r]))
    BY DEF AnswersAreReported
  <2>1. report = reporter["main"].summary
    BY DEF IInv, AnswersAreCounted
  <2>2. \E i \in 1..reporter["main"].summary.total : entries[i] = Outcome(r)
    BY DEF IInv, AnswersAreCounted
  <2> QED
    BY <2>1, <2>2 DEF Counted, Outcome
<1> QED
  BY <1>1, IInvHolds, PTL

(* The agent uses the log as AuditLog says, so what is proved of the log      *)
(* holds in the agent (handler.go:62-83, main.go:46-104).                    *)
UsesAuditLog == Audit!Spec

LEMMA LogNextIsAuditNext == LogProofs!Next => Audit!Next
<1>1. LogProofs!Next =>
        \/ \E w \in LogRecords : Audit!Log(w)
        \/ \E p \in {"main"} : \/ Audit!BeginReport(p) \/ Audit!WriteReportFile(p)
                               \/ Audit!AppendMarker(p) \/ Audit!AppendSummary(p)
        \/ Audit!Close
  BY SameLog DEF LogProofs!Next
<1> QED
  BY <1>1 DEF Audit!Next

(* Every behaviour of the agent is one of the audit log.                      *)
THEOREM AuditLogIsUsed == Spec => UsesAuditLog
<1>1. Init => Audit!Init
  BY DEF Init
<1>2. IInv /\ [Next]_vars => [Audit!Next]_Audit!logVars
  BY StepIsLogStep, LogNextIsAuditNext DEF IInv, Audit!logVars, logVars
<1> QED
  BY <1>1, <1>2, IInvHolds, PTL DEF Spec, UsesAuditLog, Audit!Spec

(* In the agent's log file, too, the chain is broken exactly where an entry  *)
(* could not be written, whichever workers wrote it (audit.go:103-158,       *)
(* handler.go:62-83).                                                       *)
THEOREM AgentLogChainHolds == Spec => []Audit!GapsAreFailedWrites
<1>1. Init => LogProofs!Init
  BY SameStart DEF Init
<1>2. IInv /\ [Next]_vars => [LogProofs!Next]_LogProofs!logVars
  BY StepIsLogStep DEF IInv, LogProofs!logVars, logVars
<1>3. LogProofs!AuditLogAssumption
  BY LogAssumption
<1>4. LogProofs!Spec => []LogProofs!GapsAreFailedWrites
  BY <1>3, LogProofs!ChainHolds
<1>5. LogProofs!GapsAreFailedWrites => Audit!GapsAreFailedWrites
  BY DEF LogProofs!GapsAreFailedWrites, Audit!GapsAreFailedWrites, LogProofs!Neighbours,
         Audit!Neighbours, LogProofs!LostBetween, Audit!LostBetween, LogProofs!IsEntry,
         Audit!IsEntry
<1> QED
  BY <1>1, <1>2, <1>4, <1>5, IInvHolds, PTL DEF Spec, LogProofs!Spec
=============================================================================
