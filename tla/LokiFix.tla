------------------------------ MODULE LokiFix ------------------------------
(***************************************************************************)
(* The operator's process as a whole (cmd/lokifix-mcp/main.go): start-up   *)
(* with the tunnel of Tunnel, the connection code and the file that        *)
(* publishes it, the callbacks that the server's handlers run when agents  *)
(* come and go, the loop that serves the MCP client (Run and               *)
(* handleToolsCall in internal/mcp/server.go), and the end.                *)
(*                                                                         *)
(* Transport has the connections in detail.  Here one is only accepted,    *)
(* installed, read from, lost and torn down, whenever the network wants;   *)
(* what is detailed are the steps of the callbacks, which the goroutines   *)
(* of overlapping connections interleave.  Codes do not expire here, the   *)
(* log is that of AuditLog, and a code is the number of its GenerateCode.  *)
(***************************************************************************)
EXTENDS Tunnel

CONSTANTS
  Conns,     \* bound: connections ever accepted are 1..Conns
  MaxCalls   \* bound: calls of tools by the client

ASSUME LokiFixAssumption == Conns \in Nat /\ MaxCalls \in Nat

VARIABLES
  main,        \* the main goroutine: where it is
  standalone,  \* the flag --standalone
  eof,         \* the client has closed standard input
  calls,       \* tools/call requests read
  assigned,    \* how many of its assignments to the server's callbacks main has made
  codes,       \* connection codes generated so far
  codeFile,    \* the code in lokifix-connection.txt, NoCode if there is no file
  seen,        \* history: the codes that ever stood in the file
  used,        \* the codes an agent was accepted with
  conn,        \* Server.conn: the connection installed last, NoConn for nil
  handler,     \* per connection: its goroutine, the code it generated at its end, and
               \* whether the callback it runs then notifies the client
  told         \* the last notification the client got

serverVars == <<conn, handler, used>>
fileVars == <<codes, codeFile, seen>>
mainVars == <<main, standalone, eof, calls, assigned>>
vars == <<installVars, processVars, interrupted, mainVars, fileVars, serverVars, told>>

NoCode == 0
NoConn == 0

Links == 1..Conns

Init ==
  /\ TunnelInit
  /\ \E tunnel \in BOOLEAN : main = IF tunnel THEN "install" ELSE "code"
  /\ standalone \in BOOLEAN
  /\ eof = FALSE
  /\ calls = 0
  /\ assigned = 0
  /\ codes = 0 /\ codeFile = NoCode /\ seen = {} /\ used = {}
  /\ conn = NoConn
  /\ handler = [k \in Links |-> [pc |-> "none", code |-> NoCode, notifies |-> FALSE]]
  /\ told = "nothing"

Alive == main \notin {"exited", "aborted"}

Publish(c) == codeFile' = c /\ seen' = seen \cup {c}

-----------------------------------------------------------------------------
(* The main goroutine: start-up.                                             *)

MainGoes(from, to) == main = from /\ main' = to

(* startTunnel: without a binary, or if Start fails, the program goes on      *)
(* with its local address.                                                  *)
StartTunnel ==
  /\ \/ MainGoes("install", "code") /\ At(Self, "failed") /\ UNCHANGED processVars
     \/ MainGoes("install", "tunnel") /\ At(Self, "ok") /\ StartProcess
  /\ UNCHANGED <<installVars, interrupted, standalone, eof, calls, assigned, fileVars,
                 serverVars, told>>

TunnelSelect ==
  /\ MainGoes("tunnel", "code")
  /\ \/ TakeUrl \/ TakeError \/ TimeIsUp
     \/ tun = "failed" /\ UNCHANGED processVars
  /\ UNCHANGED <<installVars, interrupted, standalone, eof, calls, assigned, fileVars,
                 serverVars, told>>

(* os.Exit skips the deferred calls.                                         *)
GenerateCode ==
  /\ \/ MainGoes("code", "publish") /\ codes' = codes + 1
     \/ MainGoes("code", "aborted") /\ UNCHANGED codes
  /\ UNCHANGED <<installVars, processVars, interrupted, standalone, eof, calls, assigned,
                 codeFile, seen, serverVars, told>>

WriteConnectionFile ==
  /\ MainGoes("publish", "assign")
  /\ Publish(codes)
  /\ UNCHANGED <<installVars, processVars, interrupted, standalone, eof, calls, assigned,
                 codes, serverVars, told>>

(* The code is public before the callbacks are there to answer its use.  The *)
(* two callbacks are assigned, and then once more, wrapped so that they      *)
(* notify the client.                                                       *)
AssignCallback ==
  /\ assigned' = assigned + 1
  /\ MainGoes("assign", IF assigned' < 4 THEN "assign" ELSE IF standalone THEN "sleep" ELSE "run")
  /\ UNCHANGED <<installVars, processVars, interrupted, standalone, eof, calls, fileVars,
                 serverVars, told>>

-----------------------------------------------------------------------------
(* The loop that serves the client: from here on notifications are written.  *)

MainOnly ==
  UNCHANGED <<installVars, processVars, interrupted, standalone, eof, assigned, fileVars, told>>

BeginRun == MainGoes("run", "read") /\ MainOnly /\ UNCHANGED <<calls, serverVars>>

(* A tool that needs the agent: IsConnected, then, in a step of its own,      *)
(* SendRequest.  All other messages are answered at once.                   *)
ReadCall ==
  /\ calls < MaxCalls /\ calls' = calls + 1
  /\ MainGoes("read", IF conn = NoConn THEN "read" ELSE "send")
  /\ MainOnly /\ UNCHANGED serverVars

(* A write under a cancelled context closes the connection.                  *)
SendCall ==
  /\ \/ MainGoes("send", "read") /\ UNCHANGED serverVars    \* no agent, or it fails
     \/ /\ MainGoes("send", "read") /\ interrupted /\ conn # NoConn
        /\ handler' = [handler EXCEPT ![conn].pc = IF @ = "loop" THEN "lost" ELSE @]
        /\ UNCHANGED <<conn, used>>
     \/ MainGoes("send", "wait") /\ ~interrupted /\ conn # NoConn /\ UNCHANGED serverVars
  /\ MainOnly /\ UNCHANGED calls

CallAnswered ==
  /\ MainGoes("wait", "read")
  /\ \E k \in Links : handler[k].pc = "loop"
  /\ MainOnly /\ UNCHANGED <<calls, serverVars>>

CallCancelled ==
  /\ MainGoes("wait", "read") /\ interrupted
  /\ MainOnly /\ UNCHANGED <<calls, serverVars>>

(* Run looks at nothing but its input; standalone, main at nothing but the   *)
(* context.                                                                 *)
RunEnds ==
  /\ \/ MainGoes("read", "cleanup") /\ eof
     \/ MainGoes("sleep", "cleanup") /\ interrupted
  /\ MainOnly /\ UNCHANGED <<calls, serverVars>>

(* cleanup, the deferred Stop of the tunnel, and the end of all goroutines.  *)
Exit ==
  /\ MainGoes("cleanup", "exited")
  /\ Stop
  /\ UNCHANGED <<installVars, interrupted, standalone, eof, calls, assigned, fileVars,
                 serverVars, told>>

MainStep ==
  \/ StartTunnel \/ TunnelSelect \/ GenerateCode \/ WriteConnectionFile \/ AssignCallback
  \/ BeginRun \/ ReadCall \/ SendCall \/ CallAnswered \/ CallCancelled \/ RunEnds \/ Exit

-----------------------------------------------------------------------------
(* The handlers of the server, one per connection.                           *)

HandlerAt(k, pc) == Alive /\ handler[k].pc = pc

HandlerGoes(k, from, to) ==
  HandlerAt(k, from) /\ handler' = [handler EXCEPT ![k].pc = to]

HandlerOnly == UNCHANGED <<installVars, processVars, interrupted, mainVars>>

(* Bound: agents come only if there is no tunnel.  It and the handlers share  *)
(* no state, so their interleavings are left out.                           *)
NoTunnel == tun = "off" /\ At(Self, "none")

(* An agent comes with a code that somebody has read in the file, or, after  *)
(* a loss, with its session token.                                          *)
Accept(k) ==
  /\ NoTunnel
  /\ \A j \in 1..(k - 1) : handler[j].pc # "none"
  /\ \/ \E c \in seen \ used : used' = used \cup {c}
     \/ (\E j \in 1..(k - 1) : handler[j].pc # "none") /\ UNCHANGED used
  /\ HandlerGoes(k, "none", "installed")
  /\ conn' = k
  /\ HandlerOnly /\ UNCHANGED <<fileVars, told>>

Notify(what) == told' = IF main \in {"read", "send", "wait", "cleanup"} THEN what ELSE told

(* OnAgentConnected: remove the file, then notify.                          *)
AgentConnected(k) ==
  /\ IF assigned >= 1
     THEN HandlerGoes(k, "installed", IF assigned >= 3 THEN "removed" ELSE "loop") /\ codeFile' = NoCode
     ELSE HandlerGoes(k, "installed", "loop") /\ UNCHANGED codeFile
  /\ HandlerOnly /\ UNCHANGED <<conn, used, codes, seen, told>>

NotifyConnected(k) ==
  /\ HandlerGoes(k, "removed", "loop")
  /\ Notify("connected")
  /\ HandlerOnly /\ UNCHANGED <<conn, used, fileVars>>

ReadFails(k) ==
  /\ HandlerGoes(k, "loop", "lost")
  /\ HandlerOnly /\ UNCHANGED <<conn, used, fileVars, told>>

(* The teardown of another connection takes the cipher away while a message  *)
(* is decrypted: net/http recovers, and nothing more of the handler runs.   *)
ReadPanics(k) ==
  /\ conn = NoConn
  /\ HandlerGoes(k, "loop", "panicked")
  /\ HandlerOnly /\ UNCHANGED <<conn, used, fileVars, told>>

Teardown(k) ==
  /\ HandlerGoes(k, "lost", "torn")
  /\ conn' = NoConn
  /\ HandlerOnly /\ UNCHANGED <<used, fileVars, told>>

(* A variant for a mutant: the code is not renewed.                          *)
KeepTheCode(k) ==
  /\ HandlerAt(k, "torn")
  /\ UNCHANGED codes
  /\ handler' = [handler EXCEPT ![k] = [pc |-> "generated", code |-> codes, notifies |-> assigned >= 4]]
  /\ HandlerOnly /\ UNCHANGED <<conn, used, codeFile, seen, told>>

(* OnAgentDisconnected: log and report, generate a code, write the file,     *)
(* notify.  That no code can be drawn is left out here.                     *)
AgentDisconnected(k) ==
  /\ HandlerAt(k, "torn")
  /\ IF assigned >= 2
     THEN /\ codes' = codes + 1
          /\ handler' = [handler EXCEPT ![k] =
                           [pc |-> "generated", code |-> codes', notifies |-> assigned >= 4]]
     ELSE HandlerGoes(k, "torn", "skipped") /\ UNCHANGED codes
  /\ HandlerOnly /\ UNCHANGED <<conn, used, codeFile, seen, told>>

RewriteConnectionFile(k) ==
  /\ HandlerGoes(k, "generated", IF handler[k].notifies THEN "written" ELSE "done")
  /\ Publish(handler[k].code)
  /\ HandlerOnly /\ UNCHANGED <<conn, used, codes, told>>

NotifyDisconnected(k) ==
  /\ HandlerGoes(k, "written", "done")
  /\ Notify("disconnected")
  /\ HandlerOnly /\ UNCHANGED <<conn, used, fileVars>>

HandlerStep(k) ==
  \/ Accept(k) \/ AgentConnected(k) \/ NotifyConnected(k)
  \/ ReadFails(k) \/ ReadPanics(k) \/ Teardown(k)
  \/ AgentDisconnected(k) \/ RewriteConnectionFile(k) \/ NotifyDisconnected(k)

-----------------------------------------------------------------------------
(* The other operators' installations matter as long as this one installs.   *)
InstallTunnel ==
  main = "install" /\ Install /\ UNCHANGED <<mainVars, fileVars, serverVars, told>>

TunnelProcess ==
  /\ PrintUrl \/ ChildExits \/ (Alive /\ (ScanUrl \/ ReportCrash))
  /\ UNCHANGED <<installVars, interrupted, mainVars, fileVars, serverVars, told>>

KillTunnel ==
  /\ Alive /\ KillCancelled
  /\ UNCHANGED <<installVars, interrupted, mainVars, fileVars, serverVars, told>>

Interrupt ==
  /\ Alive /\ ~interrupted /\ interrupted' = TRUE
  /\ UNCHANGED <<installVars, processVars, mainVars, fileVars, serverVars, told>>

CloseStdin ==
  /\ Alive /\ ~eof /\ eof' = TRUE
  /\ UNCHANGED <<installVars, processVars, interrupted, main, standalone, calls, assigned,
                 fileVars, serverVars, told>>

Next ==
  \/ MainStep
  \/ \E k \in Links : HandlerStep(k)
  \/ InstallTunnel \/ TunnelProcess \/ KillTunnel
  \/ Interrupt \/ CloseStdin

Spec == Init /\ [][Next]_vars

(* The scheduler runs the main goroutine, and the one of os/exec that kills  *)
(* the child when its context is done.  Nothing is assumed of the network,   *)
(* the agents, the child process or a download.                             *)
FairSpec == Spec /\ WF_vars(MainStep) /\ WF_vars(KillTunnel)

-----------------------------------------------------------------------------
HandlerPC == {"none", "installed", "removed", "loop", "lost", "panicked", "torn", "skipped",
              "generated", "written", "done"}

Codes == 1..(Conns + 1)

(* The type of every variable, and the bounds.                              *)
TypeOK ==
  /\ TunnelTypeOK
  /\ main \in {"install", "tunnel", "code", "publish", "assign", "sleep", "run", "read",
               "send", "wait", "cleanup", "exited", "aborted"}
  /\ standalone \in BOOLEAN /\ eof \in BOOLEAN
  /\ calls \in 0..MaxCalls
  /\ assigned \in 0..4
  /\ codes \in {NoCode} \cup Codes /\ codeFile \in {NoCode} \cup Codes
  /\ used \subseteq seen /\ seen \subseteq Codes
  /\ conn \in {NoConn} \cup Links
  /\ handler \in [Links -> [pc : HandlerPC, code : {NoCode} \cup Codes, notifies : BOOLEAN]]
  /\ told \in {"nothing", "connected", "disconnected"}

Quiet == \A k \in Links : handler[k].pc \in {"none", "done"}

(* Whatever the callbacks of overlapping connections do to the one file:      *)
(* when all are done, it holds a code that was never used, and the client   *)
(* was not left with the news that an agent is there (main.go:114-160).     *)
ReadyForTheNextAgent ==
  main \in {"sleep", "read", "send", "wait", "cleanup"} /\ Quiet =>
    codeFile # NoCode /\ codeFile \notin used /\ told # "connected"

(* Every cloudflared that is started comes to serve as the tunnel of a live  *)
(* program that nobody interrupted, or ends, whether it was given up for its *)
(* silence or its context was cancelled, or the program ended (tunnel.go:    *)
(* 117-144, main.go:54-62).  Two can stay behind: that of a program aborted  *)
(* by os.Exit, and one that Start gave up just before the regular end.      *)
TunnelServesOrEnds ==
  cf = "running" ~> \/ cf # "running"
                    \/ tun = "up" /\ Alive /\ ~interrupted
                    \/ main = "aborted"
                    \/ main = "exited" /\ tun = "failed"

(* Once it is asked to end both ways, on its input and by a signal, the      *)
(* program ends: no call whose connection is gone and no tunnel that never  *)
(* says its address keeps it (main.go:162-174, tunnel.go:125, server.go:    *)
(* 158).  A download that hangs does.                                       *)
EndsWhenAsked ==
  eof /\ interrupted /\ main # "install" ~> main \in {"exited", "aborted"}
=============================================================================
