----------------------------- MODULE Transport -----------------------------
(***************************************************************************)
(* The connection between the operator's process and the remote agent:     *)
(* the WebSocket server (internal/transport/server.go), the client         *)
(* (internal/transport/client.go), the agent's reconnection loop           *)
(* (cmd/lokifix-agent/main.go) and the callbacks by which the operator's   *)
(* main program publishes connection codes (cmd/lokifix-mcp/main.go).      *)
(*                                                                         *)
(* Processes: one HTTP handler per accepted connection, the one MCP loop   *)
(* that calls SendRequest, the agents, and on each agent one goroutine per *)
(* request.  A step is what runs between two points where another process  *)
(* can interfere: a mutex section, a channel operation, an unlocked read   *)
(* of Server.cipher, a read or write of the connection.                    *)
(*                                                                         *)
(* A message names the key it is encrypted with; the key NoToken is no     *)
(* encryption.  The key is derived from a token and stands for it.  A      *)
(* signal cancels the context of every call of the operator's process and  *)
(* nothing else of the server (cmd/lokifix-mcp/main.go:22).                *)
(***************************************************************************)
EXTENDS Naturals, Sequences, FiniteSets

CONSTANTS
  Agents,        \* runs of the agent program
  MaxDials,      \* bound: connections ever accepted
  MaxRequests,   \* bound: requests ever sent
  MaxFaults,     \* bound: losses of a link, timeouts, failed dials and quits
  MaxRetries,    \* failed connection attempts in a row before an agent exits (5)
  MaxWorkers,    \* requests an agent's connection processes at once (20)
  NoToken, NoAgent,
  Codes, Tokens, CodeExpiration, SessionTokenExpiration, MaxClock  \* of AuthManager

ASSUME TransportAssumption ==
  /\ MaxDials \in Nat /\ MaxRequests \in Nat /\ MaxFaults \in Nat
  /\ MaxRetries \in Nat /\ MaxWorkers \in Nat \ {0}
  /\ CodeExpiration \in Nat /\ SessionTokenExpiration \in Nat /\ MaxClock \in Nat
  /\ NoToken \notin Tokens
  /\ NoAgent \notin Agents

VARIABLES
  now, codes, sessionTokens, issued, accepts, displaced, revoked,  \* AuthManager
  conn, cipher,      \* Server.conn (and agentInfo, set with it) and Server.cipher
  pending, respCh,   \* Server.pending and the response channels
  handler,           \* per connection: the goroutine of handleWebSocket
  codeFile,          \* the token in the connection code file, if the file exists
  call,              \* the MCP loop inside SendRequest
  outcome,           \* per request: what SendRequest returned
  agent,             \* per agent: connectAndRun
  clientKey,         \* per connection: Client.cipher
  workers,           \* the goroutines of handleRequest
  executed,          \* history: how often each request was executed
  link,              \* per connection: the network between its two ends
  dials, faults      \* counters for the bounds

authVars == <<now, codes, sessionTokens, issued, accepts, displaced, revoked>>
callVars == <<pending, respCh, call, outcome>>
agentVars == <<agent, clientKey, workers, executed>>
vars == <<authVars, conn, cipher, handler, codeFile, callVars, agentVars, link, dials, faults>>

Auth == INSTANCE AuthManager

NoConn == 0
Conns == 1..MaxDials
Requests == 1..MaxRequests
OptToken == Tokens \cup {NoToken}

Handshake == [type : {"handshake"}, token : Tokens, session : OptToken]
AuthResult == [type : {"result"}, accepted : BOOLEAN, session : OptToken]
Request == [type : {"request"}, id : Requests, key : OptToken]
Response == [type : {"response"}, id : Requests, key : OptToken]

HandlerPC == {"none", "auth", "code", "accepted", "install", "notify", "reading",
              "decrypt", "ping", "teardown", "leave", "done", "panicked"}
AgentPC == {"off", "dial", "auth", "run", "exited"}
CallPC == {"idle", "check", "encrypt", "write", "wait", "crashed"}

NoMsg == [type |-> "none"]

Init ==
  /\ Auth!Init
  /\ conn = NoConn
  /\ cipher = NoToken
  /\ pending = {}
  /\ respCh = [r \in Requests |-> <<>>]
  /\ handler = [k \in Conns |->
                 [pc |-> "none", token |-> NoToken, session |-> NoToken, msg |-> NoMsg]]
  /\ codeFile = NoToken
  /\ call = [pc |-> "idle", id |-> 0, key |-> NoToken, cancelled |-> FALSE]
  /\ outcome = [r \in Requests |-> "none"]
  /\ agent = [a \in Agents |->
               [pc |-> "off", token |-> NoToken, session |-> NoToken,
                conn |-> NoConn, retries |-> 0]]
  /\ clientKey = [k \in Conns |-> NoToken]
  /\ workers = {}
  /\ executed = [r \in Requests |-> 0]
  /\ link = [k \in Conns |->
              [owner |-> NoAgent, up |-> FALSE, serverOpen |-> FALSE, agentOpen |-> FALSE,
               toServer |-> <<>>, toAgent |-> <<>>]]
  /\ dials = 0
  /\ faults = 0

----------------------------------------------------------------------------
(* The network.  Writing to a connection delivers the message when the      *)
(* link works and both ends are open.  When the link is lost each message   *)
(* in flight may still arrive, in order, or be lost with all that follow.   *)
(* An end finds out that the link is gone, or that the other end closed,    *)
(* when it has read everything that arrived.                                *)

Carries(k) == link[k].up /\ link[k].serverOpen /\ link[k].agentOpen

(* Variants for mutants: an end that never notices that the link is lost. *)
BrokenForServerByClose(k) == link[k].toServer = <<>> /\ link[k].up /\ ~link[k].agentOpen

BrokenForAgentByClose(k) == link[k].toAgent = <<>> /\ link[k].up /\ ~link[k].serverOpen

BrokenForServer(k) == link[k].toServer = <<>> /\ ~(link[k].up /\ link[k].agentOpen)

BrokenForAgent(k) == link[k].toAgent = <<>> /\ ~(link[k].up /\ link[k].serverOpen)

ToAgent(k, m) == [link EXCEPT ![k].toAgent = IF Carries(k) THEN Append(@, m) ELSE @]

(* A variant for a mutant: the message is written twice. *)
ToServerTwice(k, m) == [link EXCEPT ![k].toServer = IF Carries(k) THEN @ \o <<m, m>> ELSE @]

ToServer(k, m) == [link EXCEPT ![k].toServer = IF Carries(k) THEN Append(@, m) ELSE @]

ServerClosed(l) == [l EXCEPT !.serverOpen = FALSE, !.toServer = <<>>]

AgentClosed(l) == [l EXCEPT !.agentOpen = FALSE, !.toAgent = <<>>]

Fault == faults < MaxFaults /\ faults' = faults + 1

CutAt(l, n, m) ==
  [l EXCEPT !.up = FALSE, !.toServer = SubSeq(@, 1, n), !.toAgent = SubSeq(@, 1, m)]

Cut(l) == {CutAt(l, n, m) : n \in 0..Len(l.toServer), m \in 0..Len(l.toAgent)}

Lose(k) ==
  /\ link[k].up
  /\ Fault
  /\ \E l \in Cut(link[k]) : link' = [link EXCEPT ![k] = l]
  /\ UNCHANGED <<authVars, conn, cipher, handler, codeFile, callVars, agentVars, dials>>

----------------------------------------------------------------------------
(* The operator's main program. *)

ServerAlive == call.pc # "crashed"

(* crypto/rand: a value never drawn before. *)
FreshToken == CHOOSE t \in Tokens : t \notin Auth!Drawn

CanDraw == \E t \in Tokens : t \notin Auth!Drawn

(* GenerateCode, and writeConnectionFile with what it returned. *)
PublishCode ==
  /\ CanDraw
  /\ \E c \in Codes : Auth!GenerateCode(c, FreshToken)
  /\ codeFile' = FreshToken

StartServer ==
  /\ issued = {}
  /\ PublishCode
  /\ UNCHANGED <<conn, cipher, handler, callVars, agentVars, link, dials, faults>>

(* The callback OnAgentConnected removes the code file. *)
AgentConnected(k) ==
  /\ ServerAlive
  /\ handler[k].pc = "notify"
  /\ handler' = [handler EXCEPT ![k].pc = "reading"]
  /\ codeFile' = NoToken
  /\ UNCHANGED <<authVars, conn, cipher, callVars, agentVars, link, dials, faults>>

(* The callback OnAgentDisconnected publishes a new code. *)
AgentDisconnected(k) ==
  /\ ServerAlive
  /\ handler[k].pc = "leave"
  /\ handler' = [handler EXCEPT ![k].pc = "done"]
  /\ PublishCode
  /\ UNCHANGED <<conn, cipher, callVars, agentVars, link, dials, faults>>

----------------------------------------------------------------------------
(* handleWebSocket on connection k. *)

(* The first Read fails: the connection broke, or five seconds passed. *)
GiveUpHandshake(k) ==
  /\ ServerAlive
  /\ handler[k].pc = "auth"
  /\ handler' = [handler EXCEPT ![k].pc = "done"]
  /\ link' = [link EXCEPT ![k] = ServerClosed(@)]
  /\ UNCHANGED <<authVars, conn, cipher, codeFile, callVars, agentVars, dials>>

HandshakeLost(k) == BrokenForServer(k) /\ GiveUpHandshake(k) /\ UNCHANGED faults

HandshakeTimeout(k) == Fault /\ GiveUpHandshake(k)

(* The handshake arrives; a session token in it is tried first. *)
CheckSession(k) ==
  /\ ServerAlive
  /\ handler[k].pc = "auth"
  /\ link[k].toServer # <<>>
  /\ LET m == Head(link[k].toServer)
         ok == m.session # NoToken /\ Auth!SessionAccepted(m.session)
     IN  /\ handler' = [handler EXCEPT ![k] =
                         [@ EXCEPT !.pc = IF ok THEN "accepted" ELSE "code",
                                   !.token = m.token, !.session = m.session]]
         /\ IF m.session # NoToken THEN Auth!ValidateSessionToken(m.session)
                                   ELSE UNCHANGED authVars
  /\ link' = [link EXCEPT ![k].toServer = Tail(@)]
  /\ UNCHANGED <<conn, cipher, codeFile, callVars, agentVars, dials, faults>>

(* Without a valid session token the one-time token decides. *)
AcceptCode(k) ==
  /\ ServerAlive
  /\ handler[k].pc = "code"
  /\ Auth!AcceptToken(handler[k].token)
  /\ handler' = [handler EXCEPT ![k].pc = "accepted"]
  /\ UNCHANGED <<conn, cipher, codeFile, callVars, agentVars, link, dials, faults>>

RejectCode(k) ==
  /\ ServerAlive
  /\ handler[k].pc = "code"
  /\ Auth!RejectToken(handler[k].token)
  /\ handler' = [handler EXCEPT ![k].pc = "done"]
  /\ LET answered == ToAgent(k, [type |-> "result", accepted |-> FALSE, session |-> NoToken])
     IN  link' = [answered EXCEPT ![k] = ServerClosed(@)]
  /\ UNCHANGED <<conn, cipher, codeFile, callVars, agentVars, dials, faults>>

(* Every accepted handshake draws a session token; the answer leaves before *)
(* the connection is stored, and an error of its Write is ignored.          *)
AnswerHandshake(k) ==
  /\ ServerAlive
  /\ handler[k].pc = "accepted"
  /\ CanDraw
  /\ Auth!GenerateSessionToken(FreshToken)
  /\ handler' = [handler EXCEPT ![k].pc = "install"]
  /\ link' = ToAgent(k, [type |-> "result", accepted |-> TRUE, session |-> FreshToken])
  /\ UNCHANGED <<conn, cipher, codeFile, callVars, agentVars, dials, faults>>

(* Both ends derive the key from the session token if the handshake had one. *)
Secret(token, session) == IF session # NoToken THEN session ELSE token

Install(k) ==
  /\ ServerAlive
  /\ handler[k].pc = "install"
  /\ conn' = k
  /\ cipher' = Secret(handler[k].token, handler[k].session)
  /\ handler' = [handler EXCEPT ![k].pc = "notify"]
  /\ UNCHANGED <<authVars, codeFile, callVars, agentVars, link, dials, faults>>

(* The read loop.  Server.cipher is read without the lock, once to test for *)
(* nil and once more to decrypt; without a cipher the binary message is not *)
(* JSON and is skipped.                                                     *)
ReadMessage(k) ==
  /\ ServerAlive
  /\ handler[k].pc = "reading"
  /\ link[k].toServer # <<>>
  /\ handler' = IF cipher = NoToken THEN handler
                ELSE [handler EXCEPT ![k] = [@ EXCEPT !.pc = "decrypt",
                                                      !.msg = Head(link[k].toServer)]]
  /\ link' = [link EXCEPT ![k].toServer = Tail(@)]
  /\ UNCHANGED <<authVars, conn, cipher, codeFile, callVars, agentVars, dials, faults>>

(* The caller's channel holds one message: a second one blocks the loop. *)
Deliver(m) ==
  IF m.id \in pending
  THEN Len(respCh[m.id]) < 1 /\ respCh' = [respCh EXCEPT ![m.id] = Append(@, m)]
  ELSE UNCHANGED respCh

Decrypt(k) ==
  /\ ServerAlive
  /\ handler[k].pc = "decrypt"
  /\ cipher # NoToken
  /\ IF cipher = handler[k].msg.key THEN Deliver(handler[k].msg) ELSE UNCHANGED respCh
  /\ handler' = [handler EXCEPT ![k] = [@ EXCEPT !.pc = "reading", !.msg = NoMsg]]
  /\ UNCHANGED <<authVars, conn, cipher, codeFile, pending, call, outcome, agentVars,
                 link, dials, faults>>

(* A ping, behind every message that was there before it: it is decrypted   *)
(* and its pong encrypted, each with what Server.cipher is by then.         *)
ReadPing(k) ==
  /\ ServerAlive
  /\ handler[k].pc = "reading"
  /\ Carries(k) /\ link[k].toServer = <<>> /\ clientKey[k] # NoToken
  /\ cipher # NoToken
  /\ handler' = [handler EXCEPT ![k].pc = "ping"]
  /\ UNCHANGED <<authVars, conn, cipher, codeFile, callVars, agentVars, link, dials, faults>>

Pong(k) ==
  /\ ServerAlive
  /\ handler[k].pc = "ping"
  /\ cipher # NoToken
  /\ handler' = [handler EXCEPT ![k].pc = "reading"]
  /\ UNCHANGED <<authVars, conn, cipher, codeFile, callVars, agentVars, link, dials, faults>>

(* The cipher became nil in between: net/http recovers the panic and the    *)
(* handler is gone, its teardown not run and its connection not closed.     *)
DecryptPanics(k) ==
  /\ ServerAlive
  /\ handler[k].pc \in {"decrypt", "ping"}
  /\ cipher = NoToken
  /\ handler' = [handler EXCEPT ![k] = [@ EXCEPT !.pc = "panicked", !.msg = NoMsg]]
  /\ UNCHANGED <<authVars, conn, cipher, codeFile, callVars, agentVars, link, dials, faults>>

ReadFails(k) ==
  /\ ServerAlive
  /\ handler[k].pc = "reading"
  /\ BrokenForServer(k)
  /\ handler' = [handler EXCEPT ![k].pc = "teardown"]
  /\ link' = [link EXCEPT ![k] = ServerClosed(@)]
  /\ UNCHANGED <<authVars, conn, cipher, codeFile, callVars, agentVars, dials, faults>>

(* Variants for mutants: the teardown forgets one of the two fields. *)
ForgetConnOnly == conn' = NoConn /\ UNCHANGED cipher

ForgetCipherOnly == cipher' = NoToken /\ UNCHANGED conn

ForgetConnection == conn' = NoConn /\ cipher' = NoToken

(* Whatever connection the server holds by now, it is dropped. *)
Teardown(k) ==
  /\ ServerAlive
  /\ handler[k].pc = "teardown"
  /\ ForgetConnection
  /\ handler' = [handler EXCEPT ![k].pc = "leave"]
  /\ UNCHANGED <<authVars, codeFile, callVars, agentVars, link, dials, faults>>

Handle(k) ==
  \/ HandshakeLost(k) \/ CheckSession(k) \/ AcceptCode(k) \/ RejectCode(k) \/ AnswerHandshake(k)
  \/ Install(k) \/ AgentConnected(k)
  \/ ReadMessage(k) \/ Decrypt(k) \/ Pong(k) \/ DecryptPanics(k) \/ ReadFails(k)
  \/ Teardown(k) \/ AgentDisconnected(k)

----------------------------------------------------------------------------
(* The MCP loop calls the remote agent (handleToolsCall, SendRequest). *)

(* IsConnected, the next request id and its response channel. *)
StartCall ==
  /\ call.pc = "idle"
  /\ call.id < MaxRequests
  /\ conn # NoConn
  /\ call' = [call EXCEPT !.pc = "check", !.id = @ + 1, !.key = NoToken]
  /\ pending' = pending \cup {call.id + 1}
  /\ UNCHANGED <<authVars, conn, cipher, handler, codeFile, respCh, outcome, agentVars,
                 link, dials, faults>>

(* Server.cipher is tested for nil, without the lock ... *)
TestCipher ==
  /\ call.pc = "check"
  /\ call' = [call EXCEPT !.pc = IF cipher = NoToken THEN "write" ELSE "encrypt"]
  /\ UNCHANGED <<authVars, conn, cipher, handler, codeFile, pending, respCh, outcome,
                 agentVars, link, dials, faults>>

(* ... and read again to encrypt. *)
Encrypt ==
  /\ call.pc = "encrypt"
  /\ cipher # NoToken
  /\ call' = [call EXCEPT !.pc = "write", !.key = cipher]
  /\ UNCHANGED <<authVars, conn, cipher, handler, codeFile, pending, respCh, outcome,
                 agentVars, link, dials, faults>>

(* A nil cipher here ends the whole process, and with it every connection. *)
EncryptPanics ==
  /\ call.pc = "encrypt"
  /\ cipher = NoToken
  /\ call' = [call EXCEPT !.pc = "crashed"]
  /\ link' = [k \in Conns |-> ServerClosed(link[k])]
  /\ UNCHANGED <<authVars, conn, cipher, handler, codeFile, pending, respCh, outcome,
                 agentVars, dials, faults>>

(* SendRequest returns; the deferred delete unregisters the request. *)
Return(res) ==
  /\ outcome' = [outcome EXCEPT ![call.id] = res]
  /\ pending' = pending \ {call.id}
  /\ call' = [call EXCEPT !.pc = "idle", !.key = NoToken]

(* Under the lock: the connection is checked and written to.  A write to a  *)
(* connection that is no longer carried may be lost without an error.       *)
WriteRequest ==
  /\ call.pc = "write"
  /\ conn # NoConn /\ link[conn].serverOpen
  /\ link' = ToAgent(conn, [type |-> "request", id |-> call.id, key |-> call.key])
  /\ call' = [call EXCEPT !.pc = "wait"]
  /\ UNCHANGED <<authVars, conn, cipher, handler, codeFile, pending, respCh, outcome,
                 agentVars, dials, faults>>

(* "no agent connected", or an error of the network: a message that was not  *)
(* written as a whole is not read by anybody.                               *)
NotSent ==
  /\ call.pc = "write"
  /\ conn # NoConn => ~(Carries(conn) \/ call.cancelled)
  /\ Return("error")
  /\ UNCHANGED <<authVars, conn, cipher, handler, codeFile, respCh, agentVars, link, dials,
                 faults>>

(* A write under a cancelled context fails before it began, or closes the    *)
(* connection while it writes, when some or all of the message has left.    *)
WriteCancelled ==
  /\ call.pc = "write"
  /\ call.cancelled
  /\ conn # NoConn
  /\ Return("interrupted")
  /\ LET sent == ToAgent(conn, [type |-> "request", id |-> call.id, key |-> call.key])
     IN  \/ UNCHANGED <<link, faults>>
         \/ Fault /\ \E l \in Cut(sent[conn]) : link' = [link EXCEPT ![conn] = l]
  /\ UNCHANGED <<authVars, conn, cipher, handler, codeFile, respCh, agentVars, dials>>

ReceiveResponse ==
  /\ call.pc = "wait"
  /\ respCh[call.id] # <<>>
  /\ Return("ok")
  /\ respCh' = [respCh EXCEPT ![call.id] = Tail(@)]
  /\ UNCHANGED <<authVars, conn, cipher, handler, codeFile, agentVars, link, dials, faults>>

(* A variant for a mutant: the call fails after a time. *)
CallTimesOut ==
  /\ call.pc = "wait"
  /\ Return("error")
  /\ UNCHANGED <<authVars, conn, cipher, handler, codeFile, respCh, agentVars, link, dials,
                 faults>>

(* The context is cancelled; the request may be anywhere. *)
CallCancelled ==
  /\ call.pc = "wait"
  /\ call.cancelled
  /\ Return("interrupted")
  /\ UNCHANGED <<authVars, conn, cipher, handler, codeFile, respCh, agentVars, link, dials,
                 faults>>

Call ==
  \/ TestCipher \/ Encrypt \/ EncryptPanics \/ WriteRequest \/ NotSent \/ WriteCancelled
  \/ ReceiveResponse \/ CallCancelled

(* The signal.  Between two calls it makes no difference yet. *)
Interrupt ==
  /\ call.pc \in {"check", "encrypt", "write", "wait"}
  /\ ~call.cancelled
  /\ call' = [call EXCEPT !.cancelled = TRUE]
  /\ UNCHANGED <<authVars, conn, cipher, handler, codeFile, pending, respCh, outcome,
                 agentVars, link, dials, faults>>

----------------------------------------------------------------------------
(* The agent: connectAndRun, Connect and Run. *)

(* The user pastes the code of the file. *)
StartAgent(a) ==
  /\ agent[a].pc = "off"
  /\ codeFile # NoToken
  /\ agent' = [agent EXCEPT ![a] = [@ EXCEPT !.pc = "dial", !.token = codeFile]]
  /\ UNCHANGED <<authVars, conn, cipher, handler, codeFile, callVars, clientKey, workers,
                 executed, link, dials, faults>>

(* A variant for a mutant: the two tokens in each other's field. *)
HelloSwapped(ag) == [type |-> "handshake", token |-> ag.session, session |-> ag.token]

Hello(ag) == [type |-> "handshake", token |-> ag.token, session |-> ag.session]

(* The server accepts the connection and its handler waits for the          *)
(* handshake, which Connect writes at once.                                 *)
Dial(a) ==
  /\ ServerAlive
  /\ agent[a].pc = "dial"
  /\ dials < MaxDials
  /\ LET k == dials + 1
     IN  /\ dials' = k
         /\ agent' = [agent EXCEPT ![a] = [@ EXCEPT !.pc = "auth", !.conn = k]]
         /\ handler' = [handler EXCEPT ![k].pc = "auth"]
         /\ link' = [link EXCEPT ![k] =
                      [owner |-> a, up |-> TRUE, serverOpen |-> TRUE, agentOpen |-> TRUE,
                       toServer |-> <<Hello(agent[a])>>, toAgent |-> <<>>]]
  /\ UNCHANGED <<authVars, conn, cipher, codeFile, callVars, clientKey, workers, executed,
                 faults>>

(* One more failure in a row; after MaxRetries of them the agent gives up. *)
ConnectFailed(ag) ==
  [ag EXCEPT !.retries = @ + 1, !.conn = NoConn,
             !.pc = IF ag.retries + 1 > MaxRetries THEN "exited" ELSE "dial"]

FailedDial(a) ==
  /\ agent[a].pc = "dial"
  /\ agent' = [agent EXCEPT ![a] = ConnectFailed(@)]
  /\ UNCHANGED <<authVars, conn, cipher, handler, codeFile, callVars, clientKey, workers,
                 executed, link, dials>>

NoServer(a) == ~ServerAlive /\ FailedDial(a) /\ UNCHANGED faults

DialFails(a) == Fault /\ FailedDial(a)

(* The answer to the handshake does not come: the connection broke, or five *)
(* seconds passed.                                                          *)
GiveUpAuth(a) ==
  /\ agent[a].pc = "auth"
  /\ agent' = [agent EXCEPT ![a] = ConnectFailed(@)]
  /\ link' = [link EXCEPT ![agent[a].conn] = AgentClosed(@)]
  /\ UNCHANGED <<authVars, conn, cipher, handler, codeFile, callVars, clientKey, workers,
                 executed, dials>>

AuthResultLost(a) ==
  agent[a].pc = "auth" /\ BrokenForAgent(agent[a].conn) /\ GiveUpAuth(a) /\ UNCHANGED faults

AuthTimeout(a) == Fault /\ GiveUpAuth(a)

(* A variant for a mutant: the key after the session token was replaced. *)
ClientSecretLate(ag, answer) == Secret(ag.token, answer.session)

(* The key comes from the session token the handshake was sent with, not    *)
(* from the one in the answer.                                              *)
ClientSecret(ag, answer) == Secret(ag.token, ag.session)

Connected(a) ==
  LET k == agent[a].conn
      m == Head(link[k].toAgent)
  IN  /\ agent[a].pc = "auth"
      /\ link[k].toAgent # <<>>
      /\ m.accepted
      /\ clientKey' = [clientKey EXCEPT ![k] = ClientSecret(agent[a], m)]
      /\ agent' = [agent EXCEPT ![a] =
                    [@ EXCEPT !.pc = "run", !.retries = 0, !.session = m.session]]
      /\ link' = [link EXCEPT ![k].toAgent = Tail(@)]
      /\ UNCHANGED <<authVars, conn, cipher, handler, codeFile, callVars, workers, executed,
                     dials, faults>>

Refused(a) ==
  LET k == agent[a].conn
  IN  /\ agent[a].pc = "auth"
      /\ link[k].toAgent # <<>>
      /\ ~Head(link[k].toAgent).accepted
      /\ agent' = [agent EXCEPT ![a] = ConnectFailed(@)]
      /\ link' = [link EXCEPT ![k] = AgentClosed(@)]
      /\ UNCHANGED <<authVars, conn, cipher, handler, codeFile, callVars, clientKey, workers,
                     executed, dials, faults>>

(* A request is decrypted, unless it came in clear, and handed to a worker;  *)
(* with MaxWorkers of them busy the read loop waits.  What cannot be        *)
(* decrypted is dropped.                                                    *)
ReadRequest(a) ==
  LET k == agent[a].conn
      m == Head(link[k].toAgent)
  IN  /\ agent[a].pc = "run"
      /\ link[k].toAgent # <<>>
      /\ IF m.key \in {NoToken, clientKey[k]}
         THEN /\ Cardinality({w \in workers : w.conn = k}) < MaxWorkers
              /\ workers' = workers \cup {[conn |-> k, id |-> m.id]}
              /\ executed' = [executed EXCEPT ![m.id] = @ + 1]
         ELSE UNCHANGED <<workers, executed>>
      /\ link' = [link EXCEPT ![k].toAgent = Tail(@)]
      /\ UNCHANGED <<authVars, conn, cipher, handler, codeFile, callVars, agent, clientKey,
                     dials, faults>>

(* A worker writes its response to the connection its request came from,     *)
(* or drops it when that connection is closed.                              *)
Respond(w) ==
  /\ w \in workers
  /\ workers' = workers \ {w}
  /\ link' = ToServer(w.conn, [type |-> "response", id |-> w.id, key |-> clientKey[w.conn]])
  /\ UNCHANGED <<authVars, conn, cipher, handler, codeFile, callVars, agent, clientKey,
                 executed, dials, faults>>

ConnectionLost(a) ==
  /\ agent[a].pc = "run"
  /\ BrokenForAgent(agent[a].conn)
  /\ agent' = [agent EXCEPT ![a] = [@ EXCEPT !.pc = "dial", !.conn = NoConn]]
  /\ link' = [link EXCEPT ![agent[a].conn] = AgentClosed(@)]
  /\ UNCHANGED <<authVars, conn, cipher, handler, codeFile, callVars, clientKey, workers,
                 executed, dials, faults>>

(* The user ends the agent; its goroutines end with it. *)
Quit(a) ==
  /\ agent[a].pc \in {"dial", "auth", "run"}
  /\ Fault
  /\ agent' = [agent EXCEPT ![a] = [@ EXCEPT !.pc = "exited", !.conn = NoConn]]
  /\ link' = [k \in Conns |-> IF link[k].owner = a THEN AgentClosed(link[k]) ELSE link[k]]
  /\ workers' = {w \in workers : link[w.conn].owner # a}
  /\ UNCHANGED <<authVars, conn, cipher, handler, codeFile, callVars, clientKey, executed,
                 dials>>

Agent(a) ==
  \/ Dial(a) \/ NoServer(a) \/ Connected(a) \/ Refused(a) \/ AuthResultLost(a)
  \/ ReadRequest(a) \/ ConnectionLost(a)

----------------------------------------------------------------------------

Tick ==
  /\ Auth!Tick
  /\ UNCHANGED <<conn, cipher, handler, codeFile, callVars, agentVars, link, dials, faults>>

Next ==
  \/ StartServer
  \/ StartCall
  \/ Call
  \/ Interrupt
  \/ \E k \in Conns : Handle(k)
  \/ \E k \in Conns : ReadPing(k)
  \/ \E k \in Conns : HandshakeTimeout(k)
  \/ \E k \in Conns : Lose(k)
  \/ \E a \in Agents : StartAgent(a)
  \/ \E a \in Agents : Agent(a)
  \/ \E a \in Agents : DialFails(a)
  \/ \E a \in Agents : AuthTimeout(a)
  \/ \E a \in Agents : Quit(a)
  \/ \E w \in workers : Respond(w)
  \/ Tick

Spec == Init /\ [][Next]_vars

----------------------------------------------------------------------------
(* Every goroutine that can run is run, and a broken connection is noticed  *)
(* on both ends: TCP keep-alive and the five-second limits of the handshake *)
(* see to that.  Faults, users and the clock are under no obligation.       *)
Fairness ==
  /\ WF_vars(Call)
  /\ \A k \in Conns : WF_vars(Handle(k))
  /\ \A a \in Agents : WF_vars(Agent(a))
  /\ \A k \in Conns, r \in Requests : WF_vars(Respond([conn |-> k, id |-> r]))

FairSpec == Spec /\ Fairness

----------------------------------------------------------------------------

HandlerType ==
  [pc : HandlerPC, token : OptToken, session : OptToken, msg : Response \cup {NoMsg}]

AgentType ==
  [pc : AgentPC, token : OptToken, session : OptToken, conn : Conns \cup {NoConn},
   retries : Nat]

LinkType ==
  [owner : Agents \cup {NoAgent}, up : BOOLEAN, serverOpen : BOOLEAN, agentOpen : BOOLEAN,
   toServer : Seq(Handshake \cup Response), toAgent : Seq(AuthResult \cup Request)]

ServerTypeOK ==
  /\ conn \in Conns \cup {NoConn}
  /\ cipher \in OptToken
  /\ handler \in [Conns -> HandlerType]
  /\ codeFile \in OptToken

CallTypeOK ==
  /\ pending \subseteq Requests
  /\ respCh \in [Requests -> Seq(Response)]
  /\ call \in [pc : CallPC, id : Requests \cup {0}, key : OptToken, cancelled : BOOLEAN]
  /\ outcome \in [Requests -> {"none", "ok", "error", "interrupted"}]

AgentTypeOK ==
  /\ agent \in [Agents -> AgentType]
  /\ clientKey \in [Conns -> OptToken]
  /\ workers \subseteq [conn : Conns, id : Requests]
  /\ executed \in [Requests -> Nat]

LinkTypeOK ==
  /\ link \in [Conns -> LinkType]
  /\ dials \in Nat /\ dials <= MaxDials
  /\ faults \in Nat /\ faults <= MaxFaults

TypeOK == Auth!TypeOK /\ ServerTypeOK /\ CallTypeOK /\ AgentTypeOK /\ LinkTypeOK

(* Server.conn and Server.cipher change together under the lock: whoever     *)
(* installed the connection last also left its key, and no teardown leaves   *)
(* one without the other.                                                    *)
CipherWithConn ==
  IF conn = NoConn THEN cipher = NoToken
  ELSE cipher = Secret(handler[conn].token, handler[conn].session)

(* The server never holds a connection whose handler is gone, so a request   *)
(* is never written to a connection whose responses nobody would read.       *)
HeldByItsHandler ==
  conn # NoConn => handler[conn].pc \in {"notify", "reading", "decrypt", "ping", "teardown"}

(* Both ends of a connection derive the same key, although each works from   *)
(* its own copy of the tokens and the client replaces its session token by   *)
(* the one in the answer (client.go:103).                                    *)
SameKey ==
  \A k \in Conns :
    clientKey[k] # NoToken => clientKey[k] = Secret(handler[k].token, handler[k].session)

(* A read loop never blocks on a response channel: the response it is about  *)
(* to deliver finds the channel's only slot free.                            *)
DeliveryNeverBlocks ==
  \A k \in Conns :
    LET m == handler[k].msg
    IN  handler[k].pc = "decrypt" /\ m.id \in pending => respCh[m.id] = <<>>

(* The session token lets an agent reconnect whatever answers were lost      *)
(* before: the server falls back on the one-time token of an agent that      *)
(* sent a session token only once that token is past its life.               *)
SessionReconnects ==
  \A k \in Conns :
    handler[k].pc = "code" /\ handler[k].session # NoToken
      => \E i \in issued : /\ i.token = handler[k].session
                           /\ i.kind = "session"
                           /\ now - i.at > SessionTokenExpiration

(* A connection code connects one agent.  Of two agents started with the     *)
(* same code, however their dials, lost answers and retries interleave, at   *)
(* most one ever gets a session; the loser of the race cannot come in later  *)
(* on the strength of the winner's one-time token.                           *)
OneAgentPerCode ==
  \A a, b \in Agents :
    /\ a # b
    /\ agent[a].session # NoToken
    /\ agent[b].session # NoToken
    => agent[a].token # agent[b].token

CallState(r) ==
  IF outcome[r] # "none" THEN outcome[r] ELSE IF r <= call.id THEN "open" ELSE "new"

Remote == INSTANCE RemoteCall WITH
  state <- [r \in Requests |-> CallState(r)], runs <- executed

(* Over lost links, reconnections, dropped responses and interruptions, a    *)
(* request runs at most once, an answer returned is the answer of that one   *)
(* run, and an error returned means that the request did not run and never   *)
(* will.  Only the error of a cancelled context leaves that open: its        *)
(* request may have run, and may still run after the error was reported.     *)
ImplementsRemoteCall == Remote!Spec

(* Every token is redeemed, reused and expired as AuthManager allows,        *)
(* whatever the interleaving of the handlers that share it.                  *)
UsesAuthManager == Auth!Spec

(* The handler of a connection that broke ends, and with it the connection's *)
(* hold on the server, however many messages it still has to deliver.        *)
BrokenConnectionEnds ==
  \A k \in Conns :
    handler[k].pc = "reading" /\ ~(link[k].up /\ link[k].agentOpen)
      ~> handler[k].pc \in {"done", "panicked"} \/ ~ServerAlive

(* An agent that has to connect ends up connected, or gives up after its     *)
(* retries: no lost answer, refusal or dead server leaves it waiting.  The   *)
(* bound on dials must leave one for every way in which an attempt can fail. *)
AgentSettles ==
  \A a \in Agents :
    agent[a].pc \in {"dial", "auth"} ~> agent[a].pc \in {"run", "exited"}

(* As long as nothing fails every call returns.                              *)
CallReturnsUnlessFault ==
  call.pc # "idle" ~> call.pc = "idle" \/ faults > 0

----------------------------------------------------------------------------
(* What the repository says of the program, and the program does not do.     *)

(* "IsConnected returns true if a remote agent is connected"                 *)
(* (server.go:91): an agent that runs on a working connection, with its      *)
(* handler in the read loop, is a connected agent.                           *)
RunningAgentIsConnected ==
  \A a \in Agents :
    LET k == agent[a].conn
    IN  (agent[a].pc = "run" /\ link[k].up /\ handler[k].pc = "reading" /\ ServerAlive)
          => conn # NoConn

(* Every remote_shell call ends: its timeout is 120 seconds by default       *)
(* (mcp/server.go:177, guida-lokifix.html:774).                              *)
CallReturns == call.pc = "wait" ~> call.pc # "wait"
============================================================================
