--------------------------- MODULE TransportProofs ---------------------------
(***************************************************************************)
(* Proofs about Transport for any number of agents, connections, requests  *)
(* and tokens: the whole system uses the authentication manager as         *)
(* AuthManager says, hence its one-time tokens are one-time; what the      *)
(* server's lock protects is consistent; both ends hold the same key.      *)
(***************************************************************************)
EXTENDS Transport, TLAPS

(* The handler of k has sent its answer to the handshake it read. *)
Answered(k) ==
  /\ handler[k].pc \notin {"none", "auth", "code", "accepted"}
  /\ handler[k].token \in Tokens

(* Connections are handed out in order. *)
DialsInOrder ==
  \A k \in Conns :
    /\ handler[k].pc # "none" => k <= dials
    /\ handler[k].pc = "none" => /\ link[k].toServer = <<>>
                                 /\ ~link[k].agentOpen

(* An agent and the open end of its connection belong together. *)
AgentsHoldLinks ==
  /\ \A a \in Agents :
       /\ agent[a].pc \in {"auth", "run"} =>
            /\ agent[a].conn \in Conns
            /\ link[agent[a].conn].owner = a
            /\ link[agent[a].conn].agentOpen
       /\ agent[a].pc # "off" => agent[a].token \in Tokens
  /\ \A k \in Conns :
       /\ link[k].agentOpen =>
            /\ link[k].owner \in Agents
            /\ agent[link[k].owner].pc \in {"auth", "run"}
            /\ agent[link[k].owner].conn = k
       /\ ~link[k].agentOpen => link[k].toAgent = <<>>

(* What a handler knows of its handshake. *)
HandlerStages ==
  \A k \in Conns :
    /\ handler[k].pc \in {"none", "auth"} => handler[k].token = NoToken
    /\ handler[k].pc \notin {"none", "auth", "done"} => handler[k].token \in Tokens
    /\ handler[k].pc = "decrypt" => handler[k].msg \in Response

(* To the server goes one handshake, then responses. *)
ToServerInOrder(k) ==
  /\ handler[k].pc = "auth" =>
       /\ Len(link[k].toServer) <= 1
       /\ \A i \in 1..Len(link[k].toServer) : link[k].toServer[i] \in Handshake
  /\ handler[k].pc # "auth" =>
       \A i \in 1..Len(link[k].toServer) : link[k].toServer[i] \in Response

ToServerOrder == \A k \in Conns : ToServerInOrder(k)

(* To the agent goes one answer, then requests, and nothing before the       *)
(* handler has answered.                                                     *)
ToAgentInOrder(k) ==
  /\ link[k].toAgent # <<>> => Answered(k)
  /\ \A i \in 1..Len(link[k].toAgent) :
       link[k].toAgent[i] \in IF i = 1 /\ agent[link[k].owner].pc = "auth"
                              THEN AuthResult ELSE Request
  /\ (/\ Carries(k)
      /\ agent[link[k].owner].pc = "auth"
      /\ Answered(k)) => link[k].toAgent # <<>>

ToAgentOrder == \A k \in Conns : ToAgentInOrder(k)

(* Whatever the agent does with a connection it does after the answer. *)
AfterTheAnswer ==
  /\ \A a \in Agents : agent[a].pc = "run" => Answered(agent[a].conn)
  /\ \A k \in Conns : clientKey[k] # NoToken => Answered(k)
  /\ \A w \in workers : Answered(w.conn)

(* While an agent waits for the answer, both ends have the same tokens. *)
HasTokensOf(a, k) ==
  /\ handler[k].pc = "auth" =>
       \A i \in 1..Len(link[k].toServer) : link[k].toServer[i] = Hello(agent[a])
  /\ handler[k].token # NoToken => /\ handler[k].token = agent[a].token
                                   /\ handler[k].session = agent[a].session

SameTokens == \A a \in Agents : agent[a].pc = "auth" => HasTokensOf(a, agent[a].conn)

(* The MCP loop is inside a call it has numbered. *)
CallNumbered == call.pc \notin {"idle", "crashed"} => call.id \in Requests

ConnInv ==
  /\ DialsInOrder
  /\ AgentsHoldLinks
  /\ HandlerStages
  /\ ToServerOrder
  /\ ToAgentOrder
  /\ AfterTheAnswer
  /\ SameTokens
  /\ CallNumbered
  /\ HeldByItsHandler
  /\ CipherWithConn
  /\ SameKey

LocalTypeOK == ServerTypeOK /\ CallTypeOK /\ AgentTypeOK /\ LinkTypeOK

USE DEF NoConn, Conns, Requests, OptToken

-----------------------------------------------------------------------------
(* The authentication manager inside the system.                            *)

AuthProofs == INSTANCE AuthManagerProofs

LEMMA InitIsAuthInit == Init => AuthProofs!Init
BY DEF Init, Auth!Init, AuthProofs!Init

LEMMA FreshTokenIsFresh ==
  ASSUME CanDraw
  PROVE  FreshToken \in Tokens /\ FreshToken \notin Auth!Drawn
BY DEF CanDraw, FreshToken

(* What a handler presents is a token. *)
LEMMA StepIsAuthStep ==
  ASSUME HandlerStages, ToServerOrder, [Next]_vars
  PROVE  [Auth!Next]_authVars
<1>1. CASE StartServer \/ \E k \in Conns : AgentDisconnected(k)
  <2>1. PublishCode
    BY <1>1 DEF StartServer, AgentDisconnected
  <2>2. PICK c \in Codes : Auth!GenerateCode(c, FreshToken)
    BY <2>1 DEF PublishCode
  <2> QED
    BY <2>1, <2>2, FreshTokenIsFresh DEF PublishCode, Auth!Next
<1>2. CASE \E k \in Conns : CheckSession(k)
  <2>1. PICK k \in Conns : CheckSession(k)
    BY <1>2
  <2> DEFINE m == Head(link[k].toServer)
  <2>2. CASE m.session = NoToken
    BY <2>1, <2>2 DEF CheckSession
  <2>3. CASE m.session # NoToken
    <3>1. Auth!ValidateSessionToken(m.session)
      BY <2>1, <2>3 DEF CheckSession
    <3>2. m \in Handshake
      BY <2>1 DEF CheckSession, ToServerOrder, ToServerInOrder
    <3>3. m.session \in Tokens
      BY <3>2, <2>3 DEF Handshake
    <3> QED
      BY <3>1, <3>3 DEF Auth!Next
  <2> QED
    BY <2>2, <2>3
<1>3. CASE \E k \in Conns : AcceptCode(k) \/ RejectCode(k)
  <2>1. PICK k \in Conns : AcceptCode(k) \/ RejectCode(k)
    BY <1>3
  <2>2. handler[k].token \in Tokens
    BY <2>1 DEF AcceptCode, RejectCode, HandlerStages
  <2>3. Auth!AcceptToken(handler[k].token) \/ Auth!RejectToken(handler[k].token)
    BY <2>1 DEF AcceptCode, RejectCode
  <2> QED
    BY <2>2, <2>3 DEF Auth!Next
<1>4. CASE \E k \in Conns : AnswerHandshake(k)
  BY <1>4, FreshTokenIsFresh DEF AnswerHandshake, Auth!Next
<1>5. CASE Tick
  BY <1>5 DEF Tick, Auth!Next
<1>6. CASE \E k \in Conns : \/ HandshakeLost(k) \/ HandshakeTimeout(k) \/ Install(k)
                            \/ AgentConnected(k) \/ ReadMessage(k) \/ Decrypt(k)
                            \/ ReadPing(k) \/ Pong(k)
                            \/ DecryptPanics(k) \/ ReadFails(k) \/ Teardown(k) \/ Lose(k)
  BY <1>6 DEF HandshakeLost, HandshakeTimeout, GiveUpHandshake, Install, AgentConnected,
              ReadMessage, Decrypt, ReadPing, Pong, DecryptPanics, ReadFails, Teardown, Lose
<1>7. CASE StartCall \/ Call \/ Interrupt
  BY <1>7 DEF StartCall, Call, TestCipher, Encrypt, EncryptPanics, WriteRequest, NotSent,
              WriteCancelled, ReceiveResponse, CallCancelled, Interrupt
<1>8. CASE \E a \in Agents : \/ StartAgent(a) \/ Agent(a) \/ DialFails(a) \/ AuthTimeout(a)
                             \/ Quit(a)
  BY <1>8 DEF StartAgent, Agent, Dial, NoServer, FailedDial, DialFails, Connected, Refused,
              AuthResultLost, AuthTimeout, GiveUpAuth, ReadRequest, ConnectionLost, Quit
<1>9. CASE \E w \in workers : Respond(w)
  BY <1>9 DEF Respond
<1>10. CASE UNCHANGED vars
  BY <1>10 DEF vars
<1> QED
  BY <1>1, <1>2, <1>3, <1>4, <1>5, <1>6, <1>7, <1>8, <1>9, <1>10 DEF Next, Handle

LEMMA AuthStep == [Auth!Next]_authVars => [AuthProofs!Next]_AuthProofs!authVars
BY DEF authVars, AuthProofs!authVars, Auth!Next, AuthProofs!Next,
       Auth!GenerateCode, AuthProofs!GenerateCode, Auth!AcceptToken, AuthProofs!AcceptToken,
       Auth!RejectToken, AuthProofs!RejectToken, Auth!GenerateSessionToken,
       AuthProofs!GenerateSessionToken, Auth!ValidateSessionToken,
       AuthProofs!ValidateSessionToken, Auth!RevokeSessionToken, AuthProofs!RevokeSessionToken,
       Auth!Cleanup, AuthProofs!Cleanup, Auth!Tick, AuthProofs!Tick,
       Auth!Drawn, AuthProofs!Drawn, Auth!LiveCodes, AuthProofs!LiveCodes, Auth!Unexpired,
       AuthProofs!Unexpired, Auth!LiveSessions, AuthProofs!LiveSessions, Auth!Matching,
       AuthProofs!Matching, Auth!CodeAccepted, AuthProofs!CodeAccepted

LEMMA AuthInvInit == Init => AuthProofs!IInv
<1>1. Init => AuthProofs!Init
  BY InitIsAuthInit
<1>2. AuthProofs!ExpirationAssumption
  BY TransportAssumption DEF AuthProofs!ExpirationAssumption
<1>3. AuthProofs!Init => AuthProofs!IInv
  BY <1>2, AuthProofs!InitIInv
<1> QED
  BY <1>1, <1>3

LEMMA AuthInvStep ==
  AuthProofs!IInv /\ [Auth!Next]_authVars => AuthProofs!IInv'
<1>1. AuthProofs!ExpirationAssumption
  BY TransportAssumption DEF AuthProofs!ExpirationAssumption
<1> QED
  BY <1>1, AuthStep, AuthProofs!NextKeepsIInv

-----------------------------------------------------------------------------
(* The agent's actions. *)

LEMMA DialKeepsInv ==
  ASSUME LocalTypeOK, ConnInv, NEW a \in Agents, Dial(a)
  PROVE  LocalTypeOK' /\ ConnInv'
<1>1. PICK k \in Conns : k = dials + 1 /\ ~(k <= dials)
  BY TransportAssumption DEF Dial, LocalTypeOK, LinkTypeOK
<1>2. /\ agent[a].pc = "dial"
      /\ dials < MaxDials
      /\ dials' = k
      /\ agent' = [agent EXCEPT ![a] = [@ EXCEPT !.pc = "auth", !.conn = k]]
      /\ handler' = [handler EXCEPT ![k].pc = "auth"]
      /\ link' = [link EXCEPT ![k] =
                      [owner |-> a, up |-> TRUE, serverOpen |-> TRUE, agentOpen |-> TRUE,
                       toServer |-> <<Hello(agent[a])>>, toAgent |-> <<>>]]
      /\ UNCHANGED <<conn, cipher, codeFile, callVars, clientKey, workers, executed, faults>>
  BY <1>1 DEF Dial
<1>3. /\ agent'[a].pc = "auth" /\ agent'[a].conn = k
      /\ agent'[a].token = agent[a].token /\ agent'[a].session = agent[a].session
      /\ \A b \in Agents : b # a => agent'[b] = agent[b]
  BY <1>2 DEF LocalTypeOK, AgentTypeOK, AgentType
<1>4. /\ handler'[k].pc = "auth" /\ handler'[k].token = handler[k].token
      /\ \A j \in Conns : j # k => handler'[j] = handler[j]
  BY <1>2, <1>1 DEF LocalTypeOK, ServerTypeOK, HandlerType
<1>5. /\ link'[k].owner = a /\ link'[k].up /\ link'[k].agentOpen
      /\ link'[k].toServer = <<Hello(agent[a])>> /\ link'[k].toAgent = <<>>
      /\ \A j \in Conns : j # k => link'[j] = link[j]
  BY <1>2, <1>1 DEF LocalTypeOK, LinkTypeOK, LinkType
<1>6. handler[k].pc = "none" /\ ~link[k].agentOpen
  BY <1>1 DEF ConnInv, DialsInOrder
<1>7. Hello(agent[a]) \in Handshake
  BY <1>2 DEF ConnInv, AgentsHoldLinks, LocalTypeOK, AgentTypeOK, AgentType, Handshake, Hello
<1>8. LocalTypeOK'
  <2>1. AgentTypeOK'
    BY <1>2, <1>1, ZenonT(40) DEF LocalTypeOK, AgentTypeOK, AgentType, AgentPC
  <2>2. ServerTypeOK'
    BY <1>2, <1>1 DEF LocalTypeOK, ServerTypeOK, HandlerType, HandlerPC
  <2>3. LinkTypeOK'
    BY <1>2, <1>1, <1>7, TransportAssumption, SMTT(20) DEF LocalTypeOK, LinkTypeOK, LinkType
  <2>4. CallTypeOK'
    BY <1>2 DEF LocalTypeOK, CallTypeOK, callVars
  <2> QED
    BY <2>1, <2>2, <2>3, <2>4 DEF LocalTypeOK
<1>9. DialsInOrder'
  BY <1>2, <1>1, <1>4, <1>5 DEF ConnInv, DialsInOrder, LocalTypeOK, LinkTypeOK
<1>10. AgentsHoldLinks'
  BY <1>2, <1>1, <1>3, <1>5, <1>6 DEF ConnInv, AgentsHoldLinks
<1>11. HandlerStages'
  BY <1>4, <1>6 DEF ConnInv, HandlerStages
<1>12. Len(link'[k].toServer) = 1 /\ link'[k].toServer[1] = Hello(agent[a])
  BY <1>5
<1>13. \A i \in 1..Len(link'[k].toServer) : link'[k].toServer[i] = Hello(agent[a])
  BY <1>12
<1>14. \A i \in 1..Len(link'[k].toServer) : link'[k].toServer[i] \in Handshake
  BY <1>7, <1>13
<1>15. agent[a] \in AgentType /\ Hello(agent'[a]) = Hello(agent[a])
  BY <1>3 DEF Hello, LocalTypeOK, AgentTypeOK
<1>16. ToServerOrder'
  <2> SUFFICES ASSUME NEW j \in Conns PROVE ToServerInOrder(j)'
    BY DEF ToServerOrder
  <2>1. ToServerInOrder(k)'
    <3>1. Len(link'[k].toServer) <= 1
      BY <1>12
    <3> QED
      BY <1>4, <3>1, <1>14 DEF ToServerInOrder
  <2>2. CASE j # k
    BY <1>4, <1>5, <2>2 DEF ConnInv, ToServerOrder, ToServerInOrder
  <2> QED
    BY <2>1, <2>2
<1>17. ToAgentOrder'
  BY <1>2, <1>3, <1>4, <1>5, <1>6 DEF ConnInv, ToAgentOrder, ToAgentInOrder, Answered, Carries, AgentsHoldLinks
<1>18. AfterTheAnswer'
  BY <1>2, <1>3, <1>4, <1>6 DEF ConnInv, AfterTheAnswer, Answered
<1>19. SameTokens'
  <2> SUFFICES ASSUME NEW b \in Agents, agent'[b].pc = "auth" PROVE HasTokensOf(b, agent[b].conn)'
    BY DEF SameTokens
  <2>1. CASE b = a
    BY <1>1, <1>3, <1>4, <1>6, <1>13, <1>15, <2>1 DEF HasTokensOf, ConnInv, HandlerStages
  <2>2. CASE b # a
    <3>1. agent'[b] = agent[b] /\ agent[b].pc = "auth"
      BY <1>3, <2>2
    <3>2. PICK j \in Conns : j = agent[b].conn /\ link[j].agentOpen
      BY <3>1 DEF ConnInv, AgentsHoldLinks
    <3>3. HasTokensOf(b, j) /\ j # k
      BY <1>6, <3>1, <3>2 DEF ConnInv, SameTokens
    <3>4. handler'[j] = handler[j] /\ link'[j] = link[j]
      BY <1>4, <1>5, <3>3
    <3> QED
      BY <3>1, <3>2, <3>3, <3>4 DEF HasTokensOf
  <2> QED
    BY <2>1, <2>2
<1>20. HeldByItsHandler' /\ CipherWithConn'
  BY <1>2, <1>4, <1>6 DEF ConnInv, HeldByItsHandler, CipherWithConn
<1>21. SameKey' /\ CallNumbered'
  BY <1>2, <1>4, <1>6 DEF ConnInv, SameKey, CallNumbered, callVars, AfterTheAnswer, Answered
<1> QED
  BY <1>8, <1>9, <1>10, <1>11, <1>16, <1>17, <1>18, <1>19, <1>20, <1>21 DEF ConnInv

(* An action that leaves both ends of every connection alone. *)
LEMMA EndsUnchanged ==
  ASSUME ConnInv, CallNumbered',
         UNCHANGED <<conn, cipher, handler, agent, clientKey, workers, link, dials>>
  PROVE  ConnInv'
<1>1. DialsInOrder' /\ AgentsHoldLinks' /\ HandlerStages'
  BY DEF ConnInv, DialsInOrder, AgentsHoldLinks, HandlerStages
<1>2. ToServerOrder' /\ ToAgentOrder'
  BY DEF ConnInv, ToServerOrder, ToServerInOrder, ToAgentOrder, ToAgentInOrder, Answered, Carries
<1>3. AfterTheAnswer' /\ SameTokens'
  BY DEF ConnInv, AfterTheAnswer, Answered, SameTokens, HasTokensOf
<1>4. HeldByItsHandler' /\ CipherWithConn' /\ SameKey'
  BY DEF ConnInv, HeldByItsHandler, CipherWithConn, SameKey
<1> QED
  BY <1>1, <1>2, <1>3, <1>4 DEF ConnInv

(* An agent that loses, gives up or ends its connection, if it has one. *)
LEMMA AgentLetsGoKeepsInv ==
  ASSUME ConnInv, NEW a \in Agents,
         agent[a].pc # "off",
         agent'[a].pc \in {"dial", "exited"}, agent'[a].token = agent[a].token,
         \A b \in Agents : b # a => agent'[b] = agent[b],
         \A j \in Conns :
           /\ link'[j].owner = link[j].owner
           /\ link'[j].toServer = link[j].toServer
           /\ IF link[j].owner = a /\ link[j].agentOpen
              THEN ~link'[j].agentOpen /\ link'[j].toAgent = <<>>
              ELSE /\ link'[j].agentOpen = link[j].agentOpen
                   /\ link'[j].toAgent = link[j].toAgent
                   /\ link'[j].up = link[j].up
                   /\ link'[j].serverOpen = link[j].serverOpen,
         workers' \subseteq workers,
         UNCHANGED <<conn, cipher, handler, call, clientKey, dials>>
  PROVE  ConnInv'
<1>1. AgentsHoldLinks'
  BY DEF ConnInv, AgentsHoldLinks
<1>2. DialsInOrder' /\ HandlerStages'
  BY DEF ConnInv, DialsInOrder, HandlerStages
<1>3. ToServerOrder'
  BY DEF ConnInv, ToServerOrder, ToServerInOrder
<1>4. ToAgentOrder'
  BY DEF ConnInv, ToAgentOrder, ToAgentInOrder, Answered, Carries, AgentsHoldLinks
<1>5. AfterTheAnswer'
  BY DEF ConnInv, AfterTheAnswer, Answered
<1>6. SameTokens'
  <2> SUFFICES ASSUME NEW b \in Agents, agent'[b].pc = "auth"
               PROVE  HasTokensOf(b, agent[b].conn)'
    BY DEF SameTokens
  <2>1. agent'[b] = agent[b] /\ agent[b].conn \in Conns
    BY DEF ConnInv, AgentsHoldLinks
  <2> QED
    BY <2>1 DEF ConnInv, SameTokens, HasTokensOf
<1>7. HeldByItsHandler' /\ CipherWithConn' /\ SameKey' /\ CallNumbered'
  BY DEF ConnInv, HeldByItsHandler, CipherWithConn, SameKey, CallNumbered
<1> QED
  BY <1>1, <1>2, <1>3, <1>4, <1>5, <1>6, <1>7 DEF ConnInv

(* The handler of k goes from one state to the next, perhaps dropping what   *)
(* it has read or closing its end; it neither reads the handshake nor        *)
(* answers it.                                                               *)
LEMMA HandlerMovesKeepsInv ==
  ASSUME ConnInv, NEW k \in Conns,
         handler[k].pc # "none",
         handler'[k].pc \notin {"none", "auth", "code"},
         handler[k].pc = "auth" => handler'[k].pc = "done",
         handler'[k].pc # "accepted" \/ handler[k].pc = "code",
         handler'[k].pc \in {"accepted", "done"} \/ Answered(k),
         handler'[k].pc = "decrypt" => handler'[k].msg \in Response,
         handler'[k].token = handler[k].token, handler'[k].session = handler[k].session,
         handler'[k].pc = "done" => Answered(k) \/ handler[k].pc = "auth",
         \A j \in Conns : j # k => handler'[j] = handler[j],
         \A j \in Conns :
           /\ link'[j].owner = link[j].owner
           /\ link'[j].toAgent = link[j].toAgent
           /\ link'[j].agentOpen = link[j].agentOpen
           /\ link'[j].up = link[j].up
           /\ link'[j].serverOpen => link[j].serverOpen
           /\ \/ link'[j].toServer = link[j].toServer /\ (j = k => handler[k].pc # "auth")
              \/ j = k /\ link'[j].toServer = <<>>
              \/ /\ j = k /\ handler[k].pc # "auth"
                 /\ \A i \in 1..Len(link'[j].toServer) : link'[j].toServer[i] \in Response,
         HeldByItsHandler', CipherWithConn', LocalTypeOK,
         UNCHANGED <<agent, call, clientKey, workers, dials>>
  PROVE  ConnInv'
<1>1. AgentsHoldLinks'
  BY DEF ConnInv, AgentsHoldLinks
<1>2. DialsInOrder'
  BY DEF ConnInv, DialsInOrder
<1>3. HandlerStages'
  BY DEF ConnInv, HandlerStages, Answered
<1>4. \A j \in Conns : Answered(j)' <=> Answered(j)
  BY TransportAssumption DEF Answered, ConnInv, HandlerStages
<1>5. ToServerOrder'
  <2>1. ToServerInOrder(k)'
    BY DEF ConnInv, ToServerOrder, ToServerInOrder
  <2>2. \A j \in Conns : j # k => ToServerInOrder(j)'
    BY DEF ConnInv, ToServerOrder, ToServerInOrder
  <2> QED
    BY <2>1, <2>2 DEF ToServerOrder
<1>6. ToAgentOrder'
  BY <1>4 DEF ConnInv, ToAgentOrder, ToAgentInOrder, Carries
<1>7. AfterTheAnswer'
  BY <1>4 DEF ConnInv, AfterTheAnswer, AgentsHoldLinks, LocalTypeOK, AgentTypeOK
<1>8. SameTokens'
  BY DEF ConnInv, SameTokens, HasTokensOf, AgentsHoldLinks, Hello
<1>9. SameKey' /\ CallNumbered'
  BY DEF ConnInv, SameKey, CallNumbered
<1> QED
  BY <1>1, <1>2, <1>3, <1>5, <1>6, <1>7, <1>8, <1>9 DEF ConnInv

(* The network or an end drops the last messages, or closes. *)
Shrunk(l, m) ==
  /\ m.owner = l.owner
  /\ m.agentOpen = l.agentOpen
  /\ Len(m.toServer) <= Len(l.toServer)
  /\ \A i \in 1..Len(m.toServer) : m.toServer[i] = l.toServer[i]
  /\ Len(m.toAgent) <= Len(l.toAgent)
  /\ \A i \in 1..Len(m.toAgent) : m.toAgent[i] = l.toAgent[i]
  /\ l.toServer = <<>> => m.toServer = <<>>
  /\ l.toAgent = <<>> => m.toAgent = <<>>
  /\ m.up /\ m.serverOpen => l.up /\ l.serverOpen /\ m.toAgent = l.toAgent

LEMMA LinksShrinkKeepsInv ==
  ASSUME ConnInv, CallNumbered',
         \A j \in Conns : Shrunk(link[j], link'[j]),
         LocalTypeOK, LocalTypeOK',
         UNCHANGED <<conn, cipher, handler, agent, clientKey, workers, dials>>
  PROVE  ConnInv'
<1> USE DEF Shrunk
<1>1. \A j \in Conns : /\ Len(link[j].toServer) \in Nat /\ Len(link'[j].toServer) \in Nat
                       /\ Len(link[j].toAgent) \in Nat /\ Len(link'[j].toAgent) \in Nat
  BY DEF LocalTypeOK, LinkTypeOK, LinkType
<1>2. AgentsHoldLinks' /\ DialsInOrder' /\ HandlerStages'
  BY DEF ConnInv, AgentsHoldLinks, DialsInOrder, HandlerStages
<1>3. \A j \in Conns : /\ \A i \in 1..Len(link'[j].toServer) : i \in 1..Len(link[j].toServer)
                       /\ \A i \in 1..Len(link'[j].toAgent) : i \in 1..Len(link[j].toAgent)
  BY <1>1
<1>4. ToServerOrder'
  <2> SUFFICES ASSUME NEW j \in Conns PROVE ToServerInOrder(j)'
    BY DEF ToServerOrder
  <2>1. ToServerInOrder(j)
    BY DEF ConnInv, ToServerOrder
  <2>2. Len(link[j].toServer) <= 1 => Len(link'[j].toServer) <= 1
    BY <1>1
  <2> QED
    BY <1>3, <2>1, <2>2 DEF ToServerInOrder
<1>5. ToAgentOrder'
  BY <1>1 DEF ConnInv, ToAgentOrder, ToAgentInOrder, Answered, Carries
<1>6. AfterTheAnswer'
  BY DEF ConnInv, AfterTheAnswer, Answered
<1>7. SameTokens'
  BY <1>3, SMTT(20) DEF ConnInv, SameTokens, HasTokensOf, AgentsHoldLinks, Hello
<1>8. HeldByItsHandler' /\ CipherWithConn' /\ SameKey'
  BY DEF ConnInv, HeldByItsHandler, CipherWithConn, SameKey
<1> QED
  BY <1>2, <1>4, <1>5, <1>6, <1>7, <1>8 DEF ConnInv

LEMMA ConnectFailedType ==
  ASSUME NEW ag \in AgentType
  PROVE  /\ ConnectFailed(ag) \in AgentType
         /\ ConnectFailed(ag).pc \in {"dial", "exited"}
         /\ ConnectFailed(ag).token = ag.token
<1> DEFINE pc == IF ag.retries + 1 > MaxRetries THEN "exited" ELSE "dial"
<1>1. pc \in {"dial", "exited"} /\ ag.retries + 1 \in Nat
  BY DEF AgentType
<1>2. ConnectFailed(ag) = [ag EXCEPT !.retries = ag.retries + 1, !.conn = NoConn, !.pc = pc]
  BY DEF ConnectFailed
<1> HIDE DEF pc
<1> QED
  BY <1>1, <1>2 DEF AgentType, AgentPC

LEMMA AgentClosedType ==
  ASSUME NEW l \in LinkType
  PROVE  /\ AgentClosed(l) \in LinkType
         /\ AgentClosed(l).owner = l.owner /\ AgentClosed(l).toServer = l.toServer
         /\ AgentClosed(l).up = l.up /\ AgentClosed(l).serverOpen = l.serverOpen
         /\ AgentClosed(l).agentOpen = FALSE /\ AgentClosed(l).toAgent = <<>>
<1>1. AgentClosed(l) = [l EXCEPT !.agentOpen = FALSE, !.toAgent = <<>>]
  BY DEF AgentClosed
<1>2. <<>> \in Seq(AuthResult \cup Request)
  OBVIOUS
<1> QED
  BY <1>1, <1>2 DEF LinkType

LEMMA StartAgentKeepsInv ==
  ASSUME LocalTypeOK, ConnInv, NEW a \in Agents, StartAgent(a)
  PROVE  LocalTypeOK' /\ ConnInv'
<1>1. /\ agent[a].pc = "off"
      /\ codeFile \in Tokens
      /\ agent' = [agent EXCEPT ![a] = [@ EXCEPT !.pc = "dial", !.token = codeFile]]
      /\ UNCHANGED <<conn, cipher, handler, codeFile, callVars, clientKey, workers, executed,
                     link, dials, faults>>
  BY DEF StartAgent, LocalTypeOK, ServerTypeOK
<1>2. /\ agent'[a].pc = "dial" /\ agent'[a].token \in Tokens
      /\ \A b \in Agents : b # a => agent'[b] = agent[b]
  BY <1>1 DEF LocalTypeOK, AgentTypeOK, AgentType
<1>3. LocalTypeOK'
  <2>1. AgentTypeOK'
    BY <1>1, ZenonT(40) DEF LocalTypeOK, AgentTypeOK, AgentType, AgentPC
  <2> QED
    BY <1>1, <2>1 DEF LocalTypeOK, ServerTypeOK, CallTypeOK, LinkTypeOK, callVars
<1>4. AgentsHoldLinks'
  BY <1>1, <1>2 DEF ConnInv, AgentsHoldLinks
<1>5. DialsInOrder' /\ HandlerStages' /\ ToServerOrder'
  BY <1>1 DEF ConnInv, DialsInOrder, HandlerStages, ToServerOrder, ToServerInOrder
<1>6. ToAgentOrder'
  BY <1>1, <1>2 DEF ConnInv, ToAgentOrder, ToAgentInOrder, Answered, Carries, AgentsHoldLinks
<1>7. AfterTheAnswer'
  BY <1>1, <1>2 DEF ConnInv, AfterTheAnswer, Answered
<1>8. SameTokens'
  BY <1>1, <1>2 DEF ConnInv, SameTokens, HasTokensOf, AgentsHoldLinks, Hello
<1>9. HeldByItsHandler' /\ CipherWithConn' /\ SameKey' /\ CallNumbered'
  BY <1>1 DEF ConnInv, HeldByItsHandler, CipherWithConn, SameKey, CallNumbered, callVars
<1> QED
  BY <1>3, <1>4, <1>5, <1>6, <1>7, <1>8, <1>9 DEF ConnInv

LEMMA FailedDialKeepsInv ==
  ASSUME LocalTypeOK, ConnInv, NEW a \in Agents, FailedDial(a), Fault \/ UNCHANGED faults
  PROVE  LocalTypeOK' /\ ConnInv'
<1>1. /\ agent[a].pc = "dial"
      /\ agent' = [agent EXCEPT ![a] = ConnectFailed(@)]
      /\ UNCHANGED <<conn, cipher, handler, codeFile, callVars, clientKey, workers, executed,
                     link, dials>>
  BY DEF FailedDial
<1>2. /\ agent'[a] = ConnectFailed(agent[a])
      /\ \A b \in Agents : b # a => agent'[b] = agent[b]
      /\ agent[a] \in AgentType
  BY <1>1 DEF LocalTypeOK, AgentTypeOK
<1>3. LocalTypeOK'
  <2>1. AgentTypeOK'
    BY <1>1, <1>2, ConnectFailedType DEF LocalTypeOK, AgentTypeOK
  <2>2. LinkTypeOK'
    BY <1>1, TransportAssumption DEF LocalTypeOK, LinkTypeOK, Fault
  <2> QED
    BY <1>1, <2>1, <2>2 DEF LocalTypeOK, ServerTypeOK, CallTypeOK, callVars
<1>4. \A j \in Conns : ~(link[j].owner = a /\ link[j].agentOpen)
  BY <1>1 DEF ConnInv, AgentsHoldLinks
<1>5. ConnInv'
  BY <1>1, <1>2, <1>4, ConnectFailedType, AgentLetsGoKeepsInv DEF callVars
<1> QED
  BY <1>3, <1>5

(* The agent closes its end of connection k, and with it nothing else. *)
LEMMA ClosesItsEnd ==
  ASSUME LocalTypeOK, ConnInv, NEW a \in Agents, agent[a].pc \in {"auth", "run"},
         link' = [link EXCEPT ![agent[a].conn] = AgentClosed(@)]
  PROVE  /\ link' \in [Conns -> LinkType]
         /\ \A j \in Conns :
              /\ link'[j].owner = link[j].owner
              /\ link'[j].toServer = link[j].toServer
              /\ IF link[j].owner = a /\ link[j].agentOpen
                 THEN ~link'[j].agentOpen /\ link'[j].toAgent = <<>>
                 ELSE /\ link'[j].agentOpen = link[j].agentOpen
                      /\ link'[j].toAgent = link[j].toAgent
                      /\ link'[j].up = link[j].up
                      /\ link'[j].serverOpen = link[j].serverOpen
<1>1. PICK k \in Conns : k = agent[a].conn
  BY DEF ConnInv, AgentsHoldLinks
<1>2. link \in [Conns -> LinkType]
  BY DEF LocalTypeOK, LinkTypeOK
<1>3. /\ link'[k].owner = link[k].owner /\ link'[k].toServer = link[k].toServer
      /\ ~link'[k].agentOpen /\ link'[k].toAgent = <<>>
      /\ \A j \in Conns : j # k => link'[j] = link[j]
  BY <1>1, <1>2, AgentClosedType
<1>4. link' \in [Conns -> LinkType]
  BY <1>1, <1>2, AgentClosedType
<1>5. link[k].owner = a /\ link[k].agentOpen
  BY <1>1 DEF ConnInv, AgentsHoldLinks
<1>6. \A j \in Conns : link[j].owner = a /\ link[j].agentOpen => j = k
  BY <1>1 DEF ConnInv, AgentsHoldLinks
<1> QED
  BY <1>3, <1>4, <1>5, <1>6

LEMMA ClosingKeepsInv ==
  ASSUME LocalTypeOK, ConnInv, NEW a \in Agents,
         agent[a].pc \in {"auth", "run"},
         \/ agent' = [agent EXCEPT ![a] = ConnectFailed(@)]
         \/ agent' = [agent EXCEPT ![a] = [@ EXCEPT !.pc = "dial", !.conn = NoConn]],
         link' = [link EXCEPT ![agent[a].conn] = AgentClosed(@)],
         Fault \/ UNCHANGED faults,
         UNCHANGED <<conn, cipher, handler, codeFile, callVars, clientKey, workers, executed,
                     dials>>
  PROVE  LocalTypeOK' /\ ConnInv'
<1>1. /\ agent'[a].pc \in {"dial", "exited"} /\ agent'[a].token = agent[a].token
      /\ \A b \in Agents : b # a => agent'[b] = agent[b]
      /\ agent' \in [Agents -> AgentType]
  <2>1. agent \in [Agents -> AgentType]
    BY DEF LocalTypeOK, AgentTypeOK
  <2>2. CASE agent' = [agent EXCEPT ![a] = ConnectFailed(@)]
    BY <2>1, <2>2, ConnectFailedType
  <2>3. CASE agent' = [agent EXCEPT ![a] = [@ EXCEPT !.pc = "dial", !.conn = NoConn]]
    BY <2>1, <2>3 DEF AgentType, AgentPC
  <2> QED
    BY <2>2, <2>3
<1>2. LocalTypeOK'
  <2>2. link' \in [Conns -> LinkType]
    BY ClosesItsEnd
  <2>1. LinkTypeOK'
    BY <2>2, TransportAssumption DEF LocalTypeOK, LinkTypeOK, Fault
  <2> QED
    BY <1>1, <2>1 DEF LocalTypeOK, ServerTypeOK, AgentTypeOK, CallTypeOK, callVars
<1>3. ConnInv'
  <2>1. agent[a].pc # "off" /\ UNCHANGED call
    BY DEF callVars
  <2> QED
    BY <1>1, <2>1, ClosesItsEnd, AgentLetsGoKeepsInv
<1> QED
  BY <1>2, <1>3

LEMMA QuitKeepsInv ==
  ASSUME LocalTypeOK, ConnInv, NEW a \in Agents, Quit(a)
  PROVE  LocalTypeOK' /\ ConnInv'
<1>1. /\ agent[a].pc \in {"dial", "auth", "run"}
      /\ Fault
      /\ agent' = [agent EXCEPT ![a] = [@ EXCEPT !.pc = "exited", !.conn = NoConn]]
      /\ link' = [j \in Conns |-> IF link[j].owner = a THEN AgentClosed(link[j]) ELSE link[j]]
      /\ workers' \subseteq workers
      /\ UNCHANGED <<conn, cipher, handler, codeFile, callVars, clientKey, executed, dials>>
  BY DEF Quit
<1>2. /\ agent'[a].pc = "exited" /\ agent'[a].token = agent[a].token
      /\ \A b \in Agents : b # a => agent'[b] = agent[b]
      /\ agent' \in [Agents -> AgentType]
  BY <1>1, ZenonT(40) DEF LocalTypeOK, AgentTypeOK, AgentType, AgentPC
<1>3. \A j \in Conns :
        /\ link'[j] \in LinkType
        /\ link'[j].owner = link[j].owner /\ link'[j].toServer = link[j].toServer
        /\ link[j].owner = a => /\ ~link'[j].agentOpen /\ link'[j].toAgent = <<>>
                                /\ link'[j].up = link[j].up
                                /\ link'[j].serverOpen = link[j].serverOpen
        /\ link[j].owner # a => link'[j] = link[j]
  BY <1>1, AgentClosedType DEF LocalTypeOK, LinkTypeOK
<1>4. LocalTypeOK'
  <2>1. LinkTypeOK'
    BY <1>1, <1>3, TransportAssumption DEF LocalTypeOK, LinkTypeOK, Fault
  <2> QED
    BY <1>1, <1>2, <2>1 DEF LocalTypeOK, ServerTypeOK, AgentTypeOK, CallTypeOK, callVars
<1>5. \A j \in Conns : ~link[j].agentOpen => link[j].toAgent = <<>> /\ link[j].agentOpen = FALSE
  BY DEF ConnInv, AgentsHoldLinks, LocalTypeOK, LinkTypeOK, LinkType
<1>6. \A j \in Conns : ~link'[j].agentOpen => link'[j].agentOpen = FALSE
  BY <1>3 DEF LinkType
<1>7. \A j \in Conns :
        /\ link'[j].owner = link[j].owner
        /\ link'[j].toServer = link[j].toServer
        /\ IF link[j].owner = a /\ link[j].agentOpen
           THEN ~link'[j].agentOpen /\ link'[j].toAgent = <<>>
           ELSE /\ link'[j].agentOpen = link[j].agentOpen
                /\ link'[j].toAgent = link[j].toAgent
                /\ link'[j].up = link[j].up
                /\ link'[j].serverOpen = link[j].serverOpen
  BY <1>3, <1>5, <1>6
<1>8. ConnInv'
  <2>1. agent[a].pc # "off" /\ agent'[a].pc \in {"dial", "exited"} /\ UNCHANGED call
    BY <1>1, <1>2 DEF callVars
  <2> QED
    BY <1>1, <1>2, <1>7, <2>1, AgentLetsGoKeepsInv
<1> QED
  BY <1>4, <1>8

LEMMA TailFacts ==
  ASSUME NEW S, NEW s \in Seq(S), s # <<>>
  PROVE  /\ Head(s) = s[1] /\ 1 \in 1..Len(s)
         /\ Tail(s) \in Seq(S)
         /\ Len(Tail(s)) = Len(s) - 1 /\ Len(s) \in Nat
         /\ \A i \in 1..Len(Tail(s)) : i + 1 \in 1..Len(s) /\ i + 1 # 1 /\ Tail(s)[i] = s[i + 1]
OBVIOUS

(* The first message that arrives while the agent waits is the answer; those *)
(* that arrive while it runs are requests.                                  *)
LEMMA HeadToAgent ==
  ASSUME LocalTypeOK, ConnInv, NEW a \in Agents, NEW k \in Conns,
         agent[a].pc \in {"auth", "run"}, k = agent[a].conn, link[k].toAgent # <<>>
  PROVE  /\ link[k].owner = a /\ Answered(k)
         /\ Head(link[k].toAgent) \in IF agent[a].pc = "auth" THEN AuthResult ELSE Request
         /\ Tail(link[k].toAgent) \in Seq(AuthResult \cup Request)
         /\ \A i \in 1..Len(Tail(link[k].toAgent)) : Tail(link[k].toAgent)[i] \in Request
<1>1. link[k].toAgent \in Seq(AuthResult \cup Request)
  BY DEF LocalTypeOK, LinkTypeOK, LinkType
<1>2. link[k].owner = a
  BY DEF ConnInv, AgentsHoldLinks
<1>3. ToAgentInOrder(k)
  BY DEF ConnInv, ToAgentOrder
<1>4. Head(link[k].toAgent) = link[k].toAgent[1] /\ 1 \in 1..Len(link[k].toAgent)
  BY <1>1, TailFacts
<1>5. Head(link[k].toAgent) \in IF agent[a].pc = "auth" THEN AuthResult ELSE Request
  BY <1>2, <1>3, <1>4 DEF ToAgentInOrder
<1>6. Answered(k)
  BY <1>3 DEF ToAgentInOrder
<1>7. ASSUME NEW i \in 1..Len(Tail(link[k].toAgent))
      PROVE  Tail(link[k].toAgent)[i] \in Request
  BY <1>1, <1>3, TailFacts DEF ToAgentInOrder
<1>8. Tail(link[k].toAgent) \in Seq(AuthResult \cup Request)
  BY <1>1, TailFacts
<1> QED
  BY <1>2, <1>5, <1>6, <1>7, <1>8

LEMMA ConnectedKeepsInv ==
  ASSUME LocalTypeOK, ConnInv, NEW a \in Agents, Connected(a)
  PROVE  LocalTypeOK' /\ ConnInv'
<1>1. PICK k \in Conns : k = agent[a].conn /\ link[k].owner = a
  BY DEF Connected, ConnInv, AgentsHoldLinks
<1> DEFINE m == Head(link[k].toAgent)
<1>2. /\ agent[a].pc = "auth"
      /\ link[k].toAgent # <<>>
      /\ clientKey' = [clientKey EXCEPT ![k] = ClientSecret(agent[a], m)]
      /\ agent' = [agent EXCEPT ![a] =
                    [@ EXCEPT !.pc = "run", !.retries = 0, !.session = m.session]]
      /\ link' = [link EXCEPT ![k].toAgent = Tail(@)]
      /\ UNCHANGED <<conn, cipher, handler, codeFile, callVars, workers, executed,
                     dials, faults>>
  BY <1>1 DEF Connected
<1>3. Answered(k) /\ m \in AuthResult
  BY <1>1, <1>2, HeadToAgent
<1>4. m.session \in OptToken
  BY <1>3 DEF AuthResult
<1>5. /\ agent'[a].pc = "run" /\ agent'[a].conn = k /\ agent'[a].token = agent[a].token
      /\ \A b \in Agents : b # a => agent'[b] = agent[b]
      /\ agent' \in [Agents -> AgentType]
  BY <1>1, <1>2, <1>4, ZenonT(40) DEF LocalTypeOK, AgentTypeOK, AgentType, AgentPC
<1>6. /\ Tail(link[k].toAgent) \in Seq(AuthResult \cup Request)
      /\ \A i \in 1..Len(Tail(link[k].toAgent)) : Tail(link[k].toAgent)[i] \in Request
  BY <1>1, <1>2, HeadToAgent
<1>7. /\ link'[k].toAgent = Tail(link[k].toAgent)
      /\ \A j \in Conns : j # k => link'[j] = link[j]
      /\ \A j \in Conns :
           /\ link'[j].owner = link[j].owner /\ link'[j].toServer = link[j].toServer
           /\ link'[j].agentOpen = link[j].agentOpen /\ link'[j].up = link[j].up
           /\ link'[j].serverOpen = link[j].serverOpen
      /\ link' \in [Conns -> LinkType]
  BY <1>2, <1>6, ZenonT(40) DEF LocalTypeOK, LinkTypeOK, LinkType
<1>8. handler[k].token = agent[a].token /\ handler[k].session = agent[a].session
  BY <1>1, <1>2, <1>3, TransportAssumption DEF ConnInv, SameTokens, HasTokensOf, Answered
<1>9. ClientSecret(agent[a], m) = Secret(handler[k].token, handler[k].session)
  BY <1>8 DEF ClientSecret
<1>10. clientKey'[k] = Secret(handler[k].token, handler[k].session) /\ clientKey' \in [Conns -> OptToken]
  <2>1. Secret(handler[k].token, handler[k].session) \in OptToken
    BY DEF Secret, LocalTypeOK, ServerTypeOK, HandlerType
  <2> QED
    BY <1>2, <1>9, <2>1 DEF LocalTypeOK, AgentTypeOK
<1>11. LocalTypeOK'
  BY <1>2, <1>5, <1>7, <1>10
     DEF LocalTypeOK, AgentTypeOK, LinkTypeOK, ServerTypeOK, CallTypeOK, callVars
<1>12. AgentsHoldLinks'
  <2>1. ~link[k].agentOpen => FALSE
    BY <1>1, <1>2 DEF ConnInv, AgentsHoldLinks
  <2> QED
    <3>1. \A b \in Agents :
            /\ agent'[b].pc \in {"auth", "run"} => /\ agent'[b].conn \in Conns
                                                   /\ link'[agent'[b].conn].owner = b
                                                   /\ link'[agent'[b].conn].agentOpen
            /\ agent'[b].pc # "off" => agent'[b].token \in Tokens
      <4> SUFFICES ASSUME NEW b \in Agents
                   PROVE  /\ agent'[b].pc \in {"auth", "run"} =>
                               /\ agent'[b].conn \in Conns
                               /\ link'[agent'[b].conn].owner = b
                               /\ link'[agent'[b].conn].agentOpen
                          /\ agent'[b].pc # "off" => agent'[b].token \in Tokens
        OBVIOUS
      <4>1. /\ agent[b].pc \in {"auth", "run"} => /\ agent[b].conn \in Conns
                                                  /\ link[agent[b].conn].owner = b
                                                  /\ link[agent[b].conn].agentOpen
            /\ agent[b].pc # "off" => agent[b].token \in Tokens
        BY DEF ConnInv, AgentsHoldLinks
      <4>2. CASE b = a
        <5>1. agent'[b].conn = k /\ agent'[b].token = agent[b].token /\ agent[b].pc = "auth"
          BY <1>2, <1>5, <4>2
        <5>2. link'[k].owner = b /\ link'[k].agentOpen
          BY <1>1, <1>7, <2>1, <4>2
        <5> QED
          BY <4>1, <5>1, <5>2
      <4>3. CASE b # a
        BY <1>5, <1>7, <4>1, <4>3
      <4> QED
        BY <4>2, <4>3
    <3>2. \A j \in Conns :
            link'[j].agentOpen => /\ link'[j].owner \in Agents
                                  /\ agent'[link'[j].owner].pc \in {"auth", "run"}
                                  /\ agent'[link'[j].owner].conn = j
      BY <1>1, <1>5, <1>7 DEF ConnInv, AgentsHoldLinks
    <3>3. \A j \in Conns : ~link'[j].agentOpen => link'[j].toAgent = <<>>
      BY <1>7, <2>1 DEF ConnInv, AgentsHoldLinks
    <3> QED
      BY <3>1, <3>2, <3>3 DEF AgentsHoldLinks
<1>13. DialsInOrder' /\ HandlerStages' /\ ToServerOrder'
  BY <1>2, <1>7 DEF ConnInv, DialsInOrder, HandlerStages, ToServerOrder, ToServerInOrder
<1>14. ToAgentOrder'
  <2>1. ToAgentInOrder(k)'
    <3>1. agent'[link'[k].owner].pc = "run"
      BY <1>1, <1>5, <1>7
    <3>2. Answered(k)'
      BY <1>2, <1>3 DEF Answered
    <3>3. \A i \in 1..Len(link'[k].toAgent) : link'[k].toAgent[i] \in Request
      BY <1>6, <1>7
    <3> QED
      BY <3>1, <3>2, <3>3 DEF ToAgentInOrder
  <2>2. ASSUME NEW j \in Conns, j # k PROVE ToAgentInOrder(j)'
    <3>1. ToAgentInOrder(j) /\ link'[j] = link[j]
      BY <1>7, <2>2 DEF ConnInv, ToAgentOrder
    <3>2. link[j].agentOpen => link[j].owner # a
      BY <1>1, <2>2 DEF ConnInv, AgentsHoldLinks
    <3>3. ~link[j].agentOpen => link[j].toAgent = <<>> /\ ~Carries(j)
      BY DEF ConnInv, AgentsHoldLinks, Carries
    <3>4. CASE link[j].agentOpen
      BY <1>2, <1>5, <3>1, <3>2, <3>4
         DEF ToAgentInOrder, Answered, Carries, ConnInv, AgentsHoldLinks
    <3>5. CASE ~link[j].agentOpen
      BY <1>2, <3>1, <3>3, <3>5 DEF ToAgentInOrder, Answered, Carries
    <3> QED
      BY <3>4, <3>5
  <2> QED
    BY <2>1, <2>2 DEF ToAgentOrder
<1>15. AfterTheAnswer'
  BY <1>2, <1>3, <1>5 DEF ConnInv, AfterTheAnswer, Answered, LocalTypeOK, AgentTypeOK
<1>16. SameTokens'
  BY <1>2, <1>5, <1>7 DEF ConnInv, SameTokens, HasTokensOf, AgentsHoldLinks, Hello
<1>17. HeldByItsHandler' /\ CipherWithConn' /\ SameKey' /\ CallNumbered'
  <2>1. SameKey'
    BY <1>2, <1>10 DEF ConnInv, SameKey, LocalTypeOK, AgentTypeOK
  <2> QED
    BY <1>2, <2>1 DEF ConnInv, HeldByItsHandler, CipherWithConn, CallNumbered, callVars
<1> QED
  BY <1>11, <1>12, <1>13, <1>14, <1>15, <1>16, <1>17 DEF ConnInv

LEMMA ReadRequestKeepsInv ==
  ASSUME LocalTypeOK, ConnInv, NEW a \in Agents, ReadRequest(a)
  PROVE  LocalTypeOK' /\ ConnInv'
<1>1. PICK k \in Conns : k = agent[a].conn /\ link[k].owner = a
  BY DEF ReadRequest, ConnInv, AgentsHoldLinks
<1> DEFINE m == Head(link[k].toAgent)
<1>2. /\ agent[a].pc = "run"
      /\ link[k].toAgent # <<>>
      /\ \/ /\ workers' = workers \cup {[conn |-> k, id |-> m.id]}
            /\ executed' = [executed EXCEPT ![m.id] = @ + 1]
         \/ UNCHANGED <<workers, executed>>
      /\ link' = [link EXCEPT ![k].toAgent = Tail(@)]
      /\ UNCHANGED <<conn, cipher, handler, codeFile, callVars, agent, clientKey, dials, faults>>
  BY <1>1 DEF ReadRequest
<1>3. Answered(k) /\ m \in Request
  BY <1>1, <1>2, HeadToAgent
<1>4. m.id \in Requests
  BY <1>3 DEF Request
<1>5. /\ Tail(link[k].toAgent) \in Seq(AuthResult \cup Request)
      /\ \A i \in 1..Len(Tail(link[k].toAgent)) : Tail(link[k].toAgent)[i] \in Request
  BY <1>1, <1>2, HeadToAgent
<1>6. /\ link'[k].toAgent = Tail(link[k].toAgent)
      /\ \A j \in Conns : j # k => link'[j] = link[j]
      /\ \A j \in Conns :
           /\ link'[j].owner = link[j].owner /\ link'[j].toServer = link[j].toServer
           /\ link'[j].agentOpen = link[j].agentOpen /\ link'[j].up = link[j].up
           /\ link'[j].serverOpen = link[j].serverOpen
      /\ link' \in [Conns -> LinkType]
  BY <1>2, <1>5, ZenonT(40) DEF LocalTypeOK, LinkTypeOK, LinkType
<1>7. LocalTypeOK'
  <2>1. AgentTypeOK'
    BY <1>2, <1>4 DEF LocalTypeOK, AgentTypeOK
  <2> QED
    BY <1>2, <1>6, <2>1 DEF LocalTypeOK, LinkTypeOK, ServerTypeOK, CallTypeOK, callVars
<1>8. AgentsHoldLinks'
  <2>1. link[k].agentOpen
    BY <1>1, <1>2 DEF ConnInv, AgentsHoldLinks
  <2>2. \A j \in Conns : ~link'[j].agentOpen => link'[j].toAgent = <<>>
    BY <1>6, <2>1 DEF ConnInv, AgentsHoldLinks
  <2>3. UNCHANGED agent /\ \A j \in Conns : /\ link'[j].owner = link[j].owner
                                           /\ link'[j].agentOpen = link[j].agentOpen
    BY <1>2, <1>6
  <2>4. \A b \in Agents : agent[b].pc \in {"auth", "run"} => agent[b].conn \in Conns
    BY DEF ConnInv, AgentsHoldLinks
  <2> QED
    BY <2>2, <2>3, <2>4 DEF ConnInv, AgentsHoldLinks
<1>9. DialsInOrder' /\ HandlerStages' /\ ToServerOrder'
  BY <1>2, <1>6 DEF ConnInv, DialsInOrder, HandlerStages, ToServerOrder, ToServerInOrder
<1>10. ToAgentOrder'
  <2>1. ToAgentInOrder(k)'
    <3>1. agent'[link'[k].owner].pc = "run"
      BY <1>1, <1>2, <1>6
    <3>2. Answered(k)'
      BY <1>2, <1>3 DEF Answered
    <3>3. \A i \in 1..Len(link'[k].toAgent) : link'[k].toAgent[i] \in Request
      BY <1>5, <1>6
    <3> QED
      BY <3>1, <3>2, <3>3 DEF ToAgentInOrder
  <2>2. ASSUME NEW j \in Conns, j # k PROVE ToAgentInOrder(j)'
    BY <1>2, <1>6, <2>2 DEF ConnInv, ToAgentOrder, ToAgentInOrder, Answered, Carries
  <2> QED
    BY <2>1, <2>2 DEF ToAgentOrder
<1>11. AfterTheAnswer'
  BY <1>2, <1>3, SMTT(20) DEF ConnInv, AfterTheAnswer, Answered
<1>12. SameTokens'
  <2> SUFFICES ASSUME NEW b \in Agents, agent[b].pc = "auth"
               PROVE  HasTokensOf(b, agent[b].conn)'
    BY <1>2 DEF SameTokens
  <2>1. PICK j \in Conns : j = agent[b].conn /\ HasTokensOf(b, j)
    BY DEF ConnInv, SameTokens, AgentsHoldLinks
  <2>2. handler'[j] = handler[j] /\ link'[j].toServer = link[j].toServer
    BY <1>2, <1>6
  <2> QED
    BY <1>2, <2>1, <2>2 DEF HasTokensOf
<1>13. HeldByItsHandler' /\ CipherWithConn' /\ SameKey' /\ CallNumbered'
  BY <1>2 DEF ConnInv, HeldByItsHandler, CipherWithConn, SameKey, CallNumbered, callVars
<1> QED
  BY <1>7, <1>8, <1>9, <1>10, <1>11, <1>12, <1>13 DEF ConnInv

LEMMA RespondKeepsInv ==
  ASSUME LocalTypeOK, ConnInv, NEW w \in workers, Respond(w)
  PROVE  LocalTypeOK' /\ ConnInv'
<1>1. PICK k \in Conns : k = w.conn
  BY DEF LocalTypeOK, AgentTypeOK
<1> DEFINE m == [type |-> "response", id |-> w.id, key |-> clientKey[k]]
<1>2. /\ workers' = workers \ {w}
      /\ link' = [link EXCEPT ![k].toServer = IF Carries(k) THEN Append(@, m) ELSE @]
      /\ UNCHANGED <<conn, cipher, handler, codeFile, callVars, agent, clientKey, executed,
                     dials, faults>>
  BY <1>1 DEF Respond, ToServer
<1>3. m \in Response
  BY DEF LocalTypeOK, AgentTypeOK, Response
<1>4. Answered(k)
  BY <1>1 DEF ConnInv, AfterTheAnswer
<1> HIDE DEF m
<1>5. /\ link[k].toServer \in Seq(Handshake \cup Response)
      /\ Append(link[k].toServer, m) \in Seq(Handshake \cup Response)
  BY <1>3 DEF LocalTypeOK, LinkTypeOK, LinkType
<1>6. /\ link'[k].toServer \in {link[k].toServer, Append(link[k].toServer, m)}
      /\ \A j \in Conns : j # k => link'[j] = link[j]
      /\ \A j \in Conns :
           /\ link'[j].owner = link[j].owner /\ link'[j].toAgent = link[j].toAgent
           /\ link'[j].agentOpen = link[j].agentOpen /\ link'[j].up = link[j].up
           /\ link'[j].serverOpen = link[j].serverOpen
      /\ link' \in [Conns -> LinkType]
  <2>1. CASE Carries(k)
    BY <1>2, <1>5, <2>1, ZenonT(40) DEF LocalTypeOK, LinkTypeOK, LinkType
  <2>2. CASE ~Carries(k)
    BY <1>2, <1>5, <2>2 DEF LocalTypeOK, LinkTypeOK, LinkType
  <2> QED
    BY <2>1, <2>2
<1>7. LocalTypeOK'
  BY <1>2, <1>6 DEF LocalTypeOK, AgentTypeOK, LinkTypeOK, ServerTypeOK, CallTypeOK, callVars
<1>8. AgentsHoldLinks'
  BY <1>2, <1>6 DEF ConnInv, AgentsHoldLinks
<1>9. DialsInOrder' /\ HandlerStages'
  BY <1>2, <1>4, <1>6 DEF ConnInv, DialsInOrder, HandlerStages, Answered
<1>10. ToServerOrder'
  <2>1. ToServerInOrder(k) /\ handler[k].pc # "auth"
    BY <1>4 DEF ConnInv, ToServerOrder, Answered
  <2>2. \A i \in 1..Len(Append(link[k].toServer, m)) :
          Append(link[k].toServer, m)[i] \in Response
    BY <1>3, <1>5, <2>1 DEF ToServerInOrder
  <2>3. ToServerInOrder(k)'
    BY <1>2, <1>6, <2>1, <2>2 DEF ToServerInOrder
  <2>4. ASSUME NEW j \in Conns, j # k PROVE ToServerInOrder(j)'
    BY <1>2, <1>6, <2>4 DEF ConnInv, ToServerOrder, ToServerInOrder
  <2> QED
    BY <2>3, <2>4 DEF ToServerOrder
<1>11. ToAgentOrder' /\ AfterTheAnswer'
  BY <1>2, <1>6 DEF ConnInv, ToAgentOrder, ToAgentInOrder, AfterTheAnswer, Answered, Carries
<1>12. SameTokens'
  BY <1>2, <1>4, <1>6 DEF ConnInv, SameTokens, HasTokensOf, AgentsHoldLinks, Answered
<1>13. HeldByItsHandler' /\ CipherWithConn' /\ SameKey' /\ CallNumbered'
  BY <1>2 DEF ConnInv, HeldByItsHandler, CipherWithConn, SameKey, CallNumbered, callVars
<1> QED
  BY <1>7, <1>8, <1>9, <1>10, <1>11, <1>12, <1>13 DEF ConnInv

-----------------------------------------------------------------------------
(* The network, the MCP loop and the clock. *)

LEMMA PrefixFacts ==
  ASSUME NEW S, NEW s \in Seq(S), NEW n \in 0..Len(s)
  PROVE  /\ SubSeq(s, 1, n) \in Seq(S)
         /\ Len(SubSeq(s, 1, n)) = n /\ Len(s) \in Nat /\ n <= Len(s)
         /\ \A i \in 1..n : SubSeq(s, 1, n)[i] = s[i]
         /\ s = <<>> => SubSeq(s, 1, n) = <<>>
OBVIOUS

(* What is left of a link that is lost. *)
LEMMA CutFacts ==
  ASSUME NEW l \in LinkType, NEW c \in Cut(l)
  PROVE  /\ c \in LinkType
         /\ c.owner = l.owner /\ c.agentOpen = l.agentOpen /\ c.serverOpen = l.serverOpen
         /\ c.up = FALSE
         /\ Len(l.toServer) \in Nat /\ Len(c.toServer) \in Nat
         /\ Len(c.toServer) <= Len(l.toServer)
         /\ \A i \in 1..Len(c.toServer) : c.toServer[i] = l.toServer[i]
         /\ l.toServer = <<>> => c.toServer = <<>>
         /\ Len(l.toAgent) \in Nat /\ Len(c.toAgent) \in Nat
         /\ Len(c.toAgent) <= Len(l.toAgent)
         /\ \A i \in 1..Len(c.toAgent) : c.toAgent[i] = l.toAgent[i]
         /\ l.toAgent = <<>> => c.toAgent = <<>>
<1>1. PICK n \in 0..Len(l.toServer), m \in 0..Len(l.toAgent) :
         c = CutAt(l, n, m)
  BY DEF Cut
<1> DEFINE s == SubSeq(l.toServer, 1, n)
           g == SubSeq(l.toAgent, 1, m)
<1>2. l.toServer \in Seq(Handshake \cup Response) /\ l.toAgent \in Seq(AuthResult \cup Request)
  BY DEF LinkType
<1>3. /\ s \in Seq(Handshake \cup Response) /\ Len(s) <= Len(l.toServer)
      /\ \A i \in 1..Len(s) : s[i] = l.toServer[i]
      /\ l.toServer = <<>> => s = <<>>
      /\ Len(s) \in Nat /\ Len(l.toServer) \in Nat
  BY <1>2, PrefixFacts
<1>4. /\ g \in Seq(AuthResult \cup Request) /\ Len(g) <= Len(l.toAgent)
      /\ \A i \in 1..Len(g) : g[i] = l.toAgent[i]
      /\ l.toAgent = <<>> => g = <<>>
      /\ Len(g) \in Nat /\ Len(l.toAgent) \in Nat
  BY <1>2, PrefixFacts
<1>5. c = [l EXCEPT !.up = FALSE, !.toServer = s, !.toAgent = g]
  BY <1>1 DEF CutAt
<1> HIDE DEF s, g
<1>6. c \in LinkType
  BY <1>3, <1>4, <1>5, ZenonT(40) DEF LinkType
<1>7. /\ c.owner = l.owner /\ c.agentOpen = l.agentOpen /\ c.serverOpen = l.serverOpen
      /\ c.up = FALSE /\ c.toServer = s /\ c.toAgent = g
  BY <1>5 DEF LinkType
<1> QED
  BY <1>3, <1>4, <1>6, <1>7

LEMMA LoseKeepsInv ==
  ASSUME LocalTypeOK, ConnInv, NEW k \in Conns, Lose(k)
  PROVE  LocalTypeOK' /\ ConnInv'
<1>1. PICK c \in Cut(link[k]) : link' = [link EXCEPT ![k] = c]
  BY DEF Lose
<1>2. /\ Fault
      /\ UNCHANGED <<conn, cipher, handler, codeFile, callVars, agentVars, dials>>
  BY DEF Lose
<1>3. /\ link'[k] = c /\ \A j \in Conns : j # k => link'[j] = link[j]
      /\ link' \in [Conns -> LinkType]
  BY <1>1, CutFacts DEF LocalTypeOK, LinkTypeOK
<1>4. LocalTypeOK'
  BY <1>2, <1>3, TransportAssumption
     DEF LocalTypeOK, LinkTypeOK, ServerTypeOK, CallTypeOK, AgentTypeOK, callVars, agentVars, Fault
<1>5. CallNumbered'
  BY <1>2 DEF ConnInv, CallNumbered, callVars
<1>6. \A j \in Conns : Len(link[j].toServer) \in Nat /\ Len(link[j].toAgent) \in Nat
  BY DEF LocalTypeOK, LinkTypeOK, LinkType
<1>7. \A j \in Conns : Shrunk(link[j], link'[j])
  <2>1. link[k] \in LinkType
    BY DEF LocalTypeOK, LinkTypeOK
  <2>2. /\ c.owner = link[k].owner /\ c.agentOpen = link[k].agentOpen /\ c.up = FALSE
        /\ Len(c.toServer) <= Len(link[k].toServer)
        /\ \A i \in 1..Len(c.toServer) : c.toServer[i] = link[k].toServer[i]
        /\ link[k].toServer = <<>> => c.toServer = <<>>
        /\ Len(c.toAgent) <= Len(link[k].toAgent)
        /\ \A i \in 1..Len(c.toAgent) : c.toAgent[i] = link[k].toAgent[i]
        /\ link[k].toAgent = <<>> => c.toAgent = <<>>
    BY <2>1, CutFacts
  <2>4. Shrunk(link[k], link'[k])
    BY <1>3, <2>2, Zenon DEF Shrunk
  <2>3. \A j \in Conns : j # k => Shrunk(link[j], link'[j])
    BY <1>3, <1>6 DEF Shrunk
  <2> QED
    BY <2>3, <2>4
<1> QED
  BY <1>2, <1>4, <1>5, <1>7, LinksShrinkKeepsInv DEF agentVars

LEMMA ServerClosedType ==
  ASSUME NEW l \in LinkType
  PROVE  /\ ServerClosed(l) \in LinkType
         /\ ServerClosed(l).owner = l.owner /\ ServerClosed(l).toAgent = l.toAgent
         /\ ServerClosed(l).up = l.up /\ ServerClosed(l).agentOpen = l.agentOpen
         /\ ServerClosed(l).serverOpen = FALSE /\ ServerClosed(l).toServer = <<>>
<1>1. ServerClosed(l) = [l EXCEPT !.serverOpen = FALSE, !.toServer = <<>>]
  BY DEF ServerClosed
<1>2. <<>> \in Seq(Handshake \cup Response)
  OBVIOUS
<1> QED
  BY <1>1, <1>2 DEF LinkType

LEMMA EncryptPanicsKeepsInv ==
  ASSUME LocalTypeOK, ConnInv, EncryptPanics
  PROVE  LocalTypeOK' /\ ConnInv'
<1>1. /\ call' = [call EXCEPT !.pc = "crashed"]
      /\ link' = [k \in Conns |-> ServerClosed(link[k])]
      /\ UNCHANGED <<conn, cipher, handler, codeFile, pending, respCh, outcome, agentVars,
                     dials, faults>>
  BY DEF EncryptPanics
<1>2. \A j \in Conns :
        /\ link'[j] \in LinkType
        /\ link'[j].owner = link[j].owner /\ link'[j].toAgent = link[j].toAgent
        /\ link'[j].agentOpen = link[j].agentOpen
        /\ link'[j].serverOpen = FALSE /\ link'[j].toServer = <<>>
  BY <1>1, ServerClosedType DEF LocalTypeOK, LinkTypeOK
<1>3. CallTypeOK' /\ CallNumbered'
  BY <1>1 DEF LocalTypeOK, CallTypeOK, CallPC, CallNumbered
<1>4. LocalTypeOK'
  BY <1>1, <1>2, <1>3 DEF LocalTypeOK, LinkTypeOK, ServerTypeOK, AgentTypeOK, agentVars
<1>5. \A j \in Conns : Len(link[j].toServer) \in Nat /\ Len(link[j].toAgent) \in Nat
  BY DEF LocalTypeOK, LinkTypeOK, LinkType
<1>6. \A j \in Conns : Shrunk(link[j], link'[j])
  BY <1>2, <1>5 DEF Shrunk
<1> QED
  BY <1>1, <1>3, <1>4, <1>6, LinksShrinkKeepsInv DEF agentVars

LEMMA ReturnType ==
  ASSUME CallTypeOK, NEW res \in {"ok", "error", "interrupted"}, Return(res),
         call.id \in Requests, respCh' \in [Requests -> Seq(Response)]
  PROVE  CallTypeOK' /\ CallNumbered'
<1>1. outcome' \in [Requests -> {"none", "ok", "error", "interrupted"}]
  BY DEF Return, CallTypeOK
<1>2. /\ call' \in [pc : CallPC, id : Requests \cup {0}, key : OptToken, cancelled : BOOLEAN]
      /\ call'.pc = "idle"
  BY DEF Return, CallTypeOK, CallPC
<1> QED
  BY <1>1, <1>2 DEF Return, CallTypeOK, CallNumbered

(* The request m is appended to the queue q, as far as the link carries it. *)
Leaves(k, m, q) ==
  \A i \in 1..Len(q) :
    \/ i \in 1..Len(link[k].toAgent) /\ q[i] = link[k].toAgent[i]
    \/ Carries(k) /\ i = Len(link[k].toAgent) + 1 /\ q[i] = m

(* A request goes to a connection that its handler holds, hence after the    *)
(* answer, whether it arrives or the link is lost with it.                  *)
LEMMA RequestLeavesKeepsInv ==
  ASSUME LocalTypeOK, LocalTypeOK', ConnInv, CallNumbered', conn # NoConn,
         NEW k, k = conn, NEW m \in Request,
         UNCHANGED <<conn, cipher, handler, agent, clientKey, workers, dials>>,
         link'[k].owner = link[k].owner, link'[k].agentOpen = link[k].agentOpen,
         \A i \in 1..Len(link'[k].toServer) :
           i \in 1..Len(link[k].toServer) /\ link'[k].toServer[i] = link[k].toServer[i],
         Len(link'[k].toServer) <= Len(link[k].toServer),
         link[k].toServer = <<>> => link'[k].toServer = <<>>,
         Leaves(k, m, link'[k].toAgent),
         ~Carries(k) /\ link[k].toAgent = <<>> => link'[k].toAgent = <<>>,
         Carries(k)' => link'[k].toAgent # <<>>,
         \A j \in Conns : j # k => link'[j] = link[j]
  PROVE  ConnInv'
<1>1. k \in Conns
  BY DEF LocalTypeOK, ServerTypeOK
<1>2. Answered(k) /\ handler[k].pc # "auth"
  BY <1>1 DEF ConnInv, HeldByItsHandler, HandlerStages, Answered
<1>3. \A j \in Conns : /\ Len(link[j].toServer) \in Nat /\ Len(link'[j].toServer) \in Nat
                       /\ Len(link[j].toAgent) \in Nat /\ Len(link'[j].toAgent) \in Nat
  BY DEF LocalTypeOK, LinkTypeOK, LinkType
<1>4. AgentsHoldLinks'
  <2>1. ~link[k].agentOpen => link'[k].toAgent = <<>>
    BY <1>1 DEF ConnInv, AgentsHoldLinks, Carries
  <2> QED
    BY <1>1, <2>1 DEF ConnInv, AgentsHoldLinks
<1>5. DialsInOrder' /\ HandlerStages'
  BY <1>1 DEF ConnInv, DialsInOrder, HandlerStages
<1>6. ToServerOrder'
  BY SMTT(30), <1>1, <1>2, <1>3 DEF ConnInv, ToServerOrder, ToServerInOrder
<1>7. ToAgentOrder'
  <2>1. ToAgentInOrder(k)'
    <3>1. ToAgentInOrder(k)
      BY <1>1 DEF ConnInv, ToAgentOrder
    <3>2. Answered(k)' /\ agent'[link'[k].owner] = agent[link[k].owner]
      BY <1>2 DEF Answered
    <3>3. ASSUME NEW i \in 1..Len(link'[k].toAgent)
          PROVE  link'[k].toAgent[i] \in IF i = 1 /\ agent[link[k].owner].pc = "auth"
                                        THEN AuthResult ELSE Request
      <4>1. CASE i \in 1..Len(link[k].toAgent) /\ link'[k].toAgent[i] = link[k].toAgent[i]
        BY <3>1, <4>1 DEF ToAgentInOrder
      <4>2. CASE Carries(k) /\ i = Len(link[k].toAgent) + 1 /\ link'[k].toAgent[i] = m
        <5>1. agent[link[k].owner].pc = "auth" => link[k].toAgent # <<>>
          BY <1>2, <3>1, <4>2 DEF ToAgentInOrder
        <5>2. link[k].toAgent # <<>> => Len(link[k].toAgent) + 1 # 1
          BY <1>1 DEF LocalTypeOK, LinkTypeOK, LinkType
        <5> QED
          BY <4>2, <5>1, <5>2
      <4> QED
        BY <4>1, <4>2 DEF Leaves
    <3> QED
      BY <3>2, <3>3 DEF ToAgentInOrder
  <2>2. ASSUME NEW j \in Conns, j # k PROVE ToAgentInOrder(j)'
    BY <2>2 DEF ConnInv, ToAgentOrder, ToAgentInOrder, Answered, Carries
  <2> QED
    BY <2>1, <2>2 DEF ToAgentOrder
<1>8. AfterTheAnswer'
  BY DEF ConnInv, AfterTheAnswer, Answered
<1>9. SameTokens'
  <2> SUFFICES ASSUME NEW a \in Agents, agent[a].pc = "auth"
               PROVE  HasTokensOf(a, agent[a].conn)'
    BY DEF SameTokens
  <2>1. HasTokensOf(a, agent[a].conn) /\ agent[a].conn \in Conns
    BY DEF ConnInv, SameTokens, AgentsHoldLinks
  <2> QED
    BY SMTT(30), <1>2, <2>1 DEF HasTokensOf, Hello
<1>10. HeldByItsHandler' /\ CipherWithConn' /\ SameKey'
  BY DEF ConnInv, HeldByItsHandler, CipherWithConn, SameKey
<1> QED
  BY <1>4, <1>5, <1>6, <1>7, <1>8, <1>9, <1>10 DEF ConnInv

LEMMA AppendRequest ==
  ASSUME LocalTypeOK, NEW k \in Conns, NEW m \in Request
  PROVE  LET l == ToAgent(k, m) IN
         /\ l \in [Conns -> LinkType]
         /\ \A j \in Conns : j # k => l[j] = link[j]
         /\ l[k].owner = link[k].owner /\ l[k].agentOpen = link[k].agentOpen
         /\ l[k].up = link[k].up /\ l[k].serverOpen = link[k].serverOpen
         /\ l[k].toServer = link[k].toServer
         /\ Leaves(k, m, l[k].toAgent)
         /\ Carries(k) => l[k].toAgent # <<>>
         /\ ~Carries(k) => l[k].toAgent = link[k].toAgent
<1>1. link[k].toAgent \in Seq(AuthResult \cup Request)
  BY DEF LocalTypeOK, LinkTypeOK, LinkType
<1> DEFINE q == Append(link[k].toAgent, m)
<1>2. /\ q \in Seq(AuthResult \cup Request) /\ q # <<>>
      /\ \A i \in 1..Len(q) :
           \/ i \in 1..Len(link[k].toAgent) /\ q[i] = link[k].toAgent[i]
           \/ i = Len(link[k].toAgent) + 1 /\ q[i] = m
  BY <1>1
<1> HIDE DEF q
<1>3. CASE Carries(k)
  <2>1. ToAgent(k, m) = [link EXCEPT ![k].toAgent = q]
    BY <1>3 DEF ToAgent, LocalTypeOK, LinkTypeOK, q
  <2>2. Leaves(k, m, q)
    BY <1>2, <1>3 DEF Leaves
  <2>3. /\ ToAgent(k, m) \in [Conns -> LinkType]
        /\ \A j \in Conns : j # k => ToAgent(k, m)[j] = link[j]
        /\ ToAgent(k, m)[k] = [link[k] EXCEPT !.toAgent = q]
    BY <1>2, <2>1, ZenonT(40) DEF LocalTypeOK, LinkTypeOK, LinkType
  <2>4. link[k] \in LinkType
    BY DEF LocalTypeOK, LinkTypeOK
  <2>5. /\ ToAgent(k, m)[k].toAgent = q
        /\ ToAgent(k, m)[k].owner = link[k].owner
        /\ ToAgent(k, m)[k].agentOpen = link[k].agentOpen
        /\ ToAgent(k, m)[k].up = link[k].up
        /\ ToAgent(k, m)[k].serverOpen = link[k].serverOpen
        /\ ToAgent(k, m)[k].toServer = link[k].toServer
    BY <2>3, <2>4 DEF LinkType
  <2> QED
    BY <1>2, <1>3, <2>2, <2>3, <2>5
<1>4. CASE ~Carries(k)
  <2>1. ToAgent(k, m) = [link EXCEPT ![k].toAgent = link[k].toAgent]
    BY <1>4 DEF ToAgent, LocalTypeOK, LinkTypeOK
  <2>2. Leaves(k, m, link[k].toAgent)
    BY <1>1 DEF Leaves
  <2> QED
    BY <1>1, <1>4, <2>1, <2>2 DEF LocalTypeOK, LinkTypeOK, LinkType
<1> QED
  BY <1>3, <1>4

LEMMA WriteRequestKeepsInv ==
  ASSUME LocalTypeOK, ConnInv, WriteRequest
  PROVE  LocalTypeOK' /\ ConnInv'
<1> DEFINE m == [type |-> "request", id |-> call.id, key |-> call.key]
<1>1. /\ call.pc = "write" /\ call.id \in Requests /\ conn # NoConn
      /\ link' = ToAgent(conn, m)
      /\ call' = [call EXCEPT !.pc = "wait"]
      /\ UNCHANGED <<conn, cipher, handler, codeFile, pending, respCh, outcome, agentVars,
                     dials, faults>>
  BY DEF WriteRequest, ConnInv, CallNumbered
<1>2. m \in Request /\ conn \in Conns
  BY <1>1 DEF LocalTypeOK, CallTypeOK, ServerTypeOK, Request
<1> HIDE DEF m
<1>3. PICK k \in Conns : k = conn
  BY <1>2
<1>4. /\ link' \in [Conns -> LinkType]
      /\ \A j \in Conns : j # k => link'[j] = link[j]
      /\ link'[k].owner = link[k].owner /\ link'[k].agentOpen = link[k].agentOpen
      /\ link'[k].up = link[k].up /\ link'[k].serverOpen = link[k].serverOpen
      /\ link'[k].toServer = link[k].toServer
      /\ Leaves(k, m, link'[k].toAgent)
      /\ Carries(k) => link'[k].toAgent # <<>>
      /\ ~Carries(k) => link'[k].toAgent = link[k].toAgent
  BY <1>1, <1>2, <1>3, AppendRequest
<1>5. CallTypeOK' /\ CallNumbered'
  BY <1>1 DEF LocalTypeOK, CallTypeOK, CallPC, CallNumbered
<1>6. LocalTypeOK'
  BY <1>1, <1>4, <1>5 DEF LocalTypeOK, LinkTypeOK, ServerTypeOK, AgentTypeOK, agentVars
<1>7. Carries(k)' => link'[k].toAgent # <<>>
  BY <1>4 DEF Carries
<1>8. link[k].toServer \in Seq(Handshake \cup Response) /\ Len(link[k].toServer) \in Nat
  BY DEF LocalTypeOK, LinkTypeOK, LinkType
<1>9. ConnInv'
  BY <1>1, <1>2, <1>3, <1>4, <1>5, <1>6, <1>7, <1>8, RequestLeavesKeepsInv DEF agentVars
<1> QED
  BY <1>6, <1>9

LEMMA FailedCallKeepsInv ==
  ASSUME LocalTypeOK, ConnInv, NEW res \in {"error", "interrupted"}, Return(res),
         call.id \in Requests,
         UNCHANGED <<conn, cipher, handler, codeFile, respCh, agentVars, link, dials, faults>>
  PROVE  LocalTypeOK' /\ ConnInv'
<1>1. CallTypeOK' /\ CallNumbered'
  BY ReturnType DEF LocalTypeOK, CallTypeOK
<1>2. LocalTypeOK'
  BY <1>1 DEF LocalTypeOK, LinkTypeOK, ServerTypeOK, AgentTypeOK, agentVars
<1> QED
  BY <1>1, <1>2, EndsUnchanged DEF agentVars

LEMMA WriteCancelledKeepsInv ==
  ASSUME LocalTypeOK, ConnInv, WriteCancelled
  PROVE  LocalTypeOK' /\ ConnInv'
<1> DEFINE m == [type |-> "request", id |-> call.id, key |-> call.key]
<1>1. /\ call.pc = "write" /\ call.id \in Requests /\ conn # NoConn
      /\ Return("interrupted")
      /\ UNCHANGED <<conn, cipher, handler, codeFile, respCh, agentVars, dials>>
  BY DEF WriteCancelled, ConnInv, CallNumbered
<1>2. m \in Request /\ conn \in Conns
  BY <1>1 DEF LocalTypeOK, CallTypeOK, ServerTypeOK, Request
<1>3. \/ UNCHANGED <<link, faults>>
      \/ Fault /\ \E l \in Cut(ToAgent(conn, m)[conn]) : link' = [link EXCEPT ![conn] = l]
  BY DEF WriteCancelled
<1> HIDE DEF m
<1>4. CASE UNCHANGED <<link, faults>>
  BY <1>1, <1>4, FailedCallKeepsInv
<1>5. CASE /\ Fault
           /\ \E l \in Cut(ToAgent(conn, m)[conn]) : link' = [link EXCEPT ![conn] = l]
  <2>1. PICK k \in Conns : k = conn
    BY <1>2
  <2> DEFINE sent == ToAgent(k, m)[k]
  <2>2. PICK c \in Cut(sent) : link' = [link EXCEPT ![k] = c]
    BY <1>5, <2>1
  <2>3. /\ sent \in LinkType
        /\ sent.owner = link[k].owner /\ sent.agentOpen = link[k].agentOpen
        /\ sent.toServer = link[k].toServer
        /\ Leaves(k, m, sent.toAgent)
        /\ ~Carries(k) => sent.toAgent = link[k].toAgent
    BY <1>2, AppendRequest
  <2> HIDE DEF sent
  <2>4. /\ c \in LinkType
        /\ c.owner = sent.owner /\ c.agentOpen = sent.agentOpen /\ c.up = FALSE
        /\ Len(sent.toServer) \in Nat /\ Len(c.toServer) \in Nat
        /\ Len(c.toServer) <= Len(sent.toServer)
        /\ \A i \in 1..Len(c.toServer) : c.toServer[i] = sent.toServer[i]
        /\ sent.toServer = <<>> => c.toServer = <<>>
        /\ Len(sent.toAgent) \in Nat /\ Len(c.toAgent) \in Nat
        /\ Len(c.toAgent) <= Len(sent.toAgent)
        /\ \A i \in 1..Len(c.toAgent) : c.toAgent[i] = sent.toAgent[i]
        /\ sent.toAgent = <<>> => c.toAgent = <<>>
    BY <2>3, CutFacts
  <2>5. /\ link'[k] = c /\ \A j \in Conns : j # k => link'[j] = link[j]
        /\ link' \in [Conns -> LinkType]
    BY <2>2, <2>4 DEF LocalTypeOK, LinkTypeOK
  <2>6. CallTypeOK' /\ CallNumbered'
    BY <1>1, ReturnType DEF LocalTypeOK, CallTypeOK
  <2>7. LocalTypeOK'
    BY <1>1, <1>5, <2>5, <2>6, TransportAssumption
       DEF LocalTypeOK, LinkTypeOK, ServerTypeOK, AgentTypeOK, agentVars, Fault
  <2>8. Leaves(k, m, c.toAgent)
    <3> SUFFICES ASSUME NEW i \in 1..Len(c.toAgent)
                 PROVE  \/ i \in 1..Len(link[k].toAgent) /\ c.toAgent[i] = link[k].toAgent[i]
                        \/ Carries(k) /\ i = Len(link[k].toAgent) + 1 /\ c.toAgent[i] = m
      BY DEF Leaves
    <3>1. i \in 1..Len(sent.toAgent)
      BY <2>4
    <3>2. \/ i \in 1..Len(link[k].toAgent) /\ sent.toAgent[i] = link[k].toAgent[i]
          \/ Carries(k) /\ i = Len(link[k].toAgent) + 1 /\ sent.toAgent[i] = m
      BY <2>3, <3>1, Zenon DEF Leaves
    <3> QED
      BY <2>4, <3>2
  <2>9. ~Carries(k)'
    BY <2>4, <2>5 DEF Carries
  <2>10. \A i \in 1..Len(c.toServer) : i \in 1..Len(link[k].toServer)
    BY <2>3, <2>4
  <2>11. ConnInv'
    BY <1>1, <1>2, <2>1, <2>3, <2>4, <2>5, <2>6, <2>7, <2>8, <2>9, <2>10, RequestLeavesKeepsInv
       DEF agentVars
  <2> QED
    BY <2>7, <2>11
<1> QED
  BY <1>3, <1>4, <1>5

LEMMA CallKeepsInv ==
  ASSUME LocalTypeOK, ConnInv,
         \/ StartCall \/ TestCipher \/ Encrypt \/ NotSent \/ ReceiveResponse
         \/ CallCancelled \/ Interrupt
  PROVE  LocalTypeOK' /\ ConnInv'
<1>0. CASE NotSent \/ CallCancelled
  BY <1>0, FailedCallKeepsInv DEF NotSent, CallCancelled, ConnInv, CallNumbered
<1> SUFFICES ASSUME StartCall \/ TestCipher \/ Encrypt \/ ReceiveResponse \/ Interrupt
             PROVE  LocalTypeOK' /\ ConnInv'
  BY <1>0
<1>1. UNCHANGED <<conn, cipher, handler, codeFile, agentVars, link, dials, faults>>
  BY DEF StartCall, TestCipher, Encrypt, ReceiveResponse, Interrupt
<1>2. CallTypeOK' /\ CallNumbered'
  <2>1. CASE StartCall
    <3>1. call.id + 1 \in Requests
      BY <2>1, TransportAssumption DEF StartCall, LocalTypeOK, CallTypeOK
    <3> QED
      BY <2>1, <3>1 DEF StartCall, LocalTypeOK, CallTypeOK, CallPC, CallNumbered
  <2>2. CASE TestCipher \/ Encrypt \/ Interrupt
    <3>1. call.id \in Requests
      BY <2>2 DEF TestCipher, Encrypt, Interrupt, ConnInv, CallNumbered
    <3> QED
      BY <2>2, <3>1
         DEF TestCipher, Encrypt, Interrupt, LocalTypeOK, CallTypeOK, ServerTypeOK, CallPC, CallNumbered
  <2>3. CASE ReceiveResponse
    <3>1. call.id \in Requests /\ Return("ok")
      BY <2>3 DEF ReceiveResponse, ConnInv, CallNumbered
    <3>2. Tail(respCh[call.id]) \in Seq(Response)
      BY <2>3, <3>1, TailFacts DEF ReceiveResponse, LocalTypeOK, CallTypeOK
    <3>3. respCh' \in [Requests -> Seq(Response)]
      BY <2>3, <3>1, <3>2 DEF ReceiveResponse, LocalTypeOK, CallTypeOK
    <3> QED
      BY <3>1, <3>3, ReturnType DEF LocalTypeOK
  <2> QED
    BY <2>1, <2>2, <2>3
<1>3. LocalTypeOK'
  BY <1>1, <1>2 DEF LocalTypeOK, LinkTypeOK, ServerTypeOK, AgentTypeOK, agentVars
<1> QED
  BY <1>1, <1>2, <1>3, EndsUnchanged DEF agentVars

LEMMA OutsideKeepsInv ==
  ASSUME LocalTypeOK, ConnInv, StartServer \/ Tick \/ UNCHANGED vars
  PROVE  LocalTypeOK' /\ ConnInv'
<1>1. /\ UNCHANGED <<conn, cipher, handler, callVars, agentVars, link, dials, faults>>
      /\ codeFile' \in OptToken
  BY FreshTokenIsFresh
     DEF StartServer, PublishCode, Tick, vars, LocalTypeOK, ServerTypeOK
<1>2. CallNumbered'
  BY <1>1 DEF ConnInv, CallNumbered, callVars
<1>3. LocalTypeOK'
  BY <1>1 DEF LocalTypeOK, LinkTypeOK, ServerTypeOK, AgentTypeOK, CallTypeOK, agentVars, callVars
<1> QED
  BY <1>1, <1>2, <1>3, EndsUnchanged DEF agentVars

-----------------------------------------------------------------------------
(* The handlers. *)

LEMMA HandlerPcType ==
  ASSUME LocalTypeOK, NEW k \in Conns, NEW p \in HandlerPC,
         handler' = [handler EXCEPT ![k].pc = p]
  PROVE  /\ handler' \in [Conns -> HandlerType]
         /\ handler'[k].pc = p /\ handler'[k].msg = handler[k].msg
         /\ handler'[k].token = handler[k].token /\ handler'[k].session = handler[k].session
         /\ \A j \in Conns : j # k => handler'[j] = handler[j]
BY DEF LocalTypeOK, ServerTypeOK, HandlerType

LEMMA ServerClosesType ==
  ASSUME LocalTypeOK, NEW k \in Conns, link' = [link EXCEPT ![k] = ServerClosed(@)]
  PROVE  /\ link' \in [Conns -> LinkType]
         /\ \A j \in Conns :
              /\ link'[j].owner = link[j].owner /\ link'[j].toAgent = link[j].toAgent
              /\ link'[j].agentOpen = link[j].agentOpen /\ link'[j].up = link[j].up
              /\ link'[j].serverOpen => link[j].serverOpen
         /\ link'[k].toServer = <<>>
         /\ \A j \in Conns : j # k => link'[j] = link[j]
<1>1. link \in [Conns -> LinkType]
  BY DEF LocalTypeOK, LinkTypeOK
<1>2. link'[k] = ServerClosed(link[k]) /\ \A j \in Conns : j # k => link'[j] = link[j]
  BY <1>1
<1>3. link' \in [Conns -> LinkType]
  BY <1>1, ServerClosedType
<1> QED
  BY <1>1, <1>2, <1>3, ServerClosedType, ZenonT(40)

LEMMA GiveUpHandshakeKeepsInv ==
  ASSUME LocalTypeOK, ConnInv, NEW k \in Conns, GiveUpHandshake(k), Fault \/ UNCHANGED faults
  PROVE  LocalTypeOK' /\ ConnInv'
<1>1. /\ handler[k].pc = "auth"
      /\ handler' = [handler EXCEPT ![k].pc = "done"]
      /\ link' = [link EXCEPT ![k] = ServerClosed(@)]
      /\ UNCHANGED <<conn, cipher, codeFile, callVars, agentVars, dials>>
  BY DEF GiveUpHandshake
<1>2. /\ handler' \in [Conns -> HandlerType]
      /\ handler'[k].pc = "done"
      /\ handler'[k].token = handler[k].token /\ handler'[k].session = handler[k].session
      /\ \A j \in Conns : j # k => handler'[j] = handler[j]
  BY <1>1, HandlerPcType DEF HandlerPC
<1>3. LocalTypeOK'
  <2>1. link' \in [Conns -> LinkType]
    BY <1>1, ServerClosesType
  <2>2. LinkTypeOK'
    BY <1>1, <2>1, TransportAssumption DEF LocalTypeOK, LinkTypeOK, Fault
  <2> QED
    BY <1>1, <1>2, <2>2
       DEF LocalTypeOK, ServerTypeOK, CallTypeOK, AgentTypeOK, callVars, agentVars
<1>4. HeldByItsHandler' /\ CipherWithConn'
  BY <1>1, <1>2 DEF ConnInv, HeldByItsHandler, CipherWithConn, LocalTypeOK, ServerTypeOK
<1>5. ConnInv'
  BY <1>1, <1>2, <1>4, ServerClosesType, HandlerMovesKeepsInv DEF callVars, agentVars
<1> QED
  BY <1>3, <1>5

(* The moves that change nothing but the handler and, of the server, conn    *)
(* and cipher.                                                              *)
LEMMA QuietMoveKeepsInv ==
  ASSUME LocalTypeOK, ConnInv, NEW k \in Conns,
         \/ AcceptCode(k) \/ Install(k) \/ AgentConnected(k) \/ Teardown(k)
         \/ AgentDisconnected(k) \/ ReadPing(k) \/ Pong(k)
  PROVE  LocalTypeOK' /\ ConnInv'
<1>1. UNCHANGED <<callVars, agentVars, link, dials, faults>>
  BY DEF AcceptCode, Install, AgentConnected, Teardown, AgentDisconnected, ReadPing, Pong
<1>2. PICK p \in {"accepted", "notify", "reading", "ping", "leave", "done"} :
        /\ handler' = [handler EXCEPT ![k].pc = p]
        /\ p = "accepted" <=> handler[k].pc = "code"
        /\ p = "notify" => handler[k].pc = "install" /\ conn' = k
                           /\ cipher' = Secret(handler[k].token, handler[k].session)
        /\ p = "reading" => handler[k].pc \in {"notify", "ping"}
        /\ p = "ping" => handler[k].pc = "reading"
        /\ p = "leave" => handler[k].pc = "teardown" /\ conn' = NoConn /\ cipher' = NoToken
        /\ p = "done" => handler[k].pc = "leave"
        /\ p \notin {"notify", "leave"} => UNCHANGED <<conn, cipher>>
  BY DEF AcceptCode, Install, AgentConnected, Teardown, ForgetConnection, AgentDisconnected,
         ReadPing, Pong
<1>3. codeFile' \in OptToken
  BY FreshTokenIsFresh
     DEF AcceptCode, Install, AgentConnected, Teardown, AgentDisconnected, ReadPing, Pong,
         PublishCode, LocalTypeOK, ServerTypeOK
<1>4. /\ handler' \in [Conns -> HandlerType]
      /\ handler'[k].pc = p
      /\ handler'[k].token = handler[k].token /\ handler'[k].session = handler[k].session
      /\ \A j \in Conns : j # k => handler'[j] = handler[j]
  BY <1>2, HandlerPcType DEF HandlerPC
<1>5. handler[k].pc \notin {"none", "auth"} /\ (handler[k].pc # "code" => Answered(k))
  BY <1>2 DEF ConnInv, HandlerStages, Answered
<1>6. LocalTypeOK'
  <2>1. Secret(handler[k].token, handler[k].session) \in OptToken
    BY DEF LocalTypeOK, ServerTypeOK, HandlerType, Secret
  <2> QED
    BY <1>1, <1>2, <1>3, <1>4, <2>1
       DEF LocalTypeOK, LinkTypeOK, ServerTypeOK, CallTypeOK, AgentTypeOK, callVars, agentVars
<1>7. HeldByItsHandler' /\ CipherWithConn'
  BY <1>2, <1>4 DEF ConnInv, HeldByItsHandler, CipherWithConn, LocalTypeOK, ServerTypeOK
<1>8. ConnInv'
  BY <1>1, <1>2, <1>4, <1>5, <1>7, HandlerMovesKeepsInv DEF callVars, agentVars
<1> QED
  BY <1>6, <1>8

LEMMA ReadMessageKeepsInv ==
  ASSUME LocalTypeOK, ConnInv, NEW k \in Conns, ReadMessage(k)
  PROVE  LocalTypeOK' /\ ConnInv'
<1> DEFINE m == Head(link[k].toServer)
<1>1. /\ handler[k].pc = "reading"
      /\ link[k].toServer # <<>>
      /\ \/ UNCHANGED handler
         \/ handler' = [handler EXCEPT ![k] = [@ EXCEPT !.pc = "decrypt", !.msg = m]]
      /\ link' = [link EXCEPT ![k].toServer = Tail(@)]
      /\ UNCHANGED <<conn, cipher, codeFile, callVars, agentVars, dials, faults>>
  BY DEF ReadMessage
<1>2. link[k].toServer \in Seq(Handshake \cup Response)
  BY DEF LocalTypeOK, LinkTypeOK, LinkType
<1>3. \A i \in 1..Len(link[k].toServer) : link[k].toServer[i] \in Response
  BY <1>1 DEF ConnInv, ToServerOrder, ToServerInOrder
<1>4. /\ m \in Response
      /\ Tail(link[k].toServer) \in Seq(Handshake \cup Response)
      /\ \A i \in 1..Len(Tail(link[k].toServer)) : Tail(link[k].toServer)[i] \in Response
  BY <1>1, <1>2, <1>3, TailFacts
<1> HIDE DEF m
<1>5. /\ handler' \in [Conns -> HandlerType]
      /\ handler'[k].pc \in {"reading", "decrypt"}
      /\ handler'[k].pc = "decrypt" => handler'[k].msg \in Response
      /\ handler'[k].token = handler[k].token /\ handler'[k].session = handler[k].session
      /\ \A j \in Conns : j # k => handler'[j] = handler[j]
  <2>1. CASE UNCHANGED handler
    BY <1>1, <2>1 DEF LocalTypeOK, ServerTypeOK, HandlerType
  <2>2. CASE handler' = [handler EXCEPT ![k] = [@ EXCEPT !.pc = "decrypt", !.msg = m]]
    BY <1>4, <2>2 DEF LocalTypeOK, ServerTypeOK, HandlerType, HandlerPC
  <2> QED
    BY <1>1, <2>1, <2>2
<1>6. /\ link'[k].toServer = Tail(link[k].toServer)
      /\ \A j \in Conns : j # k => link'[j] = link[j]
      /\ \A j \in Conns :
           /\ link'[j].owner = link[j].owner /\ link'[j].toAgent = link[j].toAgent
           /\ link'[j].agentOpen = link[j].agentOpen /\ link'[j].up = link[j].up
           /\ link'[j].serverOpen = link[j].serverOpen
      /\ link' \in [Conns -> LinkType]
  BY <1>1, <1>4, ZenonT(40) DEF LocalTypeOK, LinkTypeOK, LinkType
<1>7. LocalTypeOK'
  BY <1>1, <1>5, <1>6
     DEF LocalTypeOK, LinkTypeOK, ServerTypeOK, CallTypeOK, AgentTypeOK, callVars, agentVars
<1>8. Answered(k)
  BY <1>1 DEF ConnInv, HandlerStages, Answered
<1>9. HeldByItsHandler' /\ CipherWithConn'
  BY <1>1, <1>5 DEF ConnInv, HeldByItsHandler, CipherWithConn, LocalTypeOK, ServerTypeOK
<1>10. ConnInv'
  BY <1>1, <1>4, <1>5, <1>6, <1>8, <1>9, HandlerMovesKeepsInv DEF callVars, agentVars
<1> QED
  BY <1>7, <1>10

LEMMA DecryptKeepsInv ==
  ASSUME LocalTypeOK, ConnInv, NEW k \in Conns, Decrypt(k) \/ DecryptPanics(k)
  PROVE  LocalTypeOK' /\ ConnInv'
<1>1. PICK p \in {"reading", "panicked"} :
        /\ handler' = [handler EXCEPT ![k] = [@ EXCEPT !.pc = p, !.msg = NoMsg]]
        /\ p = "panicked" => cipher = NoToken
  BY DEF Decrypt, DecryptPanics
<1>2. /\ handler[k].pc \in {"decrypt", "ping"}
      /\ UNCHANGED <<conn, cipher, codeFile, pending, call, outcome, agentVars, link, dials,
                     faults>>
  BY DEF Decrypt, DecryptPanics, callVars
<1>3. /\ handler' \in [Conns -> HandlerType]
      /\ handler'[k].pc = p
      /\ handler'[k].token = handler[k].token /\ handler'[k].session = handler[k].session
      /\ \A j \in Conns : j # k => handler'[j] = handler[j]
  BY <1>1 DEF LocalTypeOK, ServerTypeOK, HandlerType, HandlerPC
<1>4. respCh' \in [Requests -> Seq(Response)]
  <2> SUFFICES ASSUME Decrypt(k) PROVE respCh' \in [Requests -> Seq(Response)]
    BY DEF DecryptPanics, callVars, LocalTypeOK, CallTypeOK
  <2>1. handler[k].msg \in Response
    BY DEF Decrypt, ConnInv, HandlerStages
  <2>2. handler[k].msg.id \in Requests
    BY <2>1 DEF Response
  <2>3. \/ UNCHANGED respCh
        \/ respCh' = [respCh EXCEPT ![handler[k].msg.id] = Append(@, handler[k].msg)]
    BY DEF Decrypt, Deliver
  <2>4. Append(respCh[handler[k].msg.id], handler[k].msg) \in Seq(Response)
    BY <2>1, <2>2 DEF LocalTypeOK, CallTypeOK
  <2> QED
    BY <2>2, <2>3, <2>4 DEF LocalTypeOK, CallTypeOK
<1>5. LocalTypeOK'
  BY <1>2, <1>3, <1>4
     DEF LocalTypeOK, LinkTypeOK, ServerTypeOK, CallTypeOK, AgentTypeOK, agentVars
<1>6. Answered(k)
  BY <1>2 DEF ConnInv, HandlerStages, Answered
<1>7. HeldByItsHandler' /\ CipherWithConn'
  <2>1. p = "panicked" => conn # k
    BY <1>1, <1>6, TransportAssumption DEF ConnInv, CipherWithConn, Secret, Answered
  <2> QED
    BY <1>2, <1>3, <2>1 DEF ConnInv, HeldByItsHandler, CipherWithConn, LocalTypeOK, ServerTypeOK
<1>8. ConnInv'
  BY <1>2, <1>3, <1>6, <1>7, HandlerMovesKeepsInv DEF agentVars
<1> QED
  BY <1>5, <1>8

LEMMA ReadFailsKeepsInv ==
  ASSUME LocalTypeOK, ConnInv, NEW k \in Conns, ReadFails(k)
  PROVE  LocalTypeOK' /\ ConnInv'
<1>1. /\ handler[k].pc = "reading"
      /\ handler' = [handler EXCEPT ![k].pc = "teardown"]
      /\ link' = [link EXCEPT ![k] = ServerClosed(@)]
      /\ UNCHANGED <<conn, cipher, codeFile, callVars, agentVars, dials, faults>>
  BY DEF ReadFails
<1>2. /\ handler' \in [Conns -> HandlerType]
      /\ handler'[k].pc = "teardown"
      /\ handler'[k].token = handler[k].token /\ handler'[k].session = handler[k].session
      /\ \A j \in Conns : j # k => handler'[j] = handler[j]
  BY <1>1, HandlerPcType DEF HandlerPC
<1>3. LocalTypeOK'
  <2>1. link' \in [Conns -> LinkType]
    BY <1>1, ServerClosesType
  <2> QED
    BY <1>1, <1>2, <2>1
       DEF LocalTypeOK, LinkTypeOK, ServerTypeOK, CallTypeOK, AgentTypeOK, callVars, agentVars
<1>4. Answered(k)
  BY <1>1 DEF ConnInv, HandlerStages, Answered
<1>5. HeldByItsHandler' /\ CipherWithConn'
  BY <1>1, <1>2 DEF ConnInv, HeldByItsHandler, CipherWithConn, LocalTypeOK, ServerTypeOK
<1>6. ConnInv'
  BY <1>1, <1>2, <1>4, <1>5, ServerClosesType, HandlerMovesKeepsInv DEF callVars, agentVars
<1> QED
  BY <1>3, <1>6

(* The handshake is the only message there, and it is the agent's. *)
LEMMA CheckSessionKeepsInv ==
  ASSUME LocalTypeOK, ConnInv, NEW k \in Conns, CheckSession(k)
  PROVE  LocalTypeOK' /\ ConnInv'
<1> DEFINE m == Head(link[k].toServer)
<1>1. /\ handler[k].pc = "auth"
      /\ link[k].toServer # <<>>
      /\ link' = [link EXCEPT ![k].toServer = Tail(@)]
      /\ UNCHANGED <<conn, cipher, codeFile, callVars, agentVars, dials, faults>>
  BY DEF CheckSession
<1>2. PICK p \in {"accepted", "code"} :
        handler' = [handler EXCEPT ![k] = [@ EXCEPT !.pc = p, !.token = m.token,
                                                    !.session = m.session]]
  BY DEF CheckSession
<1>3. link[k].toServer \in Seq(Handshake \cup Response)
  BY DEF LocalTypeOK, LinkTypeOK, LinkType
<1>4. /\ Len(link[k].toServer) <= 1
      /\ \A i \in 1..Len(link[k].toServer) : link[k].toServer[i] \in Handshake
  BY <1>1 DEF ConnInv, ToServerOrder, ToServerInOrder
<1>5. /\ m = link[k].toServer[1] /\ 1 \in 1..Len(link[k].toServer)
      /\ m \in Handshake
      /\ Tail(link[k].toServer) = <<>>
  BY <1>1, <1>3, <1>4
<1>6. m.token \in Tokens /\ m.session \in OptToken
  BY <1>5 DEF Handshake
<1>7. \A a \in Agents : agent[a].pc = "auth" /\ agent[a].conn = k => m = Hello(agent[a])
  BY <1>1, <1>5 DEF ConnInv, SameTokens, HasTokensOf
<1> HIDE DEF m
<1>8. /\ handler' \in [Conns -> HandlerType]
      /\ handler'[k].pc = p
      /\ handler'[k].token = m.token /\ handler'[k].session = m.session
      /\ \A j \in Conns : j # k => handler'[j] = handler[j]
  BY <1>2, <1>6 DEF LocalTypeOK, ServerTypeOK, HandlerType, HandlerPC
<1>9. <<>> \in Seq(Handshake \cup Response)
  OBVIOUS
<1>10. /\ link'[k].toServer = <<>>
       /\ \A j \in Conns : j # k => link'[j] = link[j]
       /\ \A j \in Conns :
            /\ link'[j].owner = link[j].owner /\ link'[j].toAgent = link[j].toAgent
            /\ link'[j].agentOpen = link[j].agentOpen /\ link'[j].up = link[j].up
            /\ link'[j].serverOpen = link[j].serverOpen
       /\ link' \in [Conns -> LinkType]
  BY <1>1, <1>5, <1>9, SMTT(20) DEF LocalTypeOK, LinkTypeOK, LinkType
<1>11. LocalTypeOK'
  BY <1>1, <1>8, <1>10
     DEF LocalTypeOK, LinkTypeOK, ServerTypeOK, CallTypeOK, AgentTypeOK, callVars, agentVars
<1>12. \A j \in Conns : Answered(j)' <=> Answered(j)
  BY <1>1, <1>8 DEF Answered
<1>13. AgentsHoldLinks'
  BY <1>1, <1>10 DEF ConnInv, AgentsHoldLinks, agentVars
<1>14. DialsInOrder' /\ HandlerStages'
  BY <1>1, <1>6, <1>8, <1>10 DEF ConnInv, DialsInOrder, HandlerStages
<1>15. ToServerOrder'
  <2>1. ToServerInOrder(k)'
    BY <1>8, <1>10 DEF ToServerInOrder
  <2>2. ASSUME NEW j \in Conns, j # k PROVE ToServerInOrder(j)'
    BY <1>8, <1>10, <2>2 DEF ConnInv, ToServerOrder, ToServerInOrder
  <2> QED
    BY <2>1, <2>2 DEF ToServerOrder
<1>16. ToAgentOrder'
  BY <1>1, <1>10, <1>12 DEF ConnInv, ToAgentOrder, ToAgentInOrder, Carries, agentVars
<1>17. AfterTheAnswer'
  BY <1>1, <1>12 DEF ConnInv, AfterTheAnswer, AgentsHoldLinks, LocalTypeOK, AgentTypeOK, agentVars
<1>18. SameTokens'
  <2> SUFFICES ASSUME NEW b \in Agents, agent'[b].pc = "auth"
               PROVE  HasTokensOf(b, agent[b].conn)'
    BY DEF SameTokens
  <2>1. agent'[b] = agent[b] /\ agent[b].conn \in Conns
    BY <1>1 DEF ConnInv, AgentsHoldLinks, agentVars
  <2>2. CASE agent[b].conn = k
    <3>1. m.token = agent[b].token /\ m.session = agent[b].session
      BY <1>1, <1>7, <2>1, <2>2 DEF Hello
    <3> QED
      BY <1>8, <2>1, <2>2, <3>1 DEF HasTokensOf
  <2>3. CASE agent[b].conn # k
    BY <1>8, <1>10, <2>1, <2>3 DEF ConnInv, SameTokens, HasTokensOf
  <2> QED
    BY <2>2, <2>3
<1>19. HeldByItsHandler' /\ CipherWithConn'
  BY <1>1, <1>8 DEF ConnInv, HeldByItsHandler, CipherWithConn, LocalTypeOK, ServerTypeOK
<1>20. SameKey'
  BY <1>1, <1>8 DEF ConnInv, SameKey, AfterTheAnswer, Answered, agentVars
<1>21. CallNumbered'
  BY <1>1 DEF ConnInv, CallNumbered, callVars
<1> QED
  BY <1>11, <1>13, <1>14, <1>15, <1>16, <1>17, <1>18, <1>19, <1>20, <1>21 DEF ConnInv

(* The answer, positive or not, is the first message to the agent, and the   *)
(* agent, if it is still there, waits for it.                               *)
LEMMA AnswerKeepsInv ==
  ASSUME LocalTypeOK, ConnInv, NEW k \in Conns, NEW m \in AuthResult,
         handler[k].pc \in {"code", "accepted"},
         handler'[k].pc \in {"done", "install"},
         handler'[k].token = handler[k].token, handler'[k].session = handler[k].session,
         \A j \in Conns : j # k => handler'[j] = handler[j],
         \A j \in Conns : j # k => link'[j] = link[j],
         link'[k].owner = link[k].owner, link'[k].agentOpen = link[k].agentOpen,
         link'[k].up = link[k].up, link'[k].serverOpen => link[k].serverOpen,
         link'[k].toServer \in {<<>>, link[k].toServer},
         link'[k].toAgent = IF Carries(k) THEN Append(link[k].toAgent, m) ELSE link[k].toAgent,
         UNCHANGED <<conn, cipher, call, agentVars, dials>>
  PROVE  ConnInv'
<1>1. handler[k].token \in Tokens /\ ~Answered(k) /\ Answered(k)'
  BY DEF ConnInv, HandlerStages, Answered
<1>2. link[k].toAgent = <<>>
  BY <1>1 DEF ConnInv, ToAgentOrder, ToAgentInOrder
<1>3. link'[k].toAgent = IF Carries(k) THEN <<m>> ELSE <<>>
  BY <1>2
<1>4. Carries(k) => link[k].agentOpen /\ agent[link[k].owner].pc = "auth"
  BY <1>1 DEF ConnInv, AgentsHoldLinks, AfterTheAnswer, Carries
<1>5. \A j \in Conns : j # k => (Answered(j)' <=> Answered(j))
  BY DEF Answered
<1>6. AgentsHoldLinks'
  <2>1. ~link[k].agentOpen => link'[k].toAgent = <<>>
    BY <1>3 DEF Carries
  <2>2. \A j \in Conns : /\ link'[j].owner = link[j].owner
                         /\ link'[j].agentOpen = link[j].agentOpen
    OBVIOUS
  <2>3. UNCHANGED agent
    BY DEF agentVars
  <2>4. \A b \in Agents :
          /\ agent'[b].pc \in {"auth", "run"} => /\ agent'[b].conn \in Conns
                                                 /\ link'[agent'[b].conn].owner = b
                                                 /\ link'[agent'[b].conn].agentOpen
          /\ agent'[b].pc # "off" => agent'[b].token \in Tokens
    BY <2>2, <2>3 DEF ConnInv, AgentsHoldLinks
  <2>5. \A j \in Conns :
          link'[j].agentOpen => /\ link'[j].owner \in Agents
                                /\ agent'[link'[j].owner].pc \in {"auth", "run"}
                                /\ agent'[link'[j].owner].conn = j
    BY <2>2, <2>3 DEF ConnInv, AgentsHoldLinks
  <2>6. ASSUME NEW j \in Conns, ~link'[j].agentOpen PROVE link'[j].toAgent = <<>>
    <3>1. CASE j = k
      BY <2>1, <2>2, <2>6, <3>1
    <3>2. CASE j # k
      BY <2>6, <3>2 DEF ConnInv, AgentsHoldLinks
    <3> QED
      BY <3>1, <3>2
  <2> QED
    BY <2>4, <2>5, <2>6 DEF AgentsHoldLinks
<1>7. DialsInOrder' /\ HandlerStages'
  BY <1>1 DEF ConnInv, DialsInOrder, HandlerStages
<1>8. ToServerOrder'
  <2>1. ToServerInOrder(k)'
    BY DEF ConnInv, ToServerOrder, ToServerInOrder
  <2>2. ASSUME NEW j \in Conns, j # k PROVE ToServerInOrder(j)'
    BY <2>2 DEF ConnInv, ToServerOrder, ToServerInOrder
  <2> QED
    BY <2>1, <2>2 DEF ToServerOrder
<1>9. ToAgentOrder'
  <2>1. ToAgentInOrder(k)'
    <3>1. agent'[link'[k].owner] = agent[link[k].owner] /\ (Carries(k)' => Carries(k))
      BY DEF agentVars, Carries
    <3>2. CASE Carries(k)
      <4>1. Len(link'[k].toAgent) = 1 /\ link'[k].toAgent[1] = m /\ link'[k].toAgent # <<>>
        BY <1>3, <3>2
      <4>2. \A i \in 1..Len(link'[k].toAgent) : i = 1
        <5>1. \A i \in 1..1 : i = 1
          OBVIOUS
        <5> QED
          BY ONLY <4>1, <5>1
      <4> QED
        BY <1>1, <1>4, <3>1, <3>2, <4>1, <4>2 DEF ToAgentInOrder
    <3>3. CASE ~Carries(k)
      <4>1. link'[k].toAgent = <<>>
        BY <1>3, <3>3
      <4> QED
        BY <3>1, <3>3, <4>1 DEF ToAgentInOrder
    <3> QED
      BY <3>2, <3>3
  <2>2. ASSUME NEW j \in Conns, j # k PROVE ToAgentInOrder(j)'
    BY <1>5, <2>2 DEF ConnInv, ToAgentOrder, ToAgentInOrder, Carries, agentVars
  <2> QED
    BY <2>1, <2>2 DEF ToAgentOrder
<1>10. AfterTheAnswer'
  BY <1>1, <1>5 DEF ConnInv, AfterTheAnswer, AgentsHoldLinks, LocalTypeOK, AgentTypeOK, agentVars
<1>11. SameTokens'
  BY DEF ConnInv, SameTokens, HasTokensOf, AgentsHoldLinks, Hello, agentVars
<1>12. HeldByItsHandler' /\ CipherWithConn'
  BY DEF ConnInv, HeldByItsHandler, CipherWithConn, LocalTypeOK, ServerTypeOK
<1>13. SameKey' /\ CallNumbered'
  BY DEF ConnInv, SameKey, CallNumbered, agentVars
<1> QED
  BY <1>6, <1>7, <1>8, <1>9, <1>10, <1>11, <1>12, <1>13 DEF ConnInv

LEMMA AppendAnswer ==
  ASSUME LocalTypeOK, NEW k \in Conns, NEW m \in AuthResult
  PROVE  LET l == ToAgent(k, m) IN
         /\ l \in [Conns -> LinkType]
         /\ \A j \in Conns : j # k => l[j] = link[j]
         /\ l[k].owner = link[k].owner /\ l[k].agentOpen = link[k].agentOpen
         /\ l[k].up = link[k].up /\ l[k].serverOpen = link[k].serverOpen
         /\ l[k].toServer = link[k].toServer
         /\ l[k].toAgent = IF Carries(k) THEN Append(link[k].toAgent, m) ELSE link[k].toAgent
<1>1. link[k].toAgent \in Seq(AuthResult \cup Request)
  BY DEF LocalTypeOK, LinkTypeOK, LinkType
<1>2. Append(link[k].toAgent, m) \in Seq(AuthResult \cup Request)
  BY <1>1
<1>3. CASE Carries(k)
  <2>1. ToAgent(k, m) = [link EXCEPT ![k].toAgent = Append(link[k].toAgent, m)]
    BY <1>3 DEF ToAgent, LocalTypeOK, LinkTypeOK
  <2> QED
    BY <1>2, <1>3, <2>1, ZenonT(40) DEF LocalTypeOK, LinkTypeOK, LinkType
<1>4. CASE ~Carries(k)
  <2>1. ToAgent(k, m) = [link EXCEPT ![k].toAgent = link[k].toAgent]
    BY <1>4 DEF ToAgent, LocalTypeOK, LinkTypeOK
  <2> QED
    BY <1>1, <1>4, <2>1 DEF LocalTypeOK, LinkTypeOK, LinkType
<1> QED
  BY <1>3, <1>4

LEMMA RejectCodeKeepsInv ==
  ASSUME LocalTypeOK, ConnInv, NEW k \in Conns, RejectCode(k)
  PROVE  LocalTypeOK' /\ ConnInv'
<1> DEFINE m == [type |-> "result", accepted |-> FALSE, session |-> NoToken]
           answered == ToAgent(k, m)
<1>1. /\ handler[k].pc = "code"
      /\ handler' = [handler EXCEPT ![k].pc = "done"]
      /\ link' = [answered EXCEPT ![k] = ServerClosed(@)]
      /\ UNCHANGED <<conn, cipher, codeFile, callVars, agentVars, dials, faults>>
  BY DEF RejectCode
<1>2. m \in AuthResult
  BY DEF AuthResult
<1>3. /\ answered \in [Conns -> LinkType]
      /\ \A j \in Conns : j # k => answered[j] = link[j]
      /\ answered[k].owner = link[k].owner /\ answered[k].agentOpen = link[k].agentOpen
      /\ answered[k].up = link[k].up
      /\ answered[k].toAgent = IF Carries(k) THEN Append(link[k].toAgent, m) ELSE link[k].toAgent
  BY <1>2, AppendAnswer
<1> HIDE DEF m, answered
<1>4. link'[k] = ServerClosed(answered[k]) /\ \A j \in Conns : j # k => link'[j] = link[j]
  BY <1>1, <1>3
<1>5. /\ link'[k].owner = link[k].owner /\ link'[k].agentOpen = link[k].agentOpen
      /\ link'[k].up = link[k].up /\ ~link'[k].serverOpen /\ link'[k].toServer = <<>>
      /\ link'[k].toAgent = IF Carries(k) THEN Append(link[k].toAgent, m) ELSE link[k].toAgent
      /\ link' \in [Conns -> LinkType]
  BY <1>1, <1>3, <1>4, ServerClosedType
<1>6. /\ handler' \in [Conns -> HandlerType]
      /\ handler'[k].pc = "done"
      /\ handler'[k].token = handler[k].token /\ handler'[k].session = handler[k].session
      /\ \A j \in Conns : j # k => handler'[j] = handler[j]
  BY <1>1, HandlerPcType DEF HandlerPC
<1>7. LocalTypeOK'
  BY <1>1, <1>5, <1>6
     DEF LocalTypeOK, LinkTypeOK, ServerTypeOK, CallTypeOK, AgentTypeOK, callVars, agentVars
<1>8. ConnInv'
  BY <1>1, <1>2, <1>4, <1>5, <1>6, AnswerKeepsInv DEF callVars
<1> QED
  BY <1>7, <1>8

LEMMA AnswerHandshakeKeepsInv ==
  ASSUME LocalTypeOK, ConnInv, NEW k \in Conns, AnswerHandshake(k)
  PROVE  LocalTypeOK' /\ ConnInv'
<1> DEFINE m == [type |-> "result", accepted |-> TRUE, session |-> FreshToken]
<1>1. /\ handler[k].pc = "accepted"
      /\ CanDraw
      /\ handler' = [handler EXCEPT ![k].pc = "install"]
      /\ link' = ToAgent(k, m)
      /\ UNCHANGED <<conn, cipher, codeFile, callVars, agentVars, dials, faults>>
  BY DEF AnswerHandshake
<1>2. m \in AuthResult
  BY <1>1, FreshTokenIsFresh DEF AuthResult
<1> HIDE DEF m
<1>3. /\ link' \in [Conns -> LinkType]
      /\ \A j \in Conns : j # k => link'[j] = link[j]
      /\ link'[k].owner = link[k].owner /\ link'[k].agentOpen = link[k].agentOpen
      /\ link'[k].up = link[k].up /\ link'[k].serverOpen = link[k].serverOpen
      /\ link'[k].toServer = link[k].toServer
      /\ link'[k].toAgent = IF Carries(k) THEN Append(link[k].toAgent, m) ELSE link[k].toAgent
  BY <1>1, <1>2, AppendAnswer
<1>4. /\ handler' \in [Conns -> HandlerType]
      /\ handler'[k].pc = "install"
      /\ handler'[k].token = handler[k].token /\ handler'[k].session = handler[k].session
      /\ \A j \in Conns : j # k => handler'[j] = handler[j]
  BY <1>1, HandlerPcType DEF HandlerPC
<1>5. LocalTypeOK'
  BY <1>1, <1>3, <1>4
     DEF LocalTypeOK, LinkTypeOK, ServerTypeOK, CallTypeOK, AgentTypeOK, callVars, agentVars
<1>6. ConnInv'
  BY <1>1, <1>2, <1>3, <1>4, AnswerKeepsInv DEF callVars
<1> QED
  BY <1>5, <1>6

-----------------------------------------------------------------------------
(* The theorems. *)

LEMMA InitInv == Init => LocalTypeOK /\ ConnInv
<1> SUFFICES ASSUME Init PROVE LocalTypeOK /\ ConnInv
  OBVIOUS
<1>1. ServerTypeOK /\ CallTypeOK
  BY DEF Init, ServerTypeOK, CallTypeOK, HandlerType, HandlerPC, CallPC
<1>2. AgentTypeOK
  BY DEF Init, AgentTypeOK, AgentType, AgentPC
<1>3. LinkTypeOK
  BY TransportAssumption DEF Init, LinkTypeOK, LinkType
<1>4. DialsInOrder /\ AgentsHoldLinks /\ HandlerStages /\ CallNumbered
  BY DEF Init, DialsInOrder, AgentsHoldLinks, HandlerStages, CallNumbered
<1>5. ToServerOrder /\ ToAgentOrder
  BY DEF Init, ToServerOrder, ToServerInOrder, ToAgentOrder, ToAgentInOrder, Carries
<1>6. AfterTheAnswer /\ SameTokens /\ HeldByItsHandler /\ CipherWithConn /\ SameKey
  BY DEF Init, AfterTheAnswer, SameTokens, HeldByItsHandler, CipherWithConn, SameKey
<1> QED
  BY <1>1, <1>2, <1>3, <1>4, <1>5, <1>6 DEF LocalTypeOK, ConnInv

LEMMA NextKeepsInv == LocalTypeOK /\ ConnInv /\ [Next]_vars => LocalTypeOK' /\ ConnInv'
<1> SUFFICES ASSUME LocalTypeOK, ConnInv, [Next]_vars PROVE LocalTypeOK' /\ ConnInv'
  OBVIOUS
<1>1. CASE StartServer \/ Tick \/ UNCHANGED vars
  BY <1>1, OutsideKeepsInv
<1>2. CASE StartCall \/ Call \/ Interrupt
  BY <1>2, CallKeepsInv, EncryptPanicsKeepsInv, WriteRequestKeepsInv, WriteCancelledKeepsInv
     DEF Call
<1>3. CASE \E k \in Conns : Handle(k)
  <2>1. PICK k \in Conns : Handle(k)
    BY <1>3
  <2>2. CASE HandshakeLost(k)
    BY <2>2, GiveUpHandshakeKeepsInv DEF HandshakeLost
  <2>3. CASE CheckSession(k)
    BY <2>3, CheckSessionKeepsInv
  <2>4. CASE RejectCode(k)
    BY <2>4, RejectCodeKeepsInv
  <2>5. CASE AnswerHandshake(k)
    BY <2>5, AnswerHandshakeKeepsInv
  <2>6. CASE \/ AcceptCode(k) \/ Install(k) \/ AgentConnected(k) \/ Teardown(k)
             \/ AgentDisconnected(k) \/ Pong(k)
    BY <2>6, QuietMoveKeepsInv
  <2>7. CASE ReadMessage(k)
    BY <2>7, ReadMessageKeepsInv
  <2>8. CASE Decrypt(k) \/ DecryptPanics(k)
    BY <2>8, DecryptKeepsInv
  <2>9. CASE ReadFails(k)
    BY <2>9, ReadFailsKeepsInv
  <2> QED
    BY <2>1, <2>2, <2>3, <2>4, <2>5, <2>6, <2>7, <2>8, <2>9 DEF Handle
<1>4. CASE \E k \in Conns : HandshakeTimeout(k) \/ Lose(k) \/ ReadPing(k)
  BY <1>4, GiveUpHandshakeKeepsInv, LoseKeepsInv, QuietMoveKeepsInv DEF HandshakeTimeout
<1>5. CASE \E a \in Agents : \/ StartAgent(a) \/ Agent(a) \/ DialFails(a) \/ AuthTimeout(a)
                             \/ Quit(a)
  <2>1. PICK a \in Agents : \/ StartAgent(a) \/ Agent(a) \/ DialFails(a) \/ AuthTimeout(a)
                            \/ Quit(a)
    BY <1>5
  <2>2. CASE StartAgent(a)
    BY <2>2, StartAgentKeepsInv
  <2>3. CASE Dial(a)
    BY <2>3, DialKeepsInv
  <2>4. CASE NoServer(a) \/ DialFails(a)
    BY <2>4, FailedDialKeepsInv DEF NoServer, DialFails
  <2>5. CASE Connected(a)
    BY <2>5, ConnectedKeepsInv
  <2>6. CASE Refused(a)
    BY <2>6, ClosingKeepsInv DEF Refused
  <2>7. CASE AuthResultLost(a) \/ AuthTimeout(a)
    BY <2>7, ClosingKeepsInv DEF AuthResultLost, AuthTimeout, GiveUpAuth
  <2>8. CASE ReadRequest(a)
    BY <2>8, ReadRequestKeepsInv
  <2>9. CASE ConnectionLost(a)
    BY <2>9, ClosingKeepsInv DEF ConnectionLost
  <2>10. CASE Quit(a)
    BY <2>10, QuitKeepsInv
  <2> QED
    BY <2>1, <2>2, <2>3, <2>4, <2>5, <2>6, <2>7, <2>8, <2>9, <2>10 DEF Agent
<1>6. CASE \E w \in workers : Respond(w)
  BY <1>6, RespondKeepsInv
<1> QED
  BY <1>1, <1>2, <1>3, <1>4, <1>5, <1>6 DEF Next

(* The inductive invariant of the whole system. *)
IInv == LocalTypeOK /\ ConnInv /\ AuthProofs!IInv

LEMMA NextKeepsIInv == IInv /\ [Next]_vars => IInv'
<1> SUFFICES ASSUME IInv, [Next]_vars PROVE IInv'
  OBVIOUS
<1>1. [Auth!Next]_authVars
  BY StepIsAuthStep DEF IInv, ConnInv
<1> QED
  BY <1>1, NextKeepsInv, AuthInvStep DEF IInv

THEOREM IInvHolds == Spec => []IInv
<1>1. Init => IInv
  BY InitInv, AuthInvInit DEF IInv
<1> QED
  BY <1>1, NextKeepsIInv, PTL DEF Spec

LEMMA IInvGivesTypes == IInv => TypeOK
<1> SUFFICES ASSUME IInv PROVE TypeOK
  OBVIOUS
<1>1. Auth!TypeOK
  BY DEF IInv, AuthProofs!IInv, AuthProofs!TypeOK, Auth!TypeOK,
         AuthProofs!ConnectionCode, Auth!ConnectionCode, AuthProofs!SessionToken,
         Auth!SessionToken, AuthProofs!Issue, Auth!Issue
<1> QED
  BY <1>1 DEF IInv, LocalTypeOK, TypeOK

(* The state of the server, the MCP loop, the agents and the network always  *)
(* has its declared shape: every read of a connection finds a message of    *)
(* the kind the reader expects.                                             *)
THEOREM TypeCorrect == Spec => []TypeOK
BY IInvHolds, IInvGivesTypes, PTL

(* Server.conn and Server.cipher always belong to the same connection.       *)
THEOREM CipherMatchesConn == Spec => []CipherWithConn
BY IInvHolds, PTL DEF IInv, ConnInv

(* The server only ever holds a connection whose handler still serves it.    *)
THEOREM HeldConnIsServed == Spec => []HeldByItsHandler
BY IInvHolds, PTL DEF IInv, ConnInv

(* Whatever session tokens are replaced, expired or lost with an answer,     *)
(* server and agent derive the key of a connection from the same secret.     *)
THEOREM KeysAgree == Spec => []SameKey
BY IInvHolds, PTL DEF IInv, ConnInv

(* Every history of the system is a history of the authentication manager.   *)
THEOREM AuthManagerIsUsed == Spec => UsesAuthManager
<1>1. IInv /\ [Next]_vars => [Auth!Next]_(Auth!authVars)
  <2> SUFFICES ASSUME IInv, [Next]_vars PROVE Auth!Next \/ UNCHANGED Auth!authVars
    OBVIOUS
  <2>1. Auth!Next \/ UNCHANGED authVars
    BY StepIsAuthStep DEF IInv, ConnInv
  <2>2. UNCHANGED authVars => UNCHANGED Auth!authVars
    BY DEF authVars, Auth!authVars
  <2> QED
    BY <2>1, <2>2
<1>2. Init => Auth!Init
  BY DEF Init
<1> QED
  BY <1>1, <1>2, IInvHolds, PTL DEF Spec, UsesAuthManager, Auth!Spec
==============================================================================
