---------------------------- MODULE SessionProofs ----------------------------
(***************************************************************************)
(* Proofs about what the sessions of agents are for, with any number of    *)
(* agents, connections, requests and faults: who gets one, and what        *)
(* travels over it.                                                        *)
(*                                                                         *)
(* A connection code connects one agent (OneAgentPerCode): an agent has a   *)
(* claim once it has a session or one of its handshakes was accepted.  A    *)
(* first claim costs the one acceptance of the agent's code, so no two      *)
(* agents with the same code have one.                                      *)
(*                                                                         *)
(* A session token reconnects its agent until it expires                    *)
(* (SessionReconnects): whoever carries a session token carries one that    *)
(* the server issued and never revoked.                                     *)
(*                                                                         *)
(* A remote call over the transport is a remote call                        *)
(* (ImplementsRemoteCall), and a read loop never blocks on a response       *)
(* channel (DeliveryNeverBlocks): a request is in one place at a time,      *)
(* first on its way to an agent, later, once it ran, with a worker or as an *)
(* answer.                                                                  *)
(***************************************************************************)
EXTENDS TransportProofs

USE DEF NoConn, Conns, Requests, OptToken

-----------------------------------------------------------------------------
(* The tokens that agents and handlers carry.                                *)

(* The message m is on its way to the server, or to the agent. *)
ToldServer(k, m) == \E i \in 1..Len(link[k].toServer) : link[k].toServer[i] = m

ToldAgent(k, m) == \E i \in 1..Len(link[k].toAgent) : link[k].toAgent[i] = m

Welcome == {m \in AuthResult : m.accepted}

AdmittedPC == {"accepted", "install", "notify", "reading", "decrypt", "ping", "teardown",
               "leave", "panicked"}

LetIn(k) == handler[k].pc \in AdmittedPC \/ \E m \in Welcome : ToldAgent(k, m)

HasClaim(a) ==
  agent[a].session # NoToken \/ \E k \in Conns : link[k].owner = a /\ LetIn(k)

(* Connections belong to agents that were started. *)
OwnersStarted ==
  /\ \A k \in Conns : handler[k].pc # "none" => /\ link[k].owner \in Agents
                                                /\ agent[link[k].owner].pc # "off"
  /\ \A a \in Agents : agent[a].pc = "off" => agent[a].session = NoToken

(* A handshake has the one-time token of its agent, and a session token only *)
(* if the agent has one too.                                                *)
TokensOf(a, m) ==
  /\ m.token = agent[a].token
  /\ m.session # NoToken => agent[a].session # NoToken

OwnTokens ==
  \A k \in Conns :
    /\ handler[k].token # NoToken => TokensOf(link[k].owner, handler[k])
    /\ handler[k].pc = "auth" =>
         \A m \in Handshake : ToldServer(k, m) => TokensOf(link[k].owner, m)

WelcomeWithSession ==
  \A k \in Conns : \A m \in Welcome : ToldAgent(k, m) => m.session \in Tokens

ClaimsPaid == \A a \in Agents : HasClaim(a) => accepts[agent[a].token] # 0

ClaimsApart ==
  \A a, b \in Agents : a # b /\ HasClaim(a) /\ HasClaim(b) => agent[a].token # agent[b].token

ClaimInv == OwnersStarted /\ OwnTokens /\ WelcomeWithSession /\ ClaimsPaid /\ ClaimsApart

-----------------------------------------------------------------------------
(* Steps that give nobody a claim, and nobody a token.                       *)

CalmConn(k) ==
  /\ link'[k].owner = link[k].owner
  /\ handler'[k].token = handler[k].token /\ handler'[k].session = handler[k].session
  /\ handler'[k].pc # "none" => handler[k].pc # "none"
  /\ handler'[k].pc = "auth" => /\ handler[k].pc = "auth"
                                /\ \A m \in Handshake : ToldServer(k, m)' => ToldServer(k, m)
  /\ handler'[k].pc \in AdmittedPC => handler[k].pc \in AdmittedPC
  /\ \A m \in Welcome : ToldAgent(k, m)' => ToldAgent(k, m)

CalmAgent(a) ==
  /\ agent'[a].token = agent[a].token /\ agent'[a].session = agent[a].session
  /\ agent'[a].pc = "off" <=> agent[a].pc = "off"

LEMMA CalmStep ==
  ASSUME ConnInv, ClaimInv, \A k \in Conns : CalmConn(k), \A a \in Agents : CalmAgent(a),
         accepts' = accepts
  PROVE  ClaimInv'
<1>1. OwnersStarted'
  BY DEF ClaimInv, OwnersStarted, CalmConn, CalmAgent
<1>2. OwnTokens'
  <2> SUFFICES ASSUME NEW k \in Conns
               PROVE  /\ handler'[k].token # NoToken => TokensOf(link[k].owner, handler[k])'
                      /\ handler'[k].pc = "auth" =>
                           \A m \in Handshake : ToldServer(k, m)' => TokensOf(link[k].owner, m)'
    BY DEF OwnTokens
  <2>1. CASE handler[k].pc = "none"
    BY <2>1 DEF CalmConn, ConnInv, HandlerStages
  <2>2. CASE handler[k].pc # "none"
    <3>1. CalmAgent(link[k].owner)
      BY <2>2 DEF ClaimInv, OwnersStarted
    <3> QED
      BY <3>1 DEF ClaimInv, OwnTokens, CalmConn, CalmAgent, TokensOf
  <2> QED
    BY <2>1, <2>2
<1>3. WelcomeWithSession'
  BY DEF ClaimInv, WelcomeWithSession, CalmConn
<1>4. \A a \in Agents : HasClaim(a)' => HasClaim(a)
  BY DEF HasClaim, LetIn, CalmConn, CalmAgent
<1>5. ClaimsPaid' /\ ClaimsApart'
  BY <1>4 DEF ClaimInv, ClaimsPaid, ClaimsApart, CalmAgent
<1> QED
  BY <1>1, <1>2, <1>3, <1>5 DEF ClaimInv

LEMMA SameAgents == UNCHANGED agent => \A a \in Agents : CalmAgent(a)
BY DEF CalmAgent

(* One connection's handler moves on; the messages on their way, at most     *)
(* fewer, are those of before.                                              *)
LEMMA OneConnMoves ==
  ASSUME LocalTypeOK, NEW k \in Conns,
         \A j \in Conns : j # k => handler'[j] = handler[j] /\ link'[j] = link[j],
         link'[k].owner = link[k].owner,
         handler'[k].token = handler[k].token, handler'[k].session = handler[k].session,
         handler[k].pc # "none", handler'[k].pc # "auth",
         handler'[k].pc \in AdmittedPC => handler[k].pc \in AdmittedPC,
         \A m \in Welcome : ToldAgent(k, m)' => ToldAgent(k, m)
  PROVE  \A j \in Conns : CalmConn(j)
<1>1. CalmConn(k)
  BY DEF CalmConn
<1>2. ASSUME NEW j \in Conns, j # k PROVE CalmConn(j)
  BY <1>2 DEF CalmConn, ToldServer, ToldAgent
<1> QED
  BY <1>1, <1>2

(* The handler of k moves on to p, with the message x if it keeps one. *)
GoesOn(k, p, x) ==
  \/ handler' = [handler EXCEPT ![k].pc = p]
  \/ handler' = [handler EXCEPT ![k] = [@ EXCEPT !.pc = p, !.msg = x]]

LEMMA NextStage ==
  ASSUME LocalTypeOK, NEW k \in Conns, NEW p, NEW x, GoesOn(k, p, x)
  PROVE  /\ handler'[k].token = handler[k].token /\ handler'[k].session = handler[k].session
         /\ handler'[k].pc = p
         /\ \A j \in Conns : j # k => handler'[j] = handler[j]
<1>1. handler \in [Conns -> HandlerType]
  BY DEF LocalTypeOK, ServerTypeOK
<1>2. CASE handler' = [handler EXCEPT ![k].pc = p]
  BY <1>1, <1>2 DEF HandlerType
<1>3. CASE handler' = [handler EXCEPT ![k] = [@ EXCEPT !.pc = p, !.msg = x]]
  BY <1>1, <1>3 DEF HandlerType
<1> QED
  BY <1>2, <1>3 DEF GoesOn

(* Handler steps that leave the network alone. *)
LEMMA HandlerMovesCalmly ==
  ASSUME LocalTypeOK, NEW k \in Conns,
         Install(k) \/ AgentConnected(k) \/ AgentDisconnected(k) \/ Decrypt(k)
           \/ ReadPing(k) \/ Pong(k) \/ DecryptPanics(k) \/ Teardown(k)
  PROVE  \A j \in Conns : CalmConn(j)
<1>1. UNCHANGED link /\ handler[k].pc \in AdmittedPC
  BY DEF Install, AgentConnected, AgentDisconnected, Decrypt, ReadPing, Pong, DecryptPanics,
         Teardown, AdmittedPC
<1>2. PICK p \in {"notify", "reading", "ping", "leave", "done", "panicked"} : GoesOn(k, p, NoMsg)
  BY DEF Install, AgentConnected, AgentDisconnected, Decrypt, ReadPing, Pong, DecryptPanics,
         Teardown, GoesOn
<1>3. \A m \in Welcome : ToldAgent(k, m)' => ToldAgent(k, m)
  BY <1>1 DEF ToldAgent
<1>4. handler[k].pc # "none"
  BY <1>1 DEF AdmittedPC
<1>5. /\ handler'[k].token = handler[k].token /\ handler'[k].session = handler[k].session
      /\ handler'[k].pc = p
      /\ \A j \in Conns : j # k => handler'[j] = handler[j]
  BY <1>2, NextStage
<1> QED
  BY <1>1, <1>3, <1>4, <1>5, OneConnMoves

(* Handler steps that close the server's end of the connection or read from *)
(* it.                                                                      *)
LEMMA HandlerReadsCalmly ==
  ASSUME LocalTypeOK, NEW k \in Conns,
         GiveUpHandshake(k) \/ ReadMessage(k) \/ ReadFails(k)
  PROVE  \A j \in Conns : CalmConn(j)
<1>1. /\ handler[k].pc \in {"auth", "reading"}
      /\ \/ link' = [link EXCEPT ![k] = ServerClosed(@)]
         \/ link' = [link EXCEPT ![k].toServer = Tail(@)]
      /\ \/ handler' = handler /\ handler[k].pc = "reading"
         \/ \E p \in {"done", "teardown", "decrypt"} :
              /\ p # "done" => handler[k].pc = "reading"
              /\ GoesOn(k, p, Head(link[k].toServer))
  BY DEF GiveUpHandshake, ReadMessage, ReadFails, GoesOn
<1>2. /\ handler'[k].token = handler[k].token /\ handler'[k].session = handler[k].session
      /\ handler'[k].pc # "auth"
      /\ handler'[k].pc \in AdmittedPC => handler[k].pc = "reading"
      /\ \A j \in Conns : j # k => handler'[j] = handler[j]
  <2>1. CASE handler' = handler /\ handler[k].pc = "reading"
    BY <2>1
  <2>2. ASSUME NEW p \in {"done", "teardown", "decrypt"},
               p # "done" => handler[k].pc = "reading",
               GoesOn(k, p, Head(link[k].toServer))
        PROVE  /\ handler'[k].token = handler[k].token /\ handler'[k].session = handler[k].session
               /\ handler'[k].pc # "auth"
               /\ handler'[k].pc \in AdmittedPC => handler[k].pc = "reading"
               /\ \A j \in Conns : j # k => handler'[j] = handler[j]
    <3>1. /\ handler'[k].token = handler[k].token /\ handler'[k].session = handler[k].session
          /\ handler'[k].pc = p
          /\ \A j \in Conns : j # k => handler'[j] = handler[j]
      BY <2>2, NextStage
    <3> QED
      BY <2>2, <3>1 DEF AdmittedPC
  <2> QED
    BY <1>1, <2>1, <2>2
<1>3. /\ link'[k].owner = link[k].owner /\ link'[k].toAgent = link[k].toAgent
      /\ \A j \in Conns : j # k => link'[j] = link[j]
  BY <1>1 DEF LocalTypeOK, LinkTypeOK, LinkType, ServerClosed
<1>4. \A m \in Welcome : ToldAgent(k, m)' => ToldAgent(k, m)
  BY <1>3 DEF ToldAgent
<1>5. handler[k].pc # "none" /\ (handler[k].pc = "reading" => handler[k].pc \in AdmittedPC)
  BY <1>1 DEF AdmittedPC
<1> QED
  BY <1>2, <1>3, <1>4, <1>5, OneConnMoves

-----------------------------------------------------------------------------
(* Steps of the network and of the MCP loop. *)

LEMMA LinksCalm ==
  ASSUME UNCHANGED handler,
         \A j \in Conns :
           /\ link'[j].owner = link[j].owner
           /\ handler[j].pc = "auth" =>
                \A m \in Handshake : ToldServer(j, m)' => ToldServer(j, m)
           /\ \A m \in Welcome : ToldAgent(j, m)' => ToldAgent(j, m)
  PROVE  \A j \in Conns : CalmConn(j)
BY DEF CalmConn

(* Shorter queues say less. *)
LEMMA EmptyQueuesCalm ==
  ASSUME UNCHANGED handler,
         \A j \in Conns :
           /\ link'[j].owner = link[j].owner
           /\ link'[j].toServer \in {<<>>, link[j].toServer}
           /\ link'[j].toAgent \in {<<>>, link[j].toAgent}
  PROVE  \A j \in Conns : CalmConn(j)
<1>1. ASSUME NEW j \in Conns, NEW m
      PROVE  /\ ToldServer(j, m)' => ToldServer(j, m)
             /\ ToldAgent(j, m)' => ToldAgent(j, m)
  <2>1. link'[j].toServer = <<>> => ~ToldServer(j, m)'
    BY DEF ToldServer
  <2>2. link'[j].toAgent = <<>> => ~ToldAgent(j, m)'
    BY DEF ToldAgent
  <2> QED
    BY <2>1, <2>2 DEF ToldServer, ToldAgent
<1> QED
  BY <1>1, LinksCalm

LEMMA LoseCalm ==
  ASSUME LocalTypeOK, NEW k \in Conns, Lose(k)
  PROVE  \A j \in Conns : CalmConn(j)
<1>1. PICK c \in Cut(link[k]) : link' = [link EXCEPT ![k] = c]
  BY DEF Lose
<1>2. UNCHANGED handler
  BY DEF Lose
<1>3. link[k] \in LinkType /\ link \in [Conns -> LinkType]
  BY DEF LocalTypeOK, LinkTypeOK
<1>4. /\ c.owner = link[k].owner
      /\ Len(link[k].toServer) \in Nat /\ Len(c.toServer) \in Nat
      /\ Len(c.toServer) <= Len(link[k].toServer)
      /\ \A i \in 1..Len(c.toServer) : c.toServer[i] = link[k].toServer[i]
      /\ Len(link[k].toAgent) \in Nat /\ Len(c.toAgent) \in Nat
      /\ Len(c.toAgent) <= Len(link[k].toAgent)
      /\ \A i \in 1..Len(c.toAgent) : c.toAgent[i] = link[k].toAgent[i]
  BY <1>3, CutFacts
<1>5. link'[k] = c /\ \A j \in Conns : j # k => link'[j] = link[j]
  BY <1>1, <1>3
<1>6. ASSUME NEW x PROVE  /\ ToldServer(k, x)' => ToldServer(k, x)
                          /\ ToldAgent(k, x)' => ToldAgent(k, x)
  <2>1. ASSUME ToldServer(k, x)' PROVE ToldServer(k, x)
    <3>1. PICK i \in 1..Len(c.toServer) : c.toServer[i] = x
      BY <1>5, <2>1 DEF ToldServer
    <3>2. i \in 1..Len(link[k].toServer) /\ link[k].toServer[i] = x
      BY <1>4, <3>1
    <3> QED
      BY <3>2 DEF ToldServer
  <2>2. ASSUME ToldAgent(k, x)' PROVE ToldAgent(k, x)
    <3>1. PICK i \in 1..Len(c.toAgent) : c.toAgent[i] = x
      BY <1>5, <2>2 DEF ToldAgent
    <3>2. i \in 1..Len(link[k].toAgent) /\ link[k].toAgent[i] = x
      BY <1>4, <3>1
    <3> QED
      BY <3>2 DEF ToldAgent
  <2> QED
    BY <2>1, <2>2
<1>7. ASSUME NEW j \in Conns, j # k, NEW x
      PROVE  /\ ToldServer(j, x)' => ToldServer(j, x)
             /\ ToldAgent(j, x)' => ToldAgent(j, x)
  BY <1>5, <1>7 DEF ToldServer, ToldAgent
<1> QED
  BY <1>2, <1>4, <1>5, <1>6, <1>7, LinksCalm

(* What is appended to a queue is the only news in it. *)
LEMMA AppendSays ==
  ASSUME NEW S, NEW s \in Seq(S), NEW m \in S, NEW x, x # m,
         NEW i \in 1..Len(Append(s, m)), Append(s, m)[i] = x
  PROVE  i \in 1..Len(s) /\ s[i] = x
OBVIOUS

LEMMA ToAgentCalm ==
  ASSUME LocalTypeOK, UNCHANGED handler, NEW k \in Conns, NEW m \in AuthResult \cup Request,
         m \notin Welcome, link' = ToAgent(k, m)
  PROVE  \A j \in Conns : CalmConn(j)
<1>1. link[k].toAgent \in Seq(AuthResult \cup Request)
  BY DEF LocalTypeOK, LinkTypeOK, LinkType
<1>2. /\ \A j \in Conns : /\ link'[j].owner = link[j].owner
                          /\ link'[j].toServer = link[j].toServer
      /\ \A j \in Conns : j # k => link'[j].toAgent = link[j].toAgent
      /\ link'[k].toAgent \in {link[k].toAgent, Append(link[k].toAgent, m)}
  BY DEF ToAgent, LocalTypeOK, LinkTypeOK, LinkType
<1>3. ASSUME NEW x \in Welcome, ToldAgent(k, x)' PROVE ToldAgent(k, x)
  <2>1. CASE link'[k].toAgent = link[k].toAgent
    BY <1>3, <2>1 DEF ToldAgent
  <2>2. CASE link'[k].toAgent = Append(link[k].toAgent, m)
    <3>1. PICK i \in 1..Len(Append(link[k].toAgent, m)) : Append(link[k].toAgent, m)[i] = x
      BY <1>3, <2>2 DEF ToldAgent
    <3> QED
      BY <1>1, <3>1, AppendSays DEF ToldAgent
  <2> QED
    BY <1>2, <2>1, <2>2
<1>4. \A j \in Conns, x \in Welcome : ToldAgent(j, x)' => ToldAgent(j, x)
  <2>1. ASSUME NEW j \in Conns, j # k, NEW x, ToldAgent(j, x)' PROVE ToldAgent(j, x)
    BY <1>2, <2>1 DEF ToldAgent
  <2> QED
    BY <1>3, <2>1
<1>5. \A j \in Conns, x \in Handshake : ToldServer(j, x)' => ToldServer(j, x)
  BY <1>2 DEF ToldServer
<1> QED
  BY <1>2, <1>4, <1>5, LinksCalm

(* The request m goes to k, as far as the link carries it; what was there     *)
(* before stays or is lost.                                                  *)
RequestGoes(k, m) ==
  /\ \A j \in Conns : j # k => link'[j] = link[j]
  /\ link'[k].owner = link[k].owner
  /\ Leaves(k, m, link'[k].toAgent)
  /\ \A i \in 1..Len(link'[k].toServer) :
       i \in 1..Len(link[k].toServer) /\ link'[k].toServer[i] = link[k].toServer[i]

LEMMA RequestIsSent ==
  ASSUME LocalTypeOK, ConnInv, WriteRequest \/ WriteCancelled
  PROVE  \E k \in Conns, m \in Request : m.id = call.id /\ RequestGoes(k, m)
<1> DEFINE m == [type |-> "request", id |-> call.id, key |-> call.key]
<1>1. /\ call.pc = "write" /\ call.id \in Requests /\ conn # NoConn
      /\ \/ UNCHANGED link
         \/ link' = ToAgent(conn, m)
         \/ \E l \in Cut(ToAgent(conn, m)[conn]) : link' = [link EXCEPT ![conn] = l]
  BY DEF WriteRequest, WriteCancelled, ConnInv, CallNumbered
<1>2. m \in Request /\ m.id = call.id /\ conn \in Conns
  BY <1>1 DEF LocalTypeOK, CallTypeOK, ServerTypeOK, Request
<1> HIDE DEF m
<1>3. PICK k \in Conns : k = conn
  BY <1>2
<1> DEFINE sent == ToAgent(k, m)
<1>4. /\ sent \in [Conns -> LinkType]
      /\ \A j \in Conns : j # k => sent[j] = link[j]
      /\ sent[k].owner = link[k].owner
      /\ sent[k].toServer = link[k].toServer
      /\ Leaves(k, m, sent[k].toAgent)
  BY <1>2, AppendRequest
<1> HIDE DEF sent
<1>5. /\ link[k].toServer \in Seq(Handshake \cup Response)
      /\ link[k].toAgent \in Seq(AuthResult \cup Request)
      /\ link \in [Conns -> LinkType]
  BY DEF LocalTypeOK, LinkTypeOK, LinkType
<1> SUFFICES RequestGoes(k, m)
  BY <1>2
<1>6. CASE UNCHANGED link
  <2>1. Leaves(k, m, link'[k].toAgent)
    BY <1>5, <1>6 DEF Leaves
  <2>2. link' = link
    BY <1>6
  <2>3. \A i \in 1..Len(link'[k].toServer) :
          i \in 1..Len(link[k].toServer) /\ link'[k].toServer[i] = link[k].toServer[i]
    BY <2>2
  <2> QED
    BY <2>1, <2>2, <2>3 DEF RequestGoes
<1>7. CASE link' = sent
  <2>1. Leaves(k, m, link'[k].toAgent)
    BY <1>4, <1>7
  <2>2. link'[k].owner = link[k].owner /\ link'[k].toServer = link[k].toServer
    BY <1>4, <1>7
  <2>3. \A j \in Conns : j # k => link'[j] = link[j]
    BY <1>4, <1>7
  <2>4. \A i \in 1..Len(link'[k].toServer) :
          i \in 1..Len(link[k].toServer) /\ link'[k].toServer[i] = link[k].toServer[i]
    BY <2>2
  <2> QED
    BY <2>1, <2>2, <2>3, <2>4 DEF RequestGoes
<1>8. CASE \E l \in Cut(sent[k]) : link' = [link EXCEPT ![k] = l]
  <2>1. PICK c \in Cut(sent[k]) : link' = [link EXCEPT ![k] = c]
    BY <1>8
  <2>2. sent[k] \in LinkType
    BY <1>4
  <2>3. /\ c.owner = sent[k].owner
        /\ Len(sent[k].toServer) \in Nat /\ Len(c.toServer) \in Nat
        /\ Len(c.toServer) <= Len(sent[k].toServer)
        /\ \A i \in 1..Len(c.toServer) : c.toServer[i] = sent[k].toServer[i]
        /\ Len(sent[k].toAgent) \in Nat /\ Len(c.toAgent) \in Nat
        /\ Len(c.toAgent) <= Len(sent[k].toAgent)
        /\ \A i \in 1..Len(c.toAgent) : c.toAgent[i] = sent[k].toAgent[i]
    BY <2>2, CutFacts
  <2>4. link'[k] = c /\ \A j \in Conns : j # k => link'[j] = link[j]
    BY <1>5, <2>1
  <2>5. Leaves(k, m, c.toAgent)
    <3> SUFFICES ASSUME NEW i \in 1..Len(c.toAgent)
                 PROVE  \/ i \in 1..Len(link[k].toAgent) /\ c.toAgent[i] = link[k].toAgent[i]
                        \/ Carries(k) /\ i = Len(link[k].toAgent) + 1 /\ c.toAgent[i] = m
      BY DEF Leaves
    <3>1. i \in 1..Len(sent[k].toAgent)
      BY <2>3
    <3>2. \/ i \in 1..Len(link[k].toAgent) /\ sent[k].toAgent[i] = link[k].toAgent[i]
          \/ Carries(k) /\ i = Len(link[k].toAgent) + 1 /\ sent[k].toAgent[i] = m
      BY <1>4, <3>1, Zenon DEF Leaves
    <3> QED
      BY <2>3, <3>2
  <2>6. \A i \in 1..Len(c.toServer) :
          i \in 1..Len(link[k].toServer) /\ c.toServer[i] = link[k].toServer[i]
    BY <1>4, <2>3
  <2>7. /\ link'[k].owner = link[k].owner
        /\ link'[k].toServer = c.toServer /\ link'[k].toAgent = c.toAgent
    BY <1>4, <2>3, <2>4
  <2>8. /\ Leaves(k, m, link'[k].toAgent)
        /\ \A i \in 1..Len(link'[k].toServer) :
             i \in 1..Len(link[k].toServer) /\ link'[k].toServer[i] = link[k].toServer[i]
    BY <2>5, <2>6, <2>7
  <2> QED
    BY <2>4, <2>7, <2>8 DEF RequestGoes
<1>9. \/ UNCHANGED link
      \/ link' = sent
      \/ \E l \in Cut(sent[k]) : link' = [link EXCEPT ![k] = l]
  BY <1>1, <1>3 DEF sent
<1> QED
  BY <1>6, <1>7, <1>8, <1>9

LEMMA CallCalm ==
  ASSUME LocalTypeOK, ConnInv, StartCall \/ Call \/ Interrupt
  PROVE  \A j \in Conns : CalmConn(j)
<1>1. UNCHANGED handler
  BY DEF StartCall, Call, TestCipher, Encrypt, EncryptPanics, WriteRequest, NotSent,
         WriteCancelled, ReceiveResponse, CallCancelled, Interrupt
<1>2. CASE UNCHANGED link
  BY <1>1, <1>2, EmptyQueuesCalm
<1>3. CASE EncryptPanics
  <2>1. \A j \in Conns : /\ link'[j].owner = link[j].owner
                         /\ link'[j].toServer = <<>>
                         /\ link'[j].toAgent = link[j].toAgent
    BY <1>3 DEF EncryptPanics, ServerClosed, LocalTypeOK, LinkTypeOK, LinkType
  <2> QED
    BY <1>1, <2>1, EmptyQueuesCalm
<1>4. CASE WriteRequest \/ WriteCancelled
  <2>1. PICK k \in Conns, m \in Request : RequestGoes(k, m)
    BY <1>4, RequestIsSent
  <2>2. m \notin Welcome
    BY DEF Request, AuthResult, Welcome
  <2>3. /\ \A j \in Conns : j # k => link'[j] = link[j]
        /\ link'[k].owner = link[k].owner
        /\ \A i \in 1..Len(link'[k].toServer) :
             i \in 1..Len(link[k].toServer) /\ link'[k].toServer[i] = link[k].toServer[i]
    BY <2>1 DEF RequestGoes
  <2>4. ASSUME NEW x, ToldServer(k, x)' PROVE ToldServer(k, x)
    BY <2>3, <2>4 DEF ToldServer
  <2>5. ASSUME NEW x \in Welcome, ToldAgent(k, x)' PROVE ToldAgent(k, x)
    <3>1. PICK i \in 1..Len(link'[k].toAgent) : link'[k].toAgent[i] = x
      BY <2>5 DEF ToldAgent
    <3>2. \/ i \in 1..Len(link[k].toAgent) /\ link'[k].toAgent[i] = link[k].toAgent[i]
          \/ link'[k].toAgent[i] = m
      BY <2>1, <3>1 DEF RequestGoes, Leaves
    <3> QED
      BY <2>2, <3>1, <3>2 DEF ToldAgent
  <2>6. ASSUME NEW j \in Conns, j # k, NEW x
        PROVE  /\ ToldServer(j, x)' => ToldServer(j, x)
               /\ ToldAgent(j, x)' => ToldAgent(j, x)
    BY <2>3, <2>6 DEF ToldServer, ToldAgent
  <2> QED
    BY <1>1, <2>3, <2>4, <2>5, <2>6, LinksCalm
<1> QED
  BY <1>2, <1>3, <1>4
     DEF StartCall, Call, TestCipher, Encrypt, NotSent, ReceiveResponse, CallCancelled, Interrupt

-----------------------------------------------------------------------------
(* Steps of the agents. *)

LEMMA RespondCalm ==
  ASSUME LocalTypeOK, ConnInv, NEW w \in workers, Respond(w)
  PROVE  \A j \in Conns : CalmConn(j)
<1>1. PICK k \in Conns : k = w.conn
  BY DEF LocalTypeOK, AgentTypeOK
<1>2. handler[k].pc # "auth" /\ UNCHANGED handler
  BY <1>1 DEF ConnInv, AfterTheAnswer, Answered, Respond
<1>3. /\ \A j \in Conns : link'[j].owner = link[j].owner /\ link'[j].toAgent = link[j].toAgent
      /\ \A j \in Conns : j # k => link'[j] = link[j]
  BY <1>1 DEF Respond, ToServer, LocalTypeOK, LinkTypeOK, LinkType
<1>4. \A j \in Conns, m \in Welcome : ToldAgent(j, m)' => ToldAgent(j, m)
  BY <1>3 DEF ToldAgent
<1>5. \A j \in Conns : handler[j].pc = "auth" =>
        \A m \in Handshake : ToldServer(j, m)' => ToldServer(j, m)
  BY <1>2, <1>3 DEF ToldServer
<1> QED
  BY <1>2, <1>3, <1>4, <1>5, LinksCalm

(* An agent that changes nothing but where it is. *)
LEMMA OneAgentMoves ==
  ASSUME NEW a \in Agents, \A b \in Agents : b # a => agent'[b] = agent[b],
         agent'[a].token = agent[a].token, agent'[a].session = agent[a].session,
         agent[a].pc # "off", agent'[a].pc # "off"
  PROVE  \A b \in Agents : CalmAgent(b)
BY DEF CalmAgent

LEMMA GiveUpCalm ==
  ASSUME LocalTypeOK, ConnInv, NEW a \in Agents,
         FailedDial(a) \/ GiveUpAuth(a) \/ Refused(a) \/ ConnectionLost(a) \/ Quit(a)
  PROVE  (\A j \in Conns : CalmConn(j)) /\ (\A b \in Agents : CalmAgent(b))
<1>1. agent[a].pc \in {"dial", "auth", "run"} /\ UNCHANGED handler
  BY DEF FailedDial, GiveUpAuth, Refused, ConnectionLost, Quit
<1>2. \/ agent' = [agent EXCEPT ![a] = ConnectFailed(@)]
      \/ agent' = [agent EXCEPT ![a] = [@ EXCEPT !.pc = "dial", !.conn = NoConn]]
      \/ agent' = [agent EXCEPT ![a] = [@ EXCEPT !.pc = "exited", !.conn = NoConn]]
  BY DEF FailedDial, GiveUpAuth, Refused, ConnectionLost, Quit
<1>3. /\ \A b \in Agents : b # a => agent'[b] = agent[b]
      /\ agent'[a].token = agent[a].token /\ agent'[a].session = agent[a].session
      /\ agent'[a].pc # "off"
  <2>1. agent \in [Agents -> AgentType]
    BY DEF LocalTypeOK, AgentTypeOK
  <2>2. CASE agent' = [agent EXCEPT ![a] = ConnectFailed(@)]
    <3>1. ConnectFailed(agent[a]).session = agent[a].session
      BY <2>1 DEF ConnectFailed, AgentType
    <3> QED
      BY <2>1, <2>2, <3>1, ConnectFailedType
  <2>3. CASE \/ agent' = [agent EXCEPT ![a] = [@ EXCEPT !.pc = "dial", !.conn = NoConn]]
             \/ agent' = [agent EXCEPT ![a] = [@ EXCEPT !.pc = "exited", !.conn = NoConn]]
    <3>1. agent[a] \in AgentType /\ \A b \in Agents : b # a => agent'[b] = agent[b]
      BY <2>1, <2>3
    <3>2. \/ agent'[a] = [agent[a] EXCEPT !.pc = "dial", !.conn = NoConn]
          \/ agent'[a] = [agent[a] EXCEPT !.pc = "exited", !.conn = NoConn]
      BY <2>1, <2>3
    <3> QED
      BY <3>1, <3>2 DEF AgentType
  <2> QED
    BY <1>2, <2>2, <2>3
<1>4. \A b \in Agents : CalmAgent(b)
  BY <1>1, <1>3, OneAgentMoves
<1>5. \A j \in Conns : link'[j] \in {link[j], AgentClosed(link[j])}
  <2>1. \/ UNCHANGED link
        \/ link' = [link EXCEPT ![agent[a].conn] = AgentClosed(@)]
        \/ link' = [k \in Conns |-> IF link[k].owner = a THEN AgentClosed(link[k]) ELSE link[k]]
    BY DEF FailedDial, GiveUpAuth, Refused, ConnectionLost, Quit
  <2>2. link \in [Conns -> LinkType]
    BY DEF LocalTypeOK, LinkTypeOK
  <2> QED
    BY <2>1, <2>2
<1>6. \A j \in Conns : /\ link'[j].owner = link[j].owner
                       /\ link'[j].toServer \in {<<>>, link[j].toServer}
                       /\ link'[j].toAgent \in {<<>>, link[j].toAgent}
  <2>1. \A j \in Conns : link[j] \in LinkType
    BY DEF LocalTypeOK, LinkTypeOK
  <2>2. \A j \in Conns : /\ AgentClosed(link[j]).owner = link[j].owner
                         /\ AgentClosed(link[j]).toServer = link[j].toServer
                         /\ AgentClosed(link[j]).toAgent = <<>>
    BY <2>1, AgentClosedType
  <2> QED
    BY <1>5, <2>2
<1> QED
  BY <1>1, <1>4, <1>6, EmptyQueuesCalm

LEMMA ReadsFromServer ==
  ASSUME LocalTypeOK, UNCHANGED handler, NEW k \in Conns, link[k].toAgent # <<>>,
         link' = [link EXCEPT ![k].toAgent = Tail(@)]
  PROVE  \A j \in Conns : CalmConn(j)
<1>1. link[k].toAgent \in Seq(AuthResult \cup Request)
  BY DEF LocalTypeOK, LinkTypeOK, LinkType
<1>2. /\ link'[k].toAgent = Tail(link[k].toAgent)
      /\ \A j \in Conns : j # k => link'[j].toAgent = link[j].toAgent
      /\ \A j \in Conns : link'[j].owner = link[j].owner /\ link'[j].toServer = link[j].toServer
  BY DEF LocalTypeOK, LinkTypeOK, LinkType
<1>3. ASSUME NEW m \in Welcome, ToldAgent(k, m)' PROVE ToldAgent(k, m)
  <2>1. PICK i \in 1..Len(Tail(link[k].toAgent)) : Tail(link[k].toAgent)[i] = m
    BY <1>2, <1>3 DEF ToldAgent
  <2>2. i + 1 \in 1..Len(link[k].toAgent) /\ link[k].toAgent[i + 1] = m
    BY <1>1, <2>1, TailFacts
  <2> QED
    BY <2>2 DEF ToldAgent
<1>4. \A j \in Conns, m \in Welcome : ToldAgent(j, m)' => ToldAgent(j, m)
  BY <1>2, <1>3 DEF ToldAgent
<1>5. \A j \in Conns, m \in Handshake : ToldServer(j, m)' => ToldServer(j, m)
  BY <1>2 DEF ToldServer
<1> QED
  BY <1>2, <1>4, <1>5, LinksCalm

LEMMA ReadRequestCalm ==
  ASSUME LocalTypeOK, ConnInv, NEW a \in Agents, ReadRequest(a)
  PROVE  (\A j \in Conns : CalmConn(j)) /\ (\A b \in Agents : CalmAgent(b))
<1>1. PICK k \in Conns : k = agent[a].conn
  BY DEF ReadRequest, ConnInv, AgentsHoldLinks
<1>2. /\ link[k].toAgent # <<>> /\ link' = [link EXCEPT ![k].toAgent = Tail(@)]
      /\ UNCHANGED <<handler, agent>>
  BY <1>1 DEF ReadRequest
<1> QED
  BY <1>2, ReadsFromServer, SameAgents

-----------------------------------------------------------------------------
(* Steps that do concern the claims. *)

LEMMA NoNewClaims ==
  ASSUME ClaimInv, accepts' = accepts,
         \A a \in Agents : HasClaim(a)' => HasClaim(a) /\ agent'[a].token = agent[a].token
  PROVE  ClaimsPaid' /\ ClaimsApart'
BY DEF ClaimInv, ClaimsPaid, ClaimsApart

LEMMA UnusedConn ==
  ASSUME ConnInv, NEW k \in Conns, handler[k].pc = "none"
  PROVE  ~LetIn(k) /\ handler[k].token = NoToken
<1>1. link[k].toAgent = <<>> /\ handler[k].token = NoToken
  BY DEF ConnInv, DialsInOrder, AgentsHoldLinks, HandlerStages
<1> QED
  BY <1>1 DEF LetIn, ToldAgent, AdmittedPC

LEMMA StartAgentKeepsClaims ==
  ASSUME LocalTypeOK, ConnInv, ClaimInv, NEW a \in Agents, StartAgent(a)
  PROVE  ClaimInv'
<1>1. /\ agent[a].pc = "off" /\ agent'[a].pc = "dial" /\ agent'[a].session = agent[a].session
      /\ \A b \in Agents : b # a => agent'[b] = agent[b]
      /\ UNCHANGED <<handler, link, accepts>>
  BY DEF StartAgent, LocalTypeOK, AgentTypeOK, AgentType, authVars
<1>2. \A k \in Conns : handler[k].pc # "none" => link[k].owner \in Agents \ {a}
  BY <1>1 DEF ClaimInv, OwnersStarted
<1>3. OwnersStarted'
  BY <1>1, <1>2 DEF ClaimInv, OwnersStarted
<1>4. OwnTokens'
  <2> SUFFICES ASSUME NEW k \in Conns, handler[k].pc # "none"
               PROVE  /\ handler[k].token # NoToken => TokensOf(link[k].owner, handler[k])'
                      /\ handler[k].pc = "auth" =>
                           \A m \in Handshake : ToldServer(k, m) => TokensOf(link[k].owner, m)'
    BY <1>1, UnusedConn DEF OwnTokens, ToldServer
  <2>1. agent'[link[k].owner] = agent[link[k].owner]
    BY <1>1, <1>2
  <2> QED
    BY <1>1, <2>1 DEF ClaimInv, OwnTokens, TokensOf
<1>5. WelcomeWithSession'
  BY <1>1 DEF ClaimInv, WelcomeWithSession, ToldAgent
<1>6. \A k \in Conns : LetIn(k)' <=> LetIn(k)
  BY <1>1 DEF LetIn, ToldAgent
<1>7. ~HasClaim(a)'
  <2>1. agent[a].session = NoToken
    BY <1>1 DEF ClaimInv, OwnersStarted
  <2>2. \A k \in Conns : link[k].owner = a => ~LetIn(k)
    BY <1>2, UnusedConn
  <2> QED
    BY <1>1, <1>6, <2>1, <2>2 DEF HasClaim
<1>8. \A b \in Agents : HasClaim(b)' => HasClaim(b) /\ agent'[b].token = agent[b].token
  BY <1>1, <1>6, <1>7 DEF HasClaim
<1> QED
  BY <1>1, <1>3, <1>4, <1>5, <1>8, NoNewClaims DEF ClaimInv

LEMMA DialKeepsClaims ==
  ASSUME LocalTypeOK, ConnInv, ClaimInv, NEW a \in Agents, Dial(a)
  PROVE  ClaimInv'
<1>1. PICK k \in Conns : k = dials + 1 /\ ~(k <= dials)
  BY TransportAssumption DEF Dial, LocalTypeOK, LinkTypeOK
<1>2. handler[k].pc = "none"
  BY <1>1 DEF ConnInv, DialsInOrder
<1>3. /\ agent[a].pc = "dial"
      /\ agent' = [agent EXCEPT ![a] = [@ EXCEPT !.pc = "auth", !.conn = k]]
      /\ handler' = [handler EXCEPT ![k].pc = "auth"]
      /\ link' = [link EXCEPT ![k] =
                   [owner |-> a, up |-> TRUE, serverOpen |-> TRUE, agentOpen |-> TRUE,
                    toServer |-> <<Hello(agent[a])>>, toAgent |-> <<>>]]
      /\ UNCHANGED accepts
  BY <1>1 DEF Dial, authVars
<1>4. /\ agent'[a].pc = "auth" /\ agent'[a].token = agent[a].token
      /\ agent'[a].session = agent[a].session
      /\ \A b \in Agents : b # a => agent'[b] = agent[b]
  BY <1>3 DEF LocalTypeOK, AgentTypeOK, AgentType
<1>5. /\ handler'[k].pc = "auth" /\ handler'[k].token = NoToken
      /\ \A j \in Conns : j # k => handler'[j] = handler[j]
  BY <1>2, <1>3, UnusedConn DEF LocalTypeOK, ServerTypeOK, HandlerType
<1>6. /\ link'[k].owner = a /\ link'[k].toServer = <<Hello(agent[a])>>
      /\ link'[k].toAgent = <<>>
      /\ \A j \in Conns : j # k => link'[j] = link[j]
  BY <1>3 DEF LocalTypeOK, LinkTypeOK, LinkType
<1>7. OwnersStarted'
  BY <1>3, <1>4, <1>5, <1>6 DEF ClaimInv, OwnersStarted
<1>8. OwnTokens'
  <2>1. ASSUME NEW m, ToldServer(k, m)' PROVE TokensOf(a, m)'
    <3>1. m = Hello(agent[a])
      BY <1>6, <2>1 DEF ToldServer
    <3> QED
      BY <1>4, <3>1 DEF Hello, TokensOf
  <2>2. ASSUME NEW j \in Conns, j # k
        PROVE  /\ handler'[j].token # NoToken => TokensOf(link[j].owner, handler[j])'
               /\ handler'[j].pc = "auth" =>
                    \A m \in Handshake : ToldServer(j, m)' => TokensOf(link[j].owner, m)'
    <3>1. /\ handler'[j] = handler[j] /\ link'[j] = link[j]
          /\ handler[j].pc = "none" => handler[j].token = NoToken
      BY <1>5, <1>6, <2>2, UnusedConn
    <3>2. \A b \in Agents : /\ agent'[b].token = agent[b].token
                            /\ agent'[b].session = agent[b].session
      BY <1>4
    <3>3. handler[j].pc # "none" => link[j].owner \in Agents
      BY DEF ClaimInv, OwnersStarted
    <3> QED
      BY <3>1, <3>2, <3>3 DEF ClaimInv, OwnTokens, TokensOf, ToldServer
  <2> QED
    BY <1>5, <1>6, <2>1, <2>2 DEF OwnTokens
<1>9. \A j \in Conns : \A m : ToldAgent(j, m)' => j # k /\ ToldAgent(j, m)
  BY <1>6 DEF ToldAgent
<1>10. WelcomeWithSession'
  BY <1>9 DEF ClaimInv, WelcomeWithSession
<1>11. \A j \in Conns : LetIn(j)' => LetIn(j) /\ j # k
  BY <1>5, <1>9 DEF LetIn, AdmittedPC
<1>12. \A b \in Agents : HasClaim(b)' => HasClaim(b) /\ agent'[b].token = agent[b].token
  BY <1>4, <1>6, <1>11 DEF HasClaim
<1> QED
  BY <1>3, <1>7, <1>8, <1>10, <1>12, NoNewClaims DEF ClaimInv

(* A handshake accepted by its session token comes from an agent that has    *)
(* one, and so has a claim already.                                         *)
LEMMA CheckSessionKeepsClaims ==
  ASSUME LocalTypeOK, ConnInv, ClaimInv, NEW k \in Conns, CheckSession(k), accepts' = accepts
  PROVE  ClaimInv'
<1>1. PICK m : m = Head(link[k].toServer)
  OBVIOUS
<1>2. /\ handler[k].pc = "auth" /\ link[k].toServer # <<>>
      /\ link' = [link EXCEPT ![k].toServer = Tail(@)]
      /\ UNCHANGED agent
  BY DEF CheckSession, agentVars
<1>3. PICK p \in {"accepted", "code"} :
        /\ handler' = [handler EXCEPT ![k] = [@ EXCEPT !.pc = p, !.token = m.token,
                                                       !.session = m.session]]
        /\ p = "accepted" => m.session # NoToken
  BY <1>1 DEF CheckSession
<1>4. m \in Handshake /\ ToldServer(k, m)
  <2>1. link[k].toServer \in Seq(Handshake \cup Response)
    BY DEF LocalTypeOK, LinkTypeOK, LinkType
  <2>2. m = link[k].toServer[1] /\ 1 \in 1..Len(link[k].toServer)
    BY <1>1, <1>2, <2>1, TailFacts
  <2> QED
    BY <1>2, <2>2 DEF ToldServer, ConnInv, ToServerOrder, ToServerInOrder
<1>5. TokensOf(link[k].owner, m) /\ link[k].owner \in Agents
  BY <1>2, <1>4 DEF ClaimInv, OwnTokens, OwnersStarted
<1>6. /\ handler'[k].pc = p
      /\ handler'[k].token = m.token /\ handler'[k].session = m.session
      /\ \A j \in Conns : j # k => handler'[j] = handler[j]
  BY <1>3 DEF LocalTypeOK, ServerTypeOK, HandlerType
<1>7. /\ \A j \in Conns : link'[j].owner = link[j].owner /\ link'[j].toAgent = link[j].toAgent
      /\ \A j \in Conns : j # k => link'[j] = link[j]
  BY <1>2 DEF LocalTypeOK, LinkTypeOK, LinkType
<1>8. OwnersStarted'
  BY <1>2, <1>6, <1>7 DEF ClaimInv, OwnersStarted
<1>9. OwnTokens'
  <2>1. ASSUME NEW j \in Conns, j # k
        PROVE  /\ handler'[j].token # NoToken => TokensOf(link[j].owner, handler[j])'
               /\ handler'[j].pc = "auth" =>
                    \A x \in Handshake : ToldServer(j, x)' => TokensOf(link[j].owner, x)'
    BY <1>2, <1>6, <1>7, <2>1 DEF ClaimInv, OwnTokens, TokensOf, ToldServer
  <2>2. TokensOf(link[k].owner, handler[k])' /\ handler'[k].pc # "auth"
    BY <1>2, <1>5, <1>6, <1>7 DEF TokensOf
  <2> QED
    BY <2>1, <2>2 DEF OwnTokens
<1>10. \A j \in Conns : \A x : ToldAgent(j, x)' <=> ToldAgent(j, x)
  BY <1>7 DEF ToldAgent
<1>11. WelcomeWithSession'
  BY <1>10 DEF ClaimInv, WelcomeWithSession
<1>12. \A j \in Conns : LetIn(j)' => LetIn(j) \/ (j = k /\ p = "accepted")
  BY <1>6, <1>10 DEF LetIn, AdmittedPC
<1>13. p = "accepted" => agent[link[k].owner].session # NoToken
  BY <1>3, <1>5 DEF TokensOf
<1>14. \A b \in Agents : HasClaim(b)' => HasClaim(b) /\ agent'[b].token = agent[b].token
  BY <1>2, <1>7, <1>12, <1>13 DEF HasClaim
<1> QED
  BY <1>8, <1>9, <1>11, <1>14, NoNewClaims DEF ClaimInv

(* The code of a token can only be accepted while it was not before, when    *)
(* nobody who holds it has a claim.                                         *)
LEMMA AcceptedForTheFirstTime ==
  ASSUME AuthProofs!IInv, NEW t \in Tokens, Auth!AcceptToken(t)
  PROVE  accepts[t] = 0 /\ accepts' = [accepts EXCEPT ![t] = 1] /\ accepts \in [Tokens -> Nat]
<1>1. PICK e \in codes : e.token = t /\ ~e.used
  BY DEF Auth!AcceptToken, Auth!Matching, Auth!LiveCodes, Auth!Unexpired
<1>2. accepts \in [Tokens -> Nat] /\ ~(accepts[t] > 0)
  BY <1>1 DEF AuthProofs!IInv, AuthProofs!TypeOK, AuthProofs!CodesFromHistory
<1>3. accepts[t] = 0
  BY <1>2
<1> QED
  BY <1>2, <1>3 DEF Auth!AcceptToken

LEMMA AcceptCodeKeepsClaims ==
  ASSUME LocalTypeOK, ConnInv, AuthProofs!IInv, ClaimInv, NEW k \in Conns, AcceptCode(k)
  PROVE  ClaimInv'
<1>1. /\ handler[k].pc = "code" /\ Auth!AcceptToken(handler[k].token)
      /\ handler' = [handler EXCEPT ![k].pc = "accepted"]
      /\ UNCHANGED <<agent, link>>
  BY DEF AcceptCode, agentVars
<1>2. PICK t \in Tokens : t = handler[k].token
  BY <1>1 DEF ConnInv, HandlerStages
<1>3. accepts[t] = 0 /\ accepts' = [accepts EXCEPT ![t] = 1] /\ accepts \in [Tokens -> Nat]
  BY <1>1, <1>2, AcceptedForTheFirstTime
<1>4. /\ handler'[k].pc = "accepted" /\ handler'[k].token = handler[k].token
      /\ handler'[k].session = handler[k].session
      /\ \A j \in Conns : j # k => handler'[j] = handler[j]
  BY <1>1 DEF LocalTypeOK, ServerTypeOK, HandlerType
<1>5. PICK a \in Agents : a = link[k].owner /\ agent[a].token = t
  BY <1>1, <1>2, TransportAssumption DEF ClaimInv, OwnersStarted, OwnTokens, TokensOf
<1>6. OwnersStarted' /\ OwnTokens' /\ WelcomeWithSession'
  BY <1>1, <1>4 DEF ClaimInv, OwnersStarted, OwnTokens, TokensOf, WelcomeWithSession,
                    ToldServer, ToldAgent
<1>7. \A j \in Conns : LetIn(j)' => LetIn(j) \/ j = k
  BY <1>1, <1>4 DEF LetIn, ToldAgent
<1>8. \A b \in Agents : HasClaim(b)' => HasClaim(b) \/ b = a
  BY <1>1, <1>5, <1>7 DEF HasClaim
<1>9. \A b \in Agents : HasClaim(b) => agent[b].token # t /\ agent[b].token \in Tokens
  <2> SUFFICES ASSUME NEW b \in Agents, HasClaim(b)
               PROVE  agent[b].token # t /\ agent[b].token \in Tokens
    OBVIOUS
  <2>1. agent[b].token # t
    BY <1>3 DEF ClaimInv, ClaimsPaid
  <2>2. agent[b].pc # "off"
    BY UnusedConn DEF ClaimInv, OwnersStarted, HasClaim
  <2> QED
    BY <2>1, <2>2 DEF ConnInv, AgentsHoldLinks
<1>10. ClaimsPaid'
  BY <1>1, <1>3, <1>5, <1>8, <1>9 DEF ClaimInv, ClaimsPaid
<1>11. ClaimsApart'
  BY <1>1, <1>5, <1>8, <1>9 DEF ClaimInv, ClaimsApart
<1> QED
  BY <1>6, <1>10, <1>11 DEF ClaimInv

LEMMA RejectCodeCalm ==
  ASSUME LocalTypeOK, NEW k \in Conns, RejectCode(k)
  PROVE  (\A j \in Conns : CalmConn(j)) /\ (\A b \in Agents : CalmAgent(b))
<1>1. PICK m : m = [type |-> "result", accepted |-> FALSE, session |-> NoToken]
  OBVIOUS
<1>2. /\ handler[k].pc = "code"
      /\ handler' = [handler EXCEPT ![k].pc = "done"]
      /\ link' = [ToAgent(k, m) EXCEPT ![k] = ServerClosed(@)]
      /\ UNCHANGED agent
  BY <1>1 DEF RejectCode, agentVars
<1>3. m \in AuthResult /\ m \notin Welcome
  BY <1>1 DEF AuthResult, Welcome
<1>4. /\ handler'[k].pc = "done" /\ handler'[k].token = handler[k].token
      /\ handler'[k].session = handler[k].session
      /\ \A j \in Conns : j # k => handler'[j] = handler[j]
  BY <1>2 DEF LocalTypeOK, ServerTypeOK, HandlerType
<1>5. /\ link'[k].owner = link[k].owner
      /\ link'[k].toAgent \in {link[k].toAgent, Append(link[k].toAgent, m)}
      /\ \A j \in Conns : j # k => link'[j] = link[j]
  BY <1>2 DEF ToAgent, ServerClosed, LocalTypeOK, LinkTypeOK, LinkType
<1>6. link[k].toAgent \in Seq(AuthResult \cup Request)
  BY DEF LocalTypeOK, LinkTypeOK, LinkType
<1>7. ASSUME NEW x \in Welcome, ToldAgent(k, x)' PROVE ToldAgent(k, x)
  <2>1. CASE link'[k].toAgent = link[k].toAgent
    BY <1>7, <2>1 DEF ToldAgent
  <2>2. CASE link'[k].toAgent = Append(link[k].toAgent, m)
    <3>1. PICK i \in 1..Len(Append(link[k].toAgent, m)) : Append(link[k].toAgent, m)[i] = x
      BY <1>7, <2>2 DEF ToldAgent
    <3> QED
      BY <1>3, <1>6, <3>1, AppendSays DEF ToldAgent
  <2> QED
    BY <1>5, <2>1, <2>2
<1>8. handler[k].pc # "none" /\ handler'[k].pc # "auth" /\ handler'[k].pc \notin AdmittedPC
  BY <1>2, <1>4 DEF AdmittedPC
<1> QED
  BY <1>2, <1>4, <1>5, <1>7, <1>8, OneConnMoves, SameAgents

(* The answer is written when its handshake was accepted, and carries the    *)
(* new session token.                                                       *)
LEMMA AnswerHandshakeKeepsClaims ==
  ASSUME LocalTypeOK, ConnInv, ClaimInv, NEW k \in Conns, AnswerHandshake(k), accepts' = accepts
  PROVE  ClaimInv'
<1>1. PICK m : m = [type |-> "result", accepted |-> TRUE, session |-> FreshToken]
  OBVIOUS
<1>2. /\ handler[k].pc = "accepted"
      /\ handler' = [handler EXCEPT ![k].pc = "install"]
      /\ link' = ToAgent(k, m)
      /\ UNCHANGED agent
  BY <1>1 DEF AnswerHandshake, agentVars
<1>3. m \in AuthResult /\ m.session \in Tokens
  BY <1>1, FreshTokenIsFresh DEF AuthResult, AnswerHandshake
<1>4. /\ handler'[k].pc = "install" /\ handler'[k].token = handler[k].token
      /\ handler'[k].session = handler[k].session
      /\ \A j \in Conns : j # k => handler'[j] = handler[j]
  BY <1>2 DEF LocalTypeOK, ServerTypeOK, HandlerType
<1>5. /\ \A j \in Conns : link'[j].owner = link[j].owner /\ link'[j].toServer = link[j].toServer
      /\ link'[k].toAgent \in {link[k].toAgent, Append(link[k].toAgent, m)}
      /\ \A j \in Conns : j # k => link'[j] = link[j]
  BY <1>2 DEF ToAgent, LocalTypeOK, LinkTypeOK, LinkType
<1>6. link[k].toAgent \in Seq(AuthResult \cup Request)
  BY DEF LocalTypeOK, LinkTypeOK, LinkType
<1>7. ASSUME NEW x, x # m, ToldAgent(k, x)' PROVE ToldAgent(k, x)
  <2>1. CASE link'[k].toAgent = link[k].toAgent
    BY <1>7, <2>1 DEF ToldAgent
  <2>2. CASE link'[k].toAgent = Append(link[k].toAgent, m)
    <3>1. PICK i \in 1..Len(Append(link[k].toAgent, m)) : Append(link[k].toAgent, m)[i] = x
      BY <1>7, <2>2 DEF ToldAgent
    <3> QED
      BY <1>3, <1>6, <1>7, <3>1, AppendSays DEF ToldAgent
  <2> QED
    BY <1>5, <2>1, <2>2
<1>8. \A j \in Conns : \A x : j # k => (ToldAgent(j, x)' <=> ToldAgent(j, x))
  BY <1>5 DEF ToldAgent
<1>9. OwnersStarted' /\ OwnTokens'
  BY <1>2, <1>4, <1>5 DEF ClaimInv, OwnersStarted, OwnTokens, TokensOf, ToldServer
<1>10. WelcomeWithSession'
  BY <1>3, <1>7, <1>8 DEF ClaimInv, WelcomeWithSession
<1>11. LetIn(k)
  BY <1>2 DEF LetIn, AdmittedPC
<1>12. \A j \in Conns : LetIn(j)' => LetIn(j)
  BY <1>4, <1>8, <1>11 DEF LetIn
<1>13. \A b \in Agents : HasClaim(b)' => HasClaim(b) /\ agent'[b].token = agent[b].token
  BY <1>2, <1>5, <1>12 DEF HasClaim
<1> QED
  BY <1>9, <1>10, <1>13, NoNewClaims DEF ClaimInv

(* The session token an agent stores comes from an accepted handshake of its *)
(* own.                                                                     *)
LEMMA ConnectedKeepsClaims ==
  ASSUME LocalTypeOK, ConnInv, ClaimInv, NEW a \in Agents, Connected(a), accepts' = accepts
  PROVE  ClaimInv'
<1>1. PICK k \in Conns : k = agent[a].conn /\ link[k].owner = a
  BY DEF Connected, ConnInv, AgentsHoldLinks
<1>2. PICK m : m = Head(link[k].toAgent)
  OBVIOUS
<1>3. /\ agent[a].pc = "auth" /\ link[k].toAgent # <<>> /\ m.accepted
      /\ agent' = [agent EXCEPT ![a] =
                    [@ EXCEPT !.pc = "run", !.retries = 0, !.session = m.session]]
      /\ link' = [link EXCEPT ![k].toAgent = Tail(@)]
      /\ UNCHANGED handler
  BY <1>1, <1>2 DEF Connected
<1>4. m \in Welcome /\ ToldAgent(k, m)
  <2>1. m \in AuthResult
    BY <1>1, <1>2, <1>3, HeadToAgent
  <2>2. link[k].toAgent \in Seq(AuthResult \cup Request)
    BY DEF LocalTypeOK, LinkTypeOK, LinkType
  <2>3. m = link[k].toAgent[1] /\ 1 \in 1..Len(link[k].toAgent)
    BY <1>2, <1>3, <2>2, TailFacts
  <2> QED
    BY <1>3, <2>1, <2>3 DEF Welcome, ToldAgent
<1>5. m.session \in Tokens /\ m.session # NoToken
  BY <1>4, TransportAssumption DEF ClaimInv, WelcomeWithSession
<1>6. /\ agent'[a].pc = "run" /\ agent'[a].token = agent[a].token
      /\ agent'[a].session = m.session
      /\ \A b \in Agents : b # a => agent'[b] = agent[b]
  BY <1>3 DEF LocalTypeOK, AgentTypeOK, AgentType
<1>7. \A j \in Conns : CalmConn(j)
  BY <1>3, ReadsFromServer
<1>8. \A b \in Agents : /\ agent'[b].token = agent[b].token
                        /\ agent[b].session # NoToken => agent'[b].session # NoToken
                        /\ agent'[b].pc = "off" => agent[b].pc = "off" /\ b # a
                        /\ agent[b].pc = "off" => agent'[b].pc = "off"
  BY <1>3, <1>5, <1>6
<1>9. OwnersStarted'
  BY <1>6, <1>7, <1>8 DEF ClaimInv, OwnersStarted, CalmConn
<1>10. OwnTokens'
  <2> SUFFICES ASSUME NEW j \in Conns, handler[j].pc # "none"
               PROVE  /\ handler'[j].token # NoToken => TokensOf(link[j].owner, handler[j])'
                      /\ handler'[j].pc = "auth" =>
                           \A x \in Handshake : ToldServer(j, x)' => TokensOf(link[j].owner, x)'
    BY <1>3, UnusedConn DEF OwnTokens
  <2>1. link[j].owner \in Agents
    BY DEF ClaimInv, OwnersStarted
  <2> QED
    BY <1>3, <1>7, <1>8, <2>1 DEF ClaimInv, OwnTokens, TokensOf, CalmConn
<1>11. WelcomeWithSession'
  BY <1>7 DEF ClaimInv, WelcomeWithSession, CalmConn
<1>12. HasClaim(a)
  BY <1>1, <1>4 DEF HasClaim, LetIn
<1>13. \A b \in Agents : HasClaim(b)' => HasClaim(b)
  BY <1>6, <1>7, <1>12 DEF HasClaim, LetIn, CalmConn
<1> QED
  BY <1>8, <1>9, <1>10, <1>11, <1>13, NoNewClaims DEF ClaimInv

-----------------------------------------------------------------------------
(* All steps. *)

LEMMA AcceptsUnchanged ==
  ASSUME ConnInv, Next, ~\E k \in Conns : AcceptCode(k)
  PROVE  accepts' = accepts
<1>1. ASSUME NEW k \in Conns, Handle(k) PROVE accepts' = accepts
  BY <1>1 DEF Handle, HandshakeLost, GiveUpHandshake, CheckSession, RejectCode, AnswerHandshake,
       Install, AgentConnected, ReadMessage, Decrypt, Pong, DecryptPanics, ReadFails, Teardown,
       AgentDisconnected, PublishCode, authVars, Auth!ValidateSessionToken, Auth!RejectToken,
       Auth!GenerateSessionToken, Auth!GenerateCode
<1>2. CASE StartServer \/ StartCall \/ Call \/ Interrupt \/ Tick \/ \E w \in workers : Respond(w)
  BY <1>2 DEF StartServer, PublishCode, Auth!GenerateCode, StartCall, Call, TestCipher, Encrypt,
       EncryptPanics, WriteRequest, NotSent, WriteCancelled, ReceiveResponse, CallCancelled,
       Interrupt, Tick, Auth!Tick, Respond, authVars
<1>3. CASE \E k \in Conns : HandshakeTimeout(k) \/ Lose(k) \/ ReadPing(k)
  BY <1>3 DEF HandshakeTimeout, GiveUpHandshake, Lose, ReadPing, authVars
<1>4. CASE \E a \in Agents : \/ StartAgent(a) \/ Agent(a) \/ DialFails(a) \/ AuthTimeout(a)
                             \/ Quit(a)
  BY <1>4 DEF StartAgent, Agent, Dial, NoServer, FailedDial, DialFails, Connected, Refused,
              AuthResultLost, AuthTimeout, GiveUpAuth, ReadRequest, ConnectionLost, Quit, authVars
<1> QED
  BY <1>1, <1>2, <1>3, <1>4 DEF Next

(* Handshakes, answers to them, and agents that start or connect.            *)
TokensMove ==
  \/ \E k \in Conns : CheckSession(k) \/ AcceptCode(k) \/ AnswerHandshake(k)
  \/ \E a \in Agents : StartAgent(a) \/ Dial(a) \/ Connected(a)

LEMMA OtherStepsAreCalm ==
  ASSUME LocalTypeOK, ConnInv, [Next]_vars, ~TokensMove
  PROVE  (\A j \in Conns : CalmConn(j)) /\ (\A b \in Agents : CalmAgent(b))
<1> DEFINE Calm == (\A j \in Conns : CalmConn(j)) /\ (\A b \in Agents : CalmAgent(b))
<1>1. ASSUME UNCHANGED vars \/ StartServer \/ Tick PROVE Calm
  <2>1. UNCHANGED <<handler, agent, link>>
    BY <1>1 DEF vars, StartServer, Tick, agentVars
  <2> QED
    BY <2>1, EmptyQueuesCalm, SameAgents
<1>2. ASSUME StartCall \/ Call \/ Interrupt PROVE Calm
  <2>1. UNCHANGED agent
    BY <1>2 DEF StartCall, Call, TestCipher, Encrypt, EncryptPanics, WriteRequest, NotSent,
                WriteCancelled, ReceiveResponse, CallCancelled, Interrupt, agentVars
  <2> QED
    BY <1>2, <2>1, CallCalm, SameAgents
<1>3. ASSUME NEW k \in Conns,
             \/ Install(k) \/ AgentConnected(k) \/ AgentDisconnected(k) \/ Decrypt(k)
             \/ ReadPing(k) \/ Pong(k) \/ DecryptPanics(k) \/ Teardown(k)
      PROVE  Calm
  <2>1. UNCHANGED agent
    BY <1>3 DEF Install, AgentConnected, AgentDisconnected, Decrypt, ReadPing, Pong,
                DecryptPanics, Teardown, agentVars
  <2> QED
    BY <1>3, <2>1, HandlerMovesCalmly, SameAgents
<1>4. ASSUME NEW k \in Conns,
             \/ HandshakeLost(k) \/ HandshakeTimeout(k) \/ ReadMessage(k) \/ ReadFails(k)
      PROVE  Calm
  <2>1. UNCHANGED agent
    BY <1>4 DEF HandshakeLost, HandshakeTimeout, GiveUpHandshake, ReadMessage, ReadFails,
                agentVars
  <2>2. GiveUpHandshake(k) \/ ReadMessage(k) \/ ReadFails(k)
    BY <1>4 DEF HandshakeLost, HandshakeTimeout
  <2> QED
    BY <2>1, <2>2, HandlerReadsCalmly, SameAgents
<1>5. ASSUME NEW k \in Conns, RejectCode(k) PROVE Calm
  BY <1>5, RejectCodeCalm
<1>6. ASSUME NEW k \in Conns, Lose(k) PROVE Calm
  BY <1>6, LoseCalm, SameAgents DEF Lose, agentVars
<1>7. ASSUME NEW w \in workers, Respond(w) PROVE Calm
  BY <1>7, RespondCalm, SameAgents DEF Respond
<1>8. ASSUME NEW a \in Agents,
             \/ NoServer(a) \/ DialFails(a) \/ AuthResultLost(a) \/ AuthTimeout(a)
             \/ Refused(a) \/ ConnectionLost(a) \/ Quit(a)
      PROVE  Calm
  <2>1. FailedDial(a) \/ GiveUpAuth(a) \/ Refused(a) \/ ConnectionLost(a) \/ Quit(a)
    BY <1>8 DEF NoServer, DialFails, AuthResultLost, AuthTimeout
  <2> QED
    BY <2>1, GiveUpCalm
<1>9. ASSUME NEW a \in Agents, ReadRequest(a) PROVE Calm
  BY <1>9, ReadRequestCalm
<1> HIDE DEF Calm
<1>10. Calm
  BY <1>1, <1>2, <1>3, <1>4, <1>5, <1>6, <1>7, <1>8, <1>9 DEF Next, Handle, Agent, TokensMove
<1> QED
  BY <1>10 DEF Calm

LEMMA NextKeepsClaims == IInv /\ ClaimInv /\ [Next]_vars => ClaimInv'
<1> SUFFICES ASSUME LocalTypeOK, ConnInv, AuthProofs!IInv, ClaimInv, [Next]_vars
             PROVE  ClaimInv'
  BY DEF IInv
<1>1. CASE \E k \in Conns : AcceptCode(k)
  BY <1>1, AcceptCodeKeepsClaims
<1>2. CASE ~\E k \in Conns : AcceptCode(k)
  <2>1. accepts' = accepts
    BY <1>2, AcceptsUnchanged DEF vars, authVars
  <2>2. CASE \E k \in Conns : CheckSession(k) \/ AnswerHandshake(k)
    BY <2>1, <2>2, CheckSessionKeepsClaims, AnswerHandshakeKeepsClaims
  <2>3. CASE \E a \in Agents : StartAgent(a) \/ Dial(a) \/ Connected(a)
    BY <2>1, <2>3, StartAgentKeepsClaims, DialKeepsClaims, ConnectedKeepsClaims
  <2>4. CASE ~TokensMove
    BY <2>1, <2>4, OtherStepsAreCalm, CalmStep
  <2> QED
    BY <1>2, <2>2, <2>3, <2>4 DEF TokensMove
<1> QED
  BY <1>1, <1>2

LEMMA InitClaims == Init => ClaimInv
<1> SUFFICES ASSUME Init PROVE ClaimInv
  OBVIOUS
<1>1. /\ \A k \in Conns : /\ handler[k].pc = "none" /\ handler[k].token = NoToken
                          /\ link[k].toAgent = <<>>
      /\ \A a \in Agents : agent[a].session = NoToken
  BY DEF Init
<1>2. \A k \in Conns : \A m : ~ToldAgent(k, m)
  BY <1>1 DEF ToldAgent
<1>3. \A a \in Agents : ~HasClaim(a)
  BY <1>1, <1>2 DEF HasClaim, LetIn, AdmittedPC
<1> QED
  BY <1>1, <1>2, <1>3 DEF ClaimInv, OwnersStarted, OwnTokens, WelcomeWithSession, ClaimsPaid,
                          ClaimsApart

(* However many agents are started with one code, and whatever is lost or    *)
(* retried, at most one of them ever gets a session (auth.go, ValidateToken  *)
(* and server.go, handleWebSocket).                                          *)
THEOREM CodeConnectsOneAgent == Spec => []OneAgentPerCode
<1>1. Init => IInv /\ ClaimInv
  BY InitInv, AuthInvInit, InitClaims DEF IInv
<1>2. IInv /\ ClaimInv /\ [Next]_vars => (IInv /\ ClaimInv)'
  BY NextKeepsIInv, NextKeepsClaims
<1>3. ClaimInv => OneAgentPerCode
  BY DEF ClaimInv, ClaimsApart, HasClaim, OneAgentPerCode
<1> QED
  BY <1>1, <1>2, <1>3, PTL DEF Spec

-----------------------------------------------------------------------------
(* Session tokens.                                                           *)

(* If t is a session token, the server issued it.                            *)
Known(t) == t # NoToken => \E i \in issued : i.token = t /\ i.kind = "session"

(* The session token in the handshake of k, if any, was issued too long ago. *)
PastItsLife(k) ==
  handler[k].session # NoToken
    => \E i \in issued : /\ i.token = handler[k].session
                         /\ i.kind = "session"
                         /\ now - i.at > SessionTokenExpiration

SessionInv ==
  /\ revoked = {}
  /\ \A a \in Agents : Known(agent[a].session)
  /\ \A k \in Conns :
       /\ Known(handler[k].session)
       /\ handler[k].pc = "auth" => \A m \in Handshake : ToldServer(k, m) => Known(m.session)
       /\ \A m \in Welcome : ToldAgent(k, m) => Known(m.session)
       /\ handler[k].pc = "code" => PastItsLife(k)

(* What is issued stays issued, the clock goes on, and nobody revokes.       *)
Onward ==
  /\ issued \subseteq issued' /\ issued \subseteq Auth!Issue
  /\ now \in Nat /\ now' \in Nat /\ now <= now'
  /\ revoked' = revoked

LEMMA StepsGoOnward ==
  ASSUME IInv, [Next]_vars
  PROVE  Onward
<1>1. TypeOK
  BY IInvGivesTypes
<1>2. [Auth!Next]_authVars
  BY StepIsAuthStep DEF IInv, ConnInv
<1>3. issued \subseteq issued' /\ now' \in Nat /\ now <= now'
  BY <1>1, <1>2
     DEF TypeOK, Auth!TypeOK, authVars, Auth!Next, Auth!GenerateCode, Auth!AcceptToken,
         Auth!RejectToken, Auth!GenerateSessionToken, Auth!ValidateSessionToken,
         Auth!RevokeSessionToken, Auth!Cleanup, Auth!Tick
<1>4. revoked' = revoked
  <2>1. CASE StartServer \/ StartCall \/ Call \/ Interrupt \/ Tick \/ UNCHANGED vars
    BY <2>1 DEF StartServer, PublishCode, Auth!GenerateCode, StartCall, Call, TestCipher,
         Encrypt, EncryptPanics, WriteRequest, NotSent, WriteCancelled, ReceiveResponse,
         CallCancelled, Interrupt, Tick, Auth!Tick, vars, authVars
  <2>2. CASE \E k \in Conns : Handle(k)
    BY <2>2 DEF Handle, HandshakeLost, GiveUpHandshake, CheckSession, AcceptCode, RejectCode,
         AnswerHandshake, Install, AgentConnected, ReadMessage, Decrypt, Pong, DecryptPanics,
         ReadFails, Teardown, AgentDisconnected, PublishCode, authVars, Auth!AcceptToken,
         Auth!ValidateSessionToken, Auth!RejectToken, Auth!GenerateSessionToken,
         Auth!GenerateCode
  <2>3. CASE \E k \in Conns : HandshakeTimeout(k) \/ Lose(k) \/ ReadPing(k)
    BY <2>3 DEF HandshakeTimeout, GiveUpHandshake, Lose, ReadPing, authVars
  <2>4. CASE \E a \in Agents : \/ StartAgent(a) \/ Agent(a) \/ DialFails(a) \/ AuthTimeout(a)
                               \/ Quit(a)
    BY <2>4 DEF StartAgent, Agent, Dial, NoServer, FailedDial, DialFails, Connected, Refused,
         AuthResultLost, AuthTimeout, GiveUpAuth, ReadRequest, ConnectionLost, Quit, authVars
  <2>5. CASE \E w \in workers : Respond(w)
    BY <2>5 DEF Respond, authVars
  <2> QED
    BY <2>1, <2>2, <2>3, <2>4, <2>5 DEF Next
<1> QED
  BY <1>1, <1>3, <1>4 DEF Onward, TypeOK, Auth!TypeOK

(* A step keeps the invariant if whoever gets a session token gets one that  *)
(* was issued, and whoever turns to the one-time token had to.               *)
LEMMA KnownTokensMove ==
  ASSUME SessionInv, Onward,
         \A a \in Agents : agent'[a].session = agent[a].session \/ Known(agent[a].session)',
         \A k \in Conns :
           /\ handler'[k].session = handler[k].session \/ Known(handler[k].session)'
           /\ handler'[k].pc = "auth" => \A m \in Handshake : ToldServer(k, m)' =>
                (handler[k].pc = "auth" /\ ToldServer(k, m)) \/ Known(m.session)'
           /\ \A m \in Welcome : ToldAgent(k, m)' => ToldAgent(k, m) \/ Known(m.session)'
           /\ handler'[k].pc = "code" =>
                \/ handler[k].pc = "code" /\ handler'[k].session = handler[k].session
                \/ PastItsLife(k)'
  PROVE  SessionInv'
<1>1. \A t : Known(t) => Known(t)'
  BY DEF Known, Onward
<1>2. \A a \in Agents : Known(agent[a].session)'
  BY DEF Known, Onward, SessionInv
<1>3. ASSUME NEW k \in Conns
      PROVE  /\ Known(handler[k].session)'
             /\ handler'[k].pc = "auth" =>
                  \A m \in Handshake : ToldServer(k, m)' => Known(m.session)'
             /\ \A m \in Welcome : ToldAgent(k, m)' => Known(m.session)'
  <2>1. Known(handler[k].session)'
    BY DEF Known, Onward, SessionInv
  <2>2. ASSUME handler'[k].pc = "auth", NEW m \in Handshake, ToldServer(k, m)'
        PROVE  Known(m.session)'
    BY <1>1, <2>2 DEF SessionInv
  <2>3. ASSUME NEW m \in Welcome, ToldAgent(k, m)' PROVE Known(m.session)'
    BY <1>1, <2>3 DEF SessionInv
  <2> QED
    BY <2>1, <2>2, <2>3
<1>4. ASSUME NEW k \in Conns, handler'[k].pc = "code" PROVE PastItsLife(k)'
  <2>1. CASE handler[k].pc = "code" /\ handler'[k].session = handler[k].session
    <3>1. \A i \in issued : i \in issued' /\ i.at \in Nat
      BY DEF Onward, Auth!Issue
    <3>2. \A i \in issued : now - i.at > SessionTokenExpiration =>
            now' - i.at > SessionTokenExpiration
      BY <3>1, TransportAssumption DEF Onward
    <3> QED
      BY <2>1, <3>1, <3>2 DEF SessionInv, PastItsLife
  <2> QED
    BY <1>4, <2>1
<1> QED
  BY <1>2, <1>3, <1>4 DEF SessionInv, Onward

(* Only a handshake whose session token was refused turns to its code.       *)
LEMMA CodeStageFromHandshake ==
  ASSUME LocalTypeOK, [Next]_vars, NEW k \in Conns, ~CheckSession(k), handler'[k].pc = "code"
  PROVE  handler[k].pc = "code" /\ handler'[k].session = handler[k].session
<1>1. handler \in [Conns -> HandlerType]
  BY DEF LocalTypeOK, ServerTypeOK
<1>2. CASE UNCHANGED handler
  BY <1>2
<1>3. CASE \E j \in Conns : CheckSession(j)
  <2>1. PICK j \in Conns : CheckSession(j)
    BY <1>3
  <2>2. j # k
    BY <2>1
  <2> QED
    BY <1>1, <2>1, <2>2 DEF CheckSession
<1>4. CASE \E j \in Conns : \E pc :
             /\ pc # "code"
             /\ \/ handler' = [handler EXCEPT ![j].pc = pc]
                \/ \E x : handler' = [handler EXCEPT ![j] = [@ EXCEPT !.pc = pc, !.msg = x]]
  BY <1>1, <1>4 DEF HandlerType
<1>5. \/ UNCHANGED handler
      \/ \E j \in Conns : CheckSession(j)
      \/ \E j \in Conns : \E pc :
           /\ pc # "code"
           /\ \/ handler' = [handler EXCEPT ![j].pc = pc]
              \/ \E x : handler' = [handler EXCEPT ![j] = [@ EXCEPT !.pc = pc, !.msg = x]]
  <2>1. CASE StartServer \/ StartCall \/ Call \/ Interrupt \/ Tick \/ UNCHANGED vars
    BY <2>1 DEF StartServer, StartCall, Call, TestCipher, Encrypt, EncryptPanics, WriteRequest,
                NotSent, WriteCancelled, ReceiveResponse, CallCancelled, Interrupt, Tick, vars
  <2>2. ASSUME NEW j \in Conns,
               Handle(j) \/ HandshakeTimeout(j) \/ Lose(j) \/ ReadPing(j), ~CheckSession(j)
        PROVE  \/ UNCHANGED handler
               \/ \E pc : /\ pc # "code"
                          /\ \/ handler' = [handler EXCEPT ![j].pc = pc]
                             \/ \E x : handler' = [handler EXCEPT ![j] =
                                                    [@ EXCEPT !.pc = pc, !.msg = x]]
    BY <2>2 DEF Handle, HandshakeLost, HandshakeTimeout, GiveUpHandshake, AcceptCode, RejectCode,
                AnswerHandshake, Install, AgentConnected, ReadMessage, Decrypt, ReadPing, Pong,
                DecryptPanics, ReadFails, Teardown, AgentDisconnected, Lose
  <2>3. CASE \E a \in Agents : StartAgent(a) \/ Agent(a) \/ DialFails(a) \/ AuthTimeout(a) \/ Quit(a)
    <3>1. CASE \E a \in Agents : Dial(a)
      <4>1. PICK j \in Conns : j = dials + 1
        BY <3>1, TransportAssumption DEF Dial, LocalTypeOK, LinkTypeOK
      <4> QED
        BY <3>1, <4>1 DEF Dial
    <3>2. CASE ~\E a \in Agents : Dial(a)
      BY <2>3, <3>2 DEF StartAgent, Agent, NoServer, FailedDial, DialFails, Connected, Refused,
           AuthResultLost, AuthTimeout, GiveUpAuth, ReadRequest, ConnectionLost, Quit
    <3> QED
      BY <3>1, <3>2
  <2>4. CASE \E w \in workers : Respond(w)
    BY <2>4 DEF Respond
  <2> QED
    BY <2>1, <2>2, <2>3, <2>4 DEF Next
<1> QED
  BY <1>2, <1>3, <1>4, <1>5

(* The steps that give somebody a session token, one by one.                 *)
LEMMA CheckSessionKeepsTokens ==
  ASSUME IInv, SessionInv, Onward, NEW k \in Conns, CheckSession(k)
  PROVE  SessionInv'
<1>1. PICK m : m = Head(link[k].toServer)
  OBVIOUS
<1>2. /\ handler[k].pc = "auth" /\ link[k].toServer # <<>>
      /\ link' = [link EXCEPT ![k].toServer = Tail(@)]
      /\ UNCHANGED agent
  BY DEF CheckSession, agentVars
<1>3. PICK p \in {"accepted", "code"} :
        /\ handler' = [handler EXCEPT ![k] = [@ EXCEPT !.pc = p, !.token = m.token,
                                                       !.session = m.session]]
        /\ p = "code" => m.session = NoToken \/ ~Auth!SessionAccepted(m.session)
  BY <1>1 DEF CheckSession
<1>4. LocalTypeOK /\ ConnInv /\ AuthProofs!IInv
  BY DEF IInv
<1>5. m \in Handshake /\ ToldServer(k, m)
  <2>1. link[k].toServer \in Seq(Handshake \cup Response)
    BY <1>4 DEF LocalTypeOK, LinkTypeOK, LinkType
  <2>2. m = link[k].toServer[1] /\ 1 \in 1..Len(link[k].toServer)
    BY <1>1, <1>2, <2>1, TailFacts
  <2> QED
    BY <1>2, <1>4, <2>2 DEF ToldServer, ConnInv, ToServerOrder, ToServerInOrder
<1>6. Known(m.session)
  BY <1>2, <1>5 DEF SessionInv
<1>7. /\ handler'[k].pc = p /\ handler'[k].session = m.session
      /\ \A j \in Conns : j # k => handler'[j] = handler[j]
  BY <1>3, <1>4 DEF LocalTypeOK, ServerTypeOK, HandlerType
<1>8. /\ \A j \in Conns : link'[j].toAgent = link[j].toAgent
      /\ \A j \in Conns : j # k => link'[j] = link[j]
  BY <1>2, <1>4 DEF LocalTypeOK, LinkTypeOK, LinkType
<1>9. issued' = issued /\ now' = now
  BY DEF CheckSession, Auth!ValidateSessionToken, authVars
<1>10. ASSUME p = "code", m.session # NoToken
       PROVE  \E i \in issued : /\ i.token = m.session /\ i.kind = "session"
                                /\ now - i.at > SessionTokenExpiration
  <2>1. PICK i \in issued : i.token = m.session /\ i.kind = "session"
    BY <1>6, <1>10 DEF Known
  <2>2. AuthProofs!SessionAnswer
    <3>1. AuthProofs!ExpirationAssumption
      BY TransportAssumption DEF AuthProofs!ExpirationAssumption
    <3> QED
      BY <1>4, <3>1, AuthProofs!IInvGivesSessionAnswer
  <2>3. m.session \in Tokens
    BY <1>5, <1>10 DEF Handshake
  <2>4. AuthProofs!SessionAccepted(m.session) <=> Auth!SessionAccepted(m.session)
    BY DEF AuthProofs!SessionAccepted, Auth!SessionAccepted, AuthProofs!LiveSessions,
           Auth!LiveSessions, AuthProofs!Unexpired, Auth!Unexpired
  <2>5. ~(now - i.at <= SessionTokenExpiration)
    BY <1>3, <1>10, <2>1, <2>2, <2>3, <2>4 DEF AuthProofs!SessionAnswer, SessionInv
  <2>6. now \in Nat /\ i.at \in Nat
    BY DEF Onward, Auth!Issue
  <2>7. now - i.at > SessionTokenExpiration
    BY <2>5, <2>6, TransportAssumption
  <2> QED
    BY <2>1, <2>7
<1>11. handler'[k].pc = "code" => PastItsLife(k)'
  BY <1>7, <1>9, <1>10 DEF PastItsLife
<1>12. Known(handler[k].session)'
  BY <1>6, <1>7, <1>9 DEF Known
<1>13. \A j \in Conns : \A x : ToldAgent(j, x)' => ToldAgent(j, x)
  BY <1>8 DEF ToldAgent
<1>14. \A j \in Conns : j # k => \A x : ToldServer(j, x)' => ToldServer(j, x)
  BY <1>8 DEF ToldServer
<1>15. handler'[k].pc # "auth"
  BY <1>7
<1> QED
  BY <1>2, <1>7, <1>11, <1>12, <1>13, <1>14, <1>15, KnownTokensMove

LEMMA AnswerHandshakeKeepsTokens ==
  ASSUME IInv, SessionInv, Onward, NEW k \in Conns, AnswerHandshake(k)
  PROVE  SessionInv'
<1>1. PICK m : m = [type |-> "result", accepted |-> TRUE, session |-> FreshToken]
  OBVIOUS
<1>2. /\ handler' = [handler EXCEPT ![k].pc = "install"]
      /\ link' = ToAgent(k, m)
      /\ UNCHANGED agent
  BY <1>1 DEF AnswerHandshake, agentVars
<1>3. \E i \in issued' : i.token = m.session /\ i.kind = "session"
  <2>1. PICK i : i = [token |-> FreshToken, kind |-> "session", at |-> now]
    OBVIOUS
  <2>2. i \in issued'
    BY <2>1 DEF AnswerHandshake, Auth!GenerateSessionToken
  <2>3. i.token = m.session /\ i.kind = "session"
    BY <1>1, <2>1
  <2> QED
    BY <2>2, <2>3
<1>4. m \in AuthResult
  BY <1>1, FreshTokenIsFresh DEF AuthResult, AnswerHandshake
<1>5. LocalTypeOK
  BY DEF IInv
<1>6. \A j \in Conns : /\ handler'[j].session = handler[j].session
                       /\ handler'[j].pc \in {"auth", "code"} => handler'[j].pc = handler[j].pc
  BY <1>2, <1>5 DEF LocalTypeOK, ServerTypeOK, HandlerType
<1>7. /\ \A j \in Conns : link'[j].toServer = link[j].toServer
      /\ link'[k].toAgent \in {link[k].toAgent, Append(link[k].toAgent, m)}
      /\ \A j \in Conns : j # k => link'[j] = link[j]
  BY <1>2, <1>5 DEF ToAgent, LocalTypeOK, LinkTypeOK, LinkType
<1>8. link[k].toAgent \in Seq(AuthResult \cup Request)
  BY <1>5 DEF LocalTypeOK, LinkTypeOK, LinkType
<1>9. ASSUME NEW x, x # m, ToldAgent(k, x)' PROVE ToldAgent(k, x)
  <2>1. CASE link'[k].toAgent = link[k].toAgent
    BY <1>9, <2>1 DEF ToldAgent
  <2>2. CASE link'[k].toAgent = Append(link[k].toAgent, m)
    <3>1. PICK i \in 1..Len(Append(link[k].toAgent, m)) : Append(link[k].toAgent, m)[i] = x
      BY <1>9, <2>2 DEF ToldAgent
    <3> QED
      BY <1>4, <1>8, <1>9, <3>1, AppendSays DEF ToldAgent
  <2> QED
    BY <1>7, <2>1, <2>2
<1>10. \A j \in Conns : j # k => \A x : ToldAgent(j, x)' => ToldAgent(j, x)
  BY <1>7 DEF ToldAgent
<1>11. \A x : x = m => Known(x.session)'
  BY <1>3 DEF Known
<1>12. \A j \in Conns : \A x \in Welcome : ToldAgent(j, x)' => ToldAgent(j, x) \/ Known(x.session)'
  BY <1>9, <1>10, <1>11
<1>13. \A j \in Conns : \A x : ToldServer(j, x)' => ToldServer(j, x)
  BY <1>7 DEF ToldServer
<1> QED
  BY <1>2, <1>6, <1>12, <1>13, KnownTokensMove

LEMMA DialKeepsTokens ==
  ASSUME IInv, SessionInv, Onward, NEW a \in Agents, Dial(a)
  PROVE  SessionInv'
<1>1. LocalTypeOK
  BY DEF IInv
<1>2. PICK k \in Conns : k = dials + 1
  BY <1>1, TransportAssumption DEF Dial, LocalTypeOK, LinkTypeOK
<1>3. /\ agent' = [agent EXCEPT ![a] = [@ EXCEPT !.pc = "auth", !.conn = k]]
      /\ handler' = [handler EXCEPT ![k].pc = "auth"]
      /\ link' = [link EXCEPT ![k] =
                   [owner |-> a, up |-> TRUE, serverOpen |-> TRUE, agentOpen |-> TRUE,
                    toServer |-> <<Hello(agent[a])>>, toAgent |-> <<>>]]
  BY <1>2 DEF Dial
<1>4. \A b \in Agents : agent'[b].session = agent[b].session
  BY <1>1, <1>3 DEF LocalTypeOK, AgentTypeOK, AgentType
<1>5. /\ \A j \in Conns : handler'[j].session = handler[j].session
      /\ \A j \in Conns : j # k => handler'[j] = handler[j]
      /\ handler'[k].pc = "auth"
  BY <1>1, <1>3 DEF LocalTypeOK, ServerTypeOK, HandlerType
<1>6. /\ link'[k].toServer = <<Hello(agent[a])>> /\ link'[k].toAgent = <<>>
      /\ \A j \in Conns : j # k => link'[j] = link[j]
  BY <1>1, <1>3 DEF LocalTypeOK, LinkTypeOK
<1>7. ASSUME NEW m, ToldServer(k, m)' PROVE Known(m.session)'
  <2>1. m = Hello(agent[a])
    BY <1>6, <1>7 DEF ToldServer
  <2>2. m.session = agent[a].session
    BY <2>1 DEF Hello
  <2> QED
    BY <2>2 DEF SessionInv, Known, Onward
<1>8. \A j \in Conns : \A m : /\ ToldAgent(j, m)' => ToldAgent(j, m)
                              /\ j # k => (ToldServer(j, m)' => ToldServer(j, m))
  BY <1>6 DEF ToldAgent, ToldServer
<1> QED
  BY <1>4, <1>5, <1>7, <1>8, KnownTokensMove

LEMMA ConnectedKeepsTokens ==
  ASSUME IInv, SessionInv, Onward, NEW a \in Agents, Connected(a)
  PROVE  SessionInv'
<1>1. LocalTypeOK /\ ConnInv
  BY DEF IInv
<1>2. PICK k \in Conns : k = agent[a].conn
  BY <1>1 DEF Connected, ConnInv, AgentsHoldLinks
<1>3. PICK m : m = Head(link[k].toAgent)
  OBVIOUS
<1>4. /\ agent[a].pc = "auth" /\ link[k].toAgent # <<>> /\ m.accepted
      /\ agent' = [agent EXCEPT ![a] =
                    [@ EXCEPT !.pc = "run", !.retries = 0, !.session = m.session]]
      /\ link' = [link EXCEPT ![k].toAgent = Tail(@)]
      /\ UNCHANGED handler
  BY <1>2, <1>3 DEF Connected
<1>5. m \in Welcome /\ ToldAgent(k, m)
  <2>1. m \in AuthResult
    BY <1>1, <1>2, <1>3, <1>4, HeadToAgent
  <2>2. link[k].toAgent \in Seq(AuthResult \cup Request)
    BY <1>1 DEF LocalTypeOK, LinkTypeOK, LinkType
  <2>3. m = link[k].toAgent[1] /\ 1 \in 1..Len(link[k].toAgent)
    BY <1>3, <1>4, <2>2, TailFacts
  <2> QED
    BY <1>4, <2>1, <2>3 DEF Welcome, ToldAgent
<1>6. Known(m.session)
  BY <1>5 DEF SessionInv
<1>7. /\ agent'[a].session = m.session
      /\ \A b \in Agents : b # a => agent'[b] = agent[b]
  BY <1>1, <1>4 DEF LocalTypeOK, AgentTypeOK, AgentType
<1>8. Known(agent[a].session)'
  BY <1>6, <1>7 DEF Known, Onward
<1>9. \A j \in Conns : CalmConn(j)
  BY <1>1, <1>4, ReadsFromServer
<1> QED
  BY <1>4, <1>7, <1>8, <1>9, KnownTokensMove DEF CalmConn

LEMMA NextKeepsTokens == IInv /\ SessionInv /\ [Next]_vars => SessionInv'
<1> SUFFICES ASSUME IInv, SessionInv, [Next]_vars PROVE SessionInv'
  OBVIOUS
<1>1. LocalTypeOK /\ ConnInv /\ Onward
  BY StepsGoOnward DEF IInv
<1>2. CASE \E k \in Conns : CheckSession(k) \/ AnswerHandshake(k)
  BY <1>1, <1>2, CheckSessionKeepsTokens, AnswerHandshakeKeepsTokens
<1>3. CASE \E a \in Agents : Dial(a) \/ Connected(a)
  BY <1>1, <1>3, DialKeepsTokens, ConnectedKeepsTokens
<1>4. CASE \E k \in Conns : AcceptCode(k)
  <2>1. PICK k \in Conns : AcceptCode(k)
    BY <1>4
  <2>2. /\ handler' = [handler EXCEPT ![k].pc = "accepted"]
        /\ UNCHANGED <<agent, link>>
    BY <2>1 DEF AcceptCode, agentVars
  <2>3. \A j \in Conns : /\ handler'[j].session = handler[j].session
                         /\ handler'[j].pc \in {"auth", "code"} => handler'[j].pc = handler[j].pc
    BY <1>1, <2>2 DEF LocalTypeOK, ServerTypeOK, HandlerType
  <2>4. \A j \in Conns : \A m : /\ ToldAgent(j, m)' => ToldAgent(j, m)
                                /\ ToldServer(j, m)' => ToldServer(j, m)
    BY <2>2 DEF ToldAgent, ToldServer
  <2> QED
    BY <1>1, <2>2, <2>3, <2>4, KnownTokensMove
<1>5. CASE \E a \in Agents : StartAgent(a)
  <2>1. UNCHANGED <<handler, link>> /\ \A b \in Agents : agent'[b].session = agent[b].session
    BY <1>1, <1>5 DEF StartAgent, LocalTypeOK, AgentTypeOK, AgentType
  <2>2. \A j \in Conns : \A m : /\ ToldAgent(j, m)' => ToldAgent(j, m)
                                /\ ToldServer(j, m)' => ToldServer(j, m)
    BY <2>1 DEF ToldAgent, ToldServer
  <2> QED
    BY <1>1, <2>1, <2>2, KnownTokensMove
<1>6. CASE ~TokensMove
  <2>1. (\A j \in Conns : CalmConn(j)) /\ (\A b \in Agents : CalmAgent(b))
    BY <1>1, <1>6, OtherStepsAreCalm
  <2>2. \A k \in Conns : handler'[k].pc = "code" =>
          handler[k].pc = "code" /\ handler'[k].session = handler[k].session
    BY <1>1, <1>6, CodeStageFromHandshake DEF TokensMove
  <2> QED
    BY <1>1, <2>1, <2>2, KnownTokensMove DEF CalmConn, CalmAgent
<1> QED
  BY <1>2, <1>3, <1>4, <1>5, <1>6 DEF TokensMove

LEMMA InitTokens == Init => SessionInv
<1> SUFFICES ASSUME Init PROVE SessionInv
  OBVIOUS
<1>1. /\ revoked = {}
      /\ \A a \in Agents : agent[a].session = NoToken
      /\ \A k \in Conns : /\ handler[k].pc = "none" /\ handler[k].session = NoToken
                          /\ link[k].toAgent = <<>>
  BY DEF Init, Auth!Init
<1>2. \A k \in Conns : \A m : ~ToldAgent(k, m)
  BY <1>1 DEF ToldAgent
<1> QED
  BY <1>1, <1>2 DEF SessionInv, Known

(* Whatever answers were lost before, the server falls back on the one-time  *)
(* token of an agent that sent a session token only once that token is past  *)
(* its life: until then the session token reconnects (server.go,             *)
(* handleWebSocket; client.go, Connect; auth.go, ValidateSessionToken).      *)
THEOREM SessionTokensReconnect == Spec => []SessionReconnects
<1>1. Init => IInv /\ SessionInv
  BY InitInv, AuthInvInit, InitTokens DEF IInv
<1>2. IInv /\ SessionInv /\ [Next]_vars => (IInv /\ SessionInv)'
  BY NextKeepsIInv, NextKeepsTokens
<1>3. SessionInv => SessionReconnects
  BY DEF SessionInv, PastItsLife, SessionReconnects
<1> QED
  BY <1>1, <1>2, <1>3, PTL DEF Spec

-----------------------------------------------------------------------------
(* The requests, and the answers to them.                                    *)

RequestsOf(r) == {m \in Request : m.id = r}

ResponsesOf(r) == {m \in Response : m.id = r}

(* Where a request is: the i-th message on its way to the agent of k, then   *)
(* with a worker of k, then the i-th on its way to the server, in the hands  *)
(* of the handler of k, and in the caller's channel.                        *)
Requested(r, k, i) == i \in 1..Len(link[k].toAgent) /\ link[k].toAgent[i] \in RequestsOf(r)

Works(r, k) == [conn |-> k, id |-> r] \in workers

Answering(r, k, i) == i \in 1..Len(link[k].toServer) /\ link[k].toServer[i] \in ResponsesOf(r)

Held(r, k) == handler[k].pc = "decrypt" /\ handler[k].msg.id = r

Delivered(r) == respCh[r] # <<>>

(* SendRequest has written the request.                                     *)
Written(r) == r < call.id \/ (r = call.id /\ call.pc \in {"idle", "wait"})

OneRequest(r) ==
  \A k, l \in Conns :
    \A i \in 1..Len(link[k].toAgent), j \in 1..Len(link[l].toAgent) :
      Requested(r, k, i) /\ Requested(r, l, j) => k = l /\ i = j

OneAnswer(r) ==
  \A k, l \in Conns :
    /\ Works(r, k) /\ Works(r, l) => k = l
    /\ Held(r, k) /\ Held(r, l) => k = l
    /\ \A i \in 1..Len(link[k].toServer), j \in 1..Len(link[l].toServer) :
         Answering(r, k, i) /\ Answering(r, l, j) => k = l /\ i = j
    /\ Works(r, k) => ~Held(r, l) /\ ~Delivered(r)
    /\ Held(r, k) => ~Delivered(r)
    /\ \A i \in 1..Len(link[k].toServer) :
         Answering(r, k, i) => ~Works(r, l) /\ ~Held(r, l) /\ ~Delivered(r)

(* Before it runs a request may be on its way; once it ran it is not any     *)
(* more, and only what ran is answered.                                     *)
RunOnce(r) ==
  /\ executed[r] \in {0, 1}
  /\ \A k \in Conns :
       /\ \A i \in 1..Len(link[k].toAgent) : Requested(r, k, i) => executed[r] = 0
       /\ Works(r, k) \/ Held(r, k) => executed[r] = 1
       /\ \A i \in 1..Len(link[k].toServer) : Answering(r, k, i) => executed[r] = 1
  /\ Delivered(r) => executed[r] = 1

(* What the caller knows: nothing was sent before it was written, nor when   *)
(* the call failed without being interrupted.                               *)
CallerKnows(r) ==
  /\ ~Written(r) \/ outcome[r] = "error" =>
       /\ executed[r] = 0
       /\ \A k \in Conns : \A i \in 1..Len(link[k].toAgent) : ~Requested(r, k, i)
  /\ ~Written(r) \/ (call.pc = "wait" /\ r = call.id) => outcome[r] = "none"
  /\ outcome[r] = "ok" => executed[r] = 1

Once(r) == OneRequest(r) /\ OneAnswer(r) /\ RunOnce(r) /\ CallerKnows(r)

OnePlace == \A r \in Requests : Once(r)

-----------------------------------------------------------------------------
(* Steps that bring a request nowhere.                                       *)

(* Of the messages in M the queue q2 has some that q1 had, in their order.   *)
Fewer(q2, q1, M) ==
  \E d \in Nat : \A i \in 1..Len(q2) :
    q2[i] \in M => i + d \in 1..Len(q1) /\ q2[i] = q1[i + d]

LEMMA SameIsFewer == ASSUME NEW S, NEW q \in Seq(S), NEW M PROVE Fewer(q, q, M)
<1>1. \A i \in 1..Len(q) : q[i] \in M => i + 0 \in 1..Len(q) /\ q[i] = q[i + 0]
  OBVIOUS
<1> QED
  BY <1>1 DEF Fewer

LEMMA EmptyIsFewer == ASSUME NEW q, NEW M PROVE Fewer(<<>>, q, M)
<1>1. 0 \in Nat /\ Len(<<>>) = 0
  OBVIOUS
<1>2. \A i \in 1..0 : FALSE
  OBVIOUS
<1> QED
  BY <1>1, <1>2 DEF Fewer

LEMMA TailIsFewer ==
  ASSUME NEW S, NEW q \in Seq(S), q # <<>>, NEW M
  PROVE  Fewer(Tail(q), q, M)
<1>1. \A i \in 1..Len(Tail(q)) : i + 1 \in 1..Len(q) /\ Tail(q)[i] = q[i + 1]
  BY TailFacts
<1> QED
  BY <1>1 DEF Fewer

LEMMA PrefixIsFewer ==
  ASSUME NEW S, NEW q \in Seq(S), NEW n \in 0..Len(q), NEW M
  PROVE  Fewer(SubSeq(q, 1, n), q, M)
<1>1. /\ Len(SubSeq(q, 1, n)) = n /\ Len(q) \in Nat /\ n <= Len(q) /\ n \in Nat
      /\ \A i \in 1..n : SubSeq(q, 1, n)[i] = q[i]
  BY PrefixFacts
<1>2. \A i \in 1..Len(SubSeq(q, 1, n)) :
        i + 0 \in 1..Len(q) /\ SubSeq(q, 1, n)[i] = q[i + 0]
  BY <1>1
<1> QED
  BY <1>2 DEF Fewer

LEMMA OtherIsFewer ==
  ASSUME NEW S, NEW q \in Seq(S), NEW x \in S, NEW M, x \notin M
  PROVE  Fewer(Append(q, x), q, M)
<1>1. /\ Len(Append(q, x)) = Len(q) + 1 /\ Len(q) \in Nat
      /\ \A i \in 1..Len(q) : Append(q, x)[i] = q[i]
      /\ Append(q, x)[Len(q) + 1] = x
  OBVIOUS
<1>2. \A i \in 1..Len(Append(q, x)) :
        Append(q, x)[i] \in M => i + 0 \in 1..Len(q) /\ Append(q, x)[i] = q[i + 0]
  BY <1>1
<1> QED
  BY <1>2 DEF Fewer

(* The request r goes nowhere, but may be lost.                              *)
Quiet(r) ==
  /\ \A k \in Conns :
       /\ Fewer(link'[k].toAgent, link[k].toAgent, RequestsOf(r))
       /\ Fewer(link'[k].toServer, link[k].toServer, ResponsesOf(r))
       /\ Works(r, k)' => Works(r, k)
       /\ Held(r, k)' => Held(r, k)
  /\ Delivered(r)' => Delivered(r)
  /\ executed'[r] = executed[r]

(* The caller learns nothing about r.                                        *)
CallerLearnsNothing(r) ==
  /\ outcome'[r] = outcome[r]
  /\ Written(r) => Written(r)'
  /\ call'.pc = "wait" /\ r = call'.id => call.pc = "wait" /\ r = call.id

LEMMA RequestsComeFrom ==
  ASSUME NEW r, NEW k \in Conns, Fewer(link'[k].toAgent, link[k].toAgent, RequestsOf(r))
  PROVE  \E d \in Nat : \A i : Requested(r, k, i)' => Requested(r, k, i + d)
<1>1. PICK d \in Nat : \A i \in 1..Len(link'[k].toAgent) :
         link'[k].toAgent[i] \in RequestsOf(r) =>
           i + d \in 1..Len(link[k].toAgent) /\ link'[k].toAgent[i] = link[k].toAgent[i + d]
  BY DEF Fewer
<1>2. RequestsOf(r)' = RequestsOf(r)
  BY DEF RequestsOf, Request
<1> QED
  BY <1>1, <1>2 DEF Requested

LEMMA AnswersComeFrom ==
  ASSUME NEW r, NEW k \in Conns, Fewer(link'[k].toServer, link[k].toServer, ResponsesOf(r))
  PROVE  \E d \in Nat : \A i : Answering(r, k, i)' => Answering(r, k, i + d)
<1>1. PICK d \in Nat : \A i \in 1..Len(link'[k].toServer) :
         link'[k].toServer[i] \in ResponsesOf(r) =>
           i + d \in 1..Len(link[k].toServer) /\ link'[k].toServer[i] = link[k].toServer[i + d]
  BY DEF Fewer
<1>2. ResponsesOf(r)' = ResponsesOf(r)
  BY DEF ResponsesOf, Response
<1> QED
  BY <1>1, <1>2 DEF Answering

(* A request that goes nowhere is still in one place.                        *)
LEMMA QuietKeepsRequest ==
  ASSUME NEW r \in Requests, OneRequest(r),
         \A k \in Conns : Fewer(link'[k].toAgent, link[k].toAgent, RequestsOf(r))
  PROVE  /\ OneRequest(r)'
         /\ \A k \in Conns : \A i : Requested(r, k, i)' =>
              \E j \in 1..Len(link[k].toAgent) : Requested(r, k, j)
<1>1. ASSUME NEW k \in Conns, NEW l \in Conns,
             NEW i \in 1..Len(link'[k].toAgent), NEW j \in 1..Len(link'[l].toAgent),
             Requested(r, k, i)', Requested(r, l, j)'
      PROVE  k = l /\ i = j
  <2>1. PICK d \in Nat : \A n : Requested(r, k, n)' => Requested(r, k, n + d)
    BY RequestsComeFrom
  <2>2. PICK e \in Nat : \A n : Requested(r, l, n)' => Requested(r, l, n + e)
    BY RequestsComeFrom
  <2>3. Requested(r, k, i + d) /\ Requested(r, l, j + e)
    BY <1>1, <2>1, <2>2
  <2>4. k = l
    BY <2>3 DEF OneRequest, Requested
  <2>5. Requested(r, k, j + d)
    BY <1>1, <2>1, <2>4
  <2>6. i + d = j + d
    BY <2>3, <2>5 DEF OneRequest, Requested
  <2> QED
    BY <2>4, <2>6
<1>2. ASSUME NEW k \in Conns, NEW i, Requested(r, k, i)'
      PROVE  \E j \in 1..Len(link[k].toAgent) : Requested(r, k, j)
  BY <1>2, RequestsComeFrom DEF Requested
<1> QED
  BY <1>1, <1>2 DEF OneRequest

LEMMA QuietKeepsAnswer ==
  ASSUME NEW r \in Requests, OneAnswer(r), Quiet(r)
  PROVE  /\ OneAnswer(r)'
         /\ \A k \in Conns : \A i : Answering(r, k, i)' =>
              \E j \in 1..Len(link[k].toServer) : Answering(r, k, j)
<1>1. ASSUME NEW k \in Conns, NEW l \in Conns,
             NEW i \in 1..Len(link'[k].toServer), NEW j \in 1..Len(link'[l].toServer),
             Answering(r, k, i)', Answering(r, l, j)'
      PROVE  k = l /\ i = j
  <2>1. PICK d \in Nat : \A n : Answering(r, k, n)' => Answering(r, k, n + d)
    BY AnswersComeFrom DEF Quiet
  <2>2. PICK e \in Nat : \A n : Answering(r, l, n)' => Answering(r, l, n + e)
    BY AnswersComeFrom DEF Quiet
  <2>3. Answering(r, k, i + d) /\ Answering(r, l, j + e)
    BY <1>1, <2>1, <2>2
  <2>4. k = l
    BY <2>3 DEF OneAnswer, Answering
  <2>5. Answering(r, k, j + d)
    BY <1>1, <2>1, <2>4
  <2>6. i + d = j + d
    BY <2>3, <2>5 DEF OneAnswer, Answering
  <2> QED
    BY <2>4, <2>6
<1>2. ASSUME NEW k \in Conns, NEW i, Answering(r, k, i)'
      PROVE  \E j \in 1..Len(link[k].toServer) : Answering(r, k, j)
  BY <1>2, AnswersComeFrom DEF Quiet, Answering
<1>3. ASSUME NEW k \in Conns, NEW l \in Conns
      PROVE  /\ Works(r, k)' /\ Works(r, l)' => k = l
             /\ Held(r, k)' /\ Held(r, l)' => k = l
             /\ Works(r, k)' => ~Held(r, l)' /\ ~Delivered(r)'
             /\ Held(r, k)' => ~Delivered(r)'
             /\ \A i : Answering(r, k, i)' => ~Works(r, l)' /\ ~Held(r, l)' /\ ~Delivered(r)'
  BY <1>2 DEF Quiet, OneAnswer
<1> QED
  BY <1>1, <1>2, <1>3 DEF OneAnswer

LEMMA QuietKeepsPlaces ==
  ASSUME NEW r \in Requests, OneRequest(r), OneAnswer(r), RunOnce(r), Quiet(r)
  PROVE  OneRequest(r)' /\ OneAnswer(r)' /\ RunOnce(r)'
<1>1. OneRequest(r)' /\ OneAnswer(r)'
  BY QuietKeepsRequest, QuietKeepsAnswer DEF Quiet
<1>2. ASSUME NEW k \in Conns
      PROVE  /\ \A i : Requested(r, k, i)' => executed[r] = 0
             /\ \A i : Answering(r, k, i)' => executed[r] = 1
  BY QuietKeepsRequest, QuietKeepsAnswer DEF Quiet, RunOnce
<1>3. RunOnce(r)'
  BY <1>2 DEF Quiet, RunOnce
<1> QED
  BY <1>1, <1>3

LEMMA QuietKeepsOnce ==
  ASSUME NEW r \in Requests, Once(r), Quiet(r), CallerLearnsNothing(r)
  PROVE  Once(r)'
<1>1. OneRequest(r)' /\ OneAnswer(r)' /\ RunOnce(r)'
  BY QuietKeepsPlaces DEF Once
<1>2. \A k \in Conns : \A i : Requested(r, k, i)' =>
        \E j \in 1..Len(link[k].toAgent) : Requested(r, k, j)
  BY QuietKeepsRequest DEF Once, Quiet
<1>3. CallerKnows(r)'
  BY <1>2 DEF Once, Quiet, CallerLearnsNothing, CallerKnows
<1> QED
  BY <1>1, <1>3 DEF Once

(* What is on the network of r, is less or the same.                         *)
LinksLose(r) ==
  \A k \in Conns :
    /\ Fewer(link'[k].toAgent, link[k].toAgent, RequestsOf(r))
    /\ Fewer(link'[k].toServer, link[k].toServer, ResponsesOf(r))

LEMMA QueueTypes ==
  ASSUME LocalTypeOK, NEW k \in Conns
  PROVE  /\ link[k].toServer \in Seq(Handshake \cup Response)
         /\ link[k].toAgent \in Seq(AuthResult \cup Request)
BY DEF LocalTypeOK, LinkTypeOK, LinkType

LEMMA ShorterLinks ==
  ASSUME LocalTypeOK,
         \A k \in Conns : /\ link'[k].toServer \in {<<>>, link[k].toServer}
                          /\ link'[k].toAgent \in {<<>>, link[k].toAgent}
  PROVE  \A r \in Requests : LinksLose(r)
BY QueueTypes, SameIsFewer, EmptyIsFewer DEF LinksLose

LEMMA ServerReads ==
  ASSUME LocalTypeOK, NEW k \in Conns, link[k].toServer # <<>>,
         link' = [link EXCEPT ![k].toServer = Tail(@)]
  PROVE  \A r \in Requests : LinksLose(r)
<1>1. /\ link'[k].toServer = Tail(link[k].toServer)
      /\ \A j \in Conns : link'[j].toAgent = link[j].toAgent
      /\ \A j \in Conns : j # k => link'[j].toServer = link[j].toServer
  BY DEF LocalTypeOK, LinkTypeOK, LinkType
<1>2. \A j \in Conns : /\ link[j].toServer \in Seq(Handshake \cup Response)
                       /\ link[j].toAgent \in Seq(AuthResult \cup Request)
  BY QueueTypes
<1>3. \A r : Fewer(Tail(link[k].toServer), link[k].toServer, ResponsesOf(r))
  BY <1>2, TailIsFewer
<1> QED
  BY <1>1, <1>2, <1>3, SameIsFewer DEF LinksLose

LEMMA AgentReads ==
  ASSUME LocalTypeOK, NEW k \in Conns, link[k].toAgent # <<>>,
         link' = [link EXCEPT ![k].toAgent = Tail(@)]
  PROVE  \A r \in Requests : LinksLose(r)
<1>1. /\ link'[k].toAgent = Tail(link[k].toAgent)
      /\ \A j \in Conns : link'[j].toServer = link[j].toServer
      /\ \A j \in Conns : j # k => link'[j].toAgent = link[j].toAgent
  BY DEF LocalTypeOK, LinkTypeOK, LinkType
<1>2. \A j \in Conns : /\ link[j].toServer \in Seq(Handshake \cup Response)
                       /\ link[j].toAgent \in Seq(AuthResult \cup Request)
  BY QueueTypes
<1>3. \A r : Fewer(Tail(link[k].toAgent), link[k].toAgent, RequestsOf(r))
  BY <1>2, TailIsFewer
<1> QED
  BY <1>1, <1>2, <1>3, SameIsFewer DEF LinksLose

(* What is written to an agent is news of one request at most.               *)
LEMMA AgentIsTold ==
  ASSUME LocalTypeOK, NEW k \in Conns, NEW m \in AuthResult \cup Request,
         NEW r \in Requests, m \notin RequestsOf(r),
         \A j \in Conns : /\ link'[j].toServer \in {<<>>, link[j].toServer}
                          /\ link'[j].toAgent \in {link[j].toAgent, ToAgent(k, m)[j].toAgent}
  PROVE  LinksLose(r)
<1>1. \A j \in Conns : /\ link[j].toServer \in Seq(Handshake \cup Response)
                       /\ link[j].toAgent \in Seq(AuthResult \cup Request)
  BY QueueTypes
<1>2. /\ \A j \in Conns : j # k => ToAgent(k, m)[j].toAgent = link[j].toAgent
      /\ ToAgent(k, m)[k].toAgent \in {link[k].toAgent, Append(link[k].toAgent, m)}
  BY DEF ToAgent, LocalTypeOK, LinkTypeOK, LinkType
<1>3. Fewer(Append(link[k].toAgent, m), link[k].toAgent, RequestsOf(r))
  BY <1>1, OtherIsFewer
<1> QED
  BY <1>1, <1>2, <1>3, SameIsFewer, EmptyIsFewer DEF LinksLose

(* No handler takes a message up.                                            *)
HandsEmpty == \A k \in Conns : handler'[k].pc = "decrypt" => handler'[k] = handler[k]

LEMMA QuietStep ==
  ASSUME OnePlace, \A r \in Requests : LinksLose(r), HandsEmpty,
         workers' \subseteq workers, UNCHANGED <<callVars, executed>>
  PROVE  OnePlace'
<1>1. ASSUME NEW r \in Requests PROVE Quiet(r) /\ CallerLearnsNothing(r)
  BY DEF Quiet, CallerLearnsNothing, LinksLose, HandsEmpty, Works, Held, Delivered, Written,
         callVars
<1> QED
  BY <1>1, QuietKeepsOnce DEF OnePlace

LEMMA OthersMove ==
  ASSUME LocalTypeOK, NEW k \in Conns, NEW pc, pc # "decrypt",
         \/ handler' = [handler EXCEPT ![k].pc = pc]
         \/ \E x, y : handler' = [handler EXCEPT ![k] =
                                   [@ EXCEPT !.pc = pc, !.token = x, !.session = y]]
         \/ \E x : handler' = [handler EXCEPT ![k] = [@ EXCEPT !.pc = pc, !.msg = x]]
  PROVE  HandsEmpty
BY DEF HandsEmpty, LocalTypeOK, ServerTypeOK, HandlerType

(* The handlers, except in the read loop.                                    *)
LEMMA HandlersAreQuiet ==
  ASSUME LocalTypeOK, ConnInv, OnePlace, NEW k \in Conns,
         \/ GiveUpHandshake(k) \/ CheckSession(k) \/ AcceptCode(k) \/ RejectCode(k)
         \/ AnswerHandshake(k) \/ Install(k) \/ AgentConnected(k) \/ DecryptPanics(k)
         \/ ReadFails(k) \/ Teardown(k) \/ AgentDisconnected(k) \/ ReadPing(k) \/ Pong(k)
  PROVE  OnePlace'
<1>1. UNCHANGED <<callVars, workers, executed>>
  BY DEF GiveUpHandshake, CheckSession, AcceptCode, RejectCode, AnswerHandshake, Install,
         AgentConnected, DecryptPanics, ReadFails, Teardown, AgentDisconnected, ReadPing, Pong,
         agentVars
<1>2. HandsEmpty
  <2>1. CASE GiveUpHandshake(k) \/ AcceptCode(k) \/ RejectCode(k) \/ AnswerHandshake(k)
    BY <2>1, OthersMove DEF GiveUpHandshake, AcceptCode, RejectCode, AnswerHandshake
  <2>2. CASE \/ Install(k) \/ AgentConnected(k) \/ ReadFails(k) \/ Teardown(k)
             \/ AgentDisconnected(k) \/ ReadPing(k) \/ Pong(k)
    BY <2>2, OthersMove DEF Install, AgentConnected, ReadFails, Teardown, AgentDisconnected,
                            ReadPing, Pong
  <2>3. CASE CheckSession(k)
    <3>1. PICK pc \in {"accepted", "code"} : \E x, y :
            handler' = [handler EXCEPT ![k] = [@ EXCEPT !.pc = pc, !.token = x, !.session = y]]
      BY <2>3 DEF CheckSession
    <3> QED
      BY <3>1, OthersMove
  <2>4. CASE DecryptPanics(k)
    BY <2>4, OthersMove DEF DecryptPanics
  <2> QED
    BY <2>1, <2>2, <2>3, <2>4
<1>3. \A r \in Requests : LinksLose(r)
  <2>1. CASE \/ AcceptCode(k) \/ Install(k) \/ AgentConnected(k) \/ DecryptPanics(k)
             \/ Teardown(k) \/ AgentDisconnected(k) \/ ReadPing(k) \/ Pong(k)
    BY <2>1, ShorterLinks DEF AcceptCode, Install, AgentConnected, DecryptPanics, Teardown,
                              AgentDisconnected, ReadPing, Pong
  <2>2. CASE GiveUpHandshake(k) \/ ReadFails(k)
    <3>1. link' = [link EXCEPT ![k] = ServerClosed(@)]
      BY <2>2 DEF GiveUpHandshake, ReadFails
    <3>2. \A j \in Conns : /\ link'[j].toServer \in {<<>>, link[j].toServer}
                           /\ link'[j].toAgent = link[j].toAgent
      BY <3>1 DEF ServerClosed, LocalTypeOK, LinkTypeOK, LinkType
    <3> QED
      BY <3>2, ShorterLinks
  <2>3. CASE CheckSession(k)
    BY <2>3, ServerReads DEF CheckSession
  <2>4. CASE AnswerHandshake(k)
    <3> DEFINE m == [type |-> "result", accepted |-> TRUE, session |-> FreshToken]
    <3>1. link' = ToAgent(k, m) /\ FreshToken \in Tokens
      BY <2>4, FreshTokenIsFresh DEF AnswerHandshake
    <3>2. m \in AuthResult \cup Request /\ \A r \in Requests : m \notin RequestsOf(r)
      BY <3>1 DEF AuthResult, RequestsOf, Request
    <3> HIDE DEF m
    <3>3. \A j \in Conns : link'[j].toServer = link[j].toServer
      BY <3>1 DEF ToAgent, LocalTypeOK, LinkTypeOK, LinkType
    <3> QED
      BY <3>1, <3>2, <3>3, AgentIsTold
  <2>5. CASE RejectCode(k)
    <3> DEFINE m == [type |-> "result", accepted |-> FALSE, session |-> NoToken]
    <3>1. link' = [ToAgent(k, m) EXCEPT ![k] = ServerClosed(@)]
      BY <2>5 DEF RejectCode
    <3>2. m \in AuthResult \cup Request /\ \A r \in Requests : m \notin RequestsOf(r)
      BY DEF AuthResult, RequestsOf, Request
    <3> HIDE DEF m
    <3>3. \A j \in Conns : /\ link'[j].toServer \in {<<>>, link[j].toServer}
                           /\ link'[j].toAgent = ToAgent(k, m)[j].toAgent
      BY <3>1 DEF ToAgent, ServerClosed, LocalTypeOK, LinkTypeOK, LinkType
    <3> QED
      BY <3>2, <3>3, AgentIsTold
  <2> QED
    BY <2>1, <2>2, <2>3, <2>4, <2>5
<1> QED
  BY <1>1, <1>2, <1>3, QuietStep

LEMMA HandlersStay == UNCHANGED handler => HandsEmpty
BY DEF HandsEmpty

(* An agent that dials says hello, and has nothing else to say.              *)
LEMMA DialIsQuiet ==
  ASSUME LocalTypeOK, ConnInv, OnePlace, NEW a \in Agents, Dial(a)
  PROVE  OnePlace'
<1>1. PICK k \in Conns : k = dials + 1
  BY TransportAssumption DEF Dial, LocalTypeOK, LinkTypeOK
<1>2. /\ handler' = [handler EXCEPT ![k].pc = "auth"]
      /\ UNCHANGED <<callVars, workers, executed>>
      /\ \A j \in Conns : j # k => link'[j] = link[j]
      /\ link'[k].toServer = <<Hello(agent[a])>> /\ link'[k].toAgent = <<>>
  BY <1>1 DEF Dial, LocalTypeOK, LinkTypeOK
<1>3. HandsEmpty
  BY <1>2, OthersMove
<1>4. ASSUME NEW r \in Requests PROVE LinksLose(r)
  <2>1. Hello(agent[a]) \notin ResponsesOf(r)
    BY DEF Hello, ResponsesOf, Response
  <2>2. \A i \in 1..Len(link'[k].toServer) : link'[k].toServer[i] = Hello(agent[a])
    BY <1>2
  <2>3. Fewer(link'[k].toServer, link[k].toServer, ResponsesOf(r))
    BY <2>1, <2>2 DEF Fewer
  <2> QED
    BY <1>2, <2>3, QueueTypes, SameIsFewer, EmptyIsFewer DEF LinksLose
<1> QED
  BY <1>2, <1>3, <1>4, QuietStep

LEMMA GivingUpIsQuiet ==
  ASSUME LocalTypeOK, ConnInv, OnePlace, NEW a \in Agents,
         StartAgent(a) \/ FailedDial(a) \/ GiveUpAuth(a) \/ Refused(a) \/ ConnectionLost(a)
           \/ Quit(a)
  PROVE  OnePlace'
<1>1. /\ UNCHANGED <<handler, callVars, executed>>
      /\ workers' \subseteq workers
  BY DEF StartAgent, FailedDial, GiveUpAuth, Refused, ConnectionLost, Quit
<1>2. \A j \in Conns : link'[j] \in {link[j], AgentClosed(link[j])}
  <2>1. \/ UNCHANGED link
        \/ link' = [link EXCEPT ![agent[a].conn] = AgentClosed(@)]
        \/ link' = [k \in Conns |-> IF link[k].owner = a THEN AgentClosed(link[k]) ELSE link[k]]
    BY DEF StartAgent, FailedDial, GiveUpAuth, Refused, ConnectionLost, Quit
  <2>2. link \in [Conns -> LinkType]
    BY DEF LocalTypeOK, LinkTypeOK
  <2> QED
    BY <2>1, <2>2
<1>3. \A j \in Conns : /\ link'[j].toServer \in {<<>>, link[j].toServer}
                       /\ link'[j].toAgent \in {<<>>, link[j].toAgent}
  <2>1. \A j \in Conns : link[j] \in LinkType
    BY DEF LocalTypeOK, LinkTypeOK
  <2>2. \A j \in Conns : /\ AgentClosed(link[j]).toServer = link[j].toServer
                         /\ AgentClosed(link[j]).toAgent = <<>>
    BY <2>1, AgentClosedType
  <2> QED
    BY <1>2, <2>2
<1> QED
  BY <1>1, <1>3, HandlersStay, ShorterLinks, QuietStep

LEMMA ConnectedIsQuiet ==
  ASSUME LocalTypeOK, ConnInv, OnePlace, NEW a \in Agents, Connected(a)
  PROVE  OnePlace'
<1>1. PICK k \in Conns : k = agent[a].conn
  BY DEF Connected, ConnInv, AgentsHoldLinks
<1>2. /\ link[k].toAgent # <<>> /\ link' = [link EXCEPT ![k].toAgent = Tail(@)]
      /\ UNCHANGED <<handler, callVars, workers, executed>>
  BY <1>1 DEF Connected
<1> QED
  BY <1>2, HandlersStay, AgentReads, QuietStep

LEMMA LoseIsQuiet ==
  ASSUME LocalTypeOK, OnePlace, NEW k \in Conns, Lose(k)
  PROVE  OnePlace'
<1>1. PICK c \in Cut(link[k]) : link' = [link EXCEPT ![k] = c]
  BY DEF Lose
<1>2. PICK n \in 0..Len(link[k].toServer), m \in 0..Len(link[k].toAgent) : c = CutAt(link[k], n, m)
  BY DEF Cut
<1>3. /\ link'[k].toServer = SubSeq(link[k].toServer, 1, n)
      /\ link'[k].toAgent = SubSeq(link[k].toAgent, 1, m)
      /\ \A j \in Conns : j # k => link'[j] = link[j]
  BY <1>1, <1>2 DEF CutAt, LocalTypeOK, LinkTypeOK, LinkType
<1>4. ASSUME NEW r \in Requests PROVE LinksLose(r)
  <2>1. /\ Fewer(link'[k].toServer, link[k].toServer, ResponsesOf(r))
        /\ Fewer(link'[k].toAgent, link[k].toAgent, RequestsOf(r))
    BY <1>3, QueueTypes, PrefixIsFewer
  <2> QED
    BY <1>3, <2>1, QueueTypes, SameIsFewer DEF LinksLose
<1>5. UNCHANGED <<handler, callVars, workers, executed>>
  BY DEF Lose, agentVars
<1> QED
  BY <1>4, <1>5, HandlersStay, QuietStep

-----------------------------------------------------------------------------
(* Steps that take one request on its way.                                   *)

LEMMA OneMoves ==
  ASSUME OnePlace, NEW r \in Requests, Once(r)',
         \A s \in Requests : s # r => Quiet(s) /\ CallerLearnsNothing(s)
  PROVE  OnePlace'
BY QuietKeepsOnce DEF OnePlace

LEMMA CallerWaits == UNCHANGED callVars => \A s \in Requests : CallerLearnsNothing(s)
BY DEF callVars, CallerLearnsNothing, Written

(* The agent reads the request: it leaves the network and runs.              *)
LEMMA RunKeepsOnce ==
  ASSUME LocalTypeOK, NEW k \in Conns, NEW r \in Requests, Once(r), Requested(r, k, 1),
         workers' = workers \cup {[conn |-> k, id |-> r]},
         executed' = [executed EXCEPT ![r] = @ + 1],
         link' = [link EXCEPT ![k].toAgent = Tail(@)],
         UNCHANGED <<handler, callVars>>
  PROVE  Once(r)'
<1>1. link[k].toAgent \in Seq(AuthResult \cup Request) /\ link[k].toAgent # <<>>
  BY QueueTypes DEF Requested
<1>2. /\ link'[k].toAgent = Tail(link[k].toAgent)
      /\ \A j \in Conns : j # k => link'[j].toAgent = link[j].toAgent
      /\ \A j \in Conns : link'[j].toServer = link[j].toServer
  BY DEF LocalTypeOK, LinkTypeOK, LinkType
<1>3. 1 \in 1..Len(link[k].toAgent)
  BY DEF Requested
<1>4. executed[r] = 0 /\ executed'[r] = 1
  BY <1>3 DEF Once, RunOnce, LocalTypeOK, AgentTypeOK
<1>5. RequestsOf(r)' = RequestsOf(r) /\ ResponsesOf(r)' = ResponsesOf(r)
  BY DEF RequestsOf, Request, ResponsesOf, Response
<1>6. ASSUME NEW j \in Conns, NEW i, Requested(r, j, i)' PROVE FALSE
  <2>1. CASE j = k
    <3>1. i \in 1..Len(Tail(link[k].toAgent)) /\ Tail(link[k].toAgent)[i] \in RequestsOf(r)
      BY <1>2, <1>5, <1>6, <2>1 DEF Requested
    <3>2. i + 1 \in 1..Len(link[k].toAgent) /\ i + 1 # 1 /\ Requested(r, k, i + 1)
      BY <1>1, <3>1, TailFacts DEF Requested
    <3> QED
      BY <1>3, <3>2 DEF Once, OneRequest
  <2>2. CASE j # k
    <3>1. Requested(r, j, i) /\ i \in 1..Len(link[j].toAgent)
      BY <1>2, <1>5, <1>6, <2>2 DEF Requested
    <3> QED
      BY <1>3, <2>2, <3>1 DEF Once, OneRequest
  <2> QED
    BY <2>1, <2>2
<1>7. /\ \A j \in Conns : ~Works(r, j) /\ ~Held(r, j)
      /\ \A j \in Conns : \A i \in 1..Len(link[j].toServer) : ~Answering(r, j, i)
      /\ ~Delivered(r)
  BY <1>4 DEF Once, RunOnce
<1>8. \A j \in Conns : Works(r, j)' => j = k
  BY <1>7 DEF Works
<1>9. \A j \in Conns : \A i \in 1..Len(link'[j].toServer) : ~Answering(r, j, i)'
  BY <1>2, <1>5, <1>7 DEF Answering
<1>10. (\A j \in Conns : ~Held(r, j)') /\ ~Delivered(r)'
  BY <1>7 DEF Held, Delivered, callVars
<1>11. OneRequest(r)'
  BY <1>6 DEF OneRequest
<1>12. OneAnswer(r)'
  BY <1>8, <1>9, <1>10 DEF OneAnswer
<1>13. RunOnce(r)'
  BY <1>4, <1>6, <1>9, <1>10 DEF RunOnce
<1>14. Written(r) /\ outcome[r] # "error"
  BY <1>3 DEF Once, CallerKnows
<1>15. CallerKnows(r)'
  BY <1>4, <1>14 DEF Once, CallerKnows, Written, callVars
<1> QED
  BY <1>11, <1>12, <1>13, <1>15 DEF Once

LEMMA ReadRequestKeepsOnePlace ==
  ASSUME LocalTypeOK, ConnInv, OnePlace, NEW a \in Agents, ReadRequest(a)
  PROVE  OnePlace'
<1>1. PICK k \in Conns : k = agent[a].conn
  BY DEF ReadRequest, ConnInv, AgentsHoldLinks
<1>2. agent[a].pc = "run" /\ link[k].toAgent # <<>>
  BY <1>1 DEF ReadRequest
<1>3. Head(link[k].toAgent) \in Request
  BY <1>1, <1>2, HeadToAgent
<1>4. PICK r \in Requests : r = Head(link[k].toAgent).id
  BY <1>3 DEF Request
<1>5. /\ \/ /\ workers' = workers \cup {[conn |-> k, id |-> r]}
            /\ executed' = [executed EXCEPT ![r] = @ + 1]
         \/ UNCHANGED <<workers, executed>>
      /\ link' = [link EXCEPT ![k].toAgent = Tail(@)]
      /\ UNCHANGED <<handler, callVars>>
  BY <1>1, <1>4 DEF ReadRequest
<1>6. \A s \in Requests : LinksLose(s)
  BY <1>2, <1>5, AgentReads
<1>7. CASE UNCHANGED <<workers, executed>>
  BY <1>5, <1>6, <1>7, HandlersStay, QuietStep
<1>8. CASE /\ workers' = workers \cup {[conn |-> k, id |-> r]}
           /\ executed' = [executed EXCEPT ![r] = @ + 1]
  <2>1. link[k].toAgent \in Seq(AuthResult \cup Request)
    BY QueueTypes
  <2>2. Head(link[k].toAgent) = link[k].toAgent[1] /\ 1 \in 1..Len(link[k].toAgent)
    BY <1>2, <2>1, TailFacts
  <2>3. Requested(r, k, 1)
    BY <1>3, <1>4, <2>2 DEF Requested, RequestsOf
  <2>4. Once(r)'
    BY <1>5, <1>8, <2>3, RunKeepsOnce DEF OnePlace
  <2>5. \A j \in Conns : \A s \in Requests : s # r => (Works(s, j)' <=> Works(s, j))
    BY <1>8 DEF Works
  <2>6. \A s \in Requests : s # r => executed'[s] = executed[s]
    BY <1>8 DEF LocalTypeOK, AgentTypeOK
  <2>7. \A s \in Requests : s # r => Quiet(s)
    BY <1>5, <1>6, <2>5, <2>6 DEF Quiet, LinksLose, Held, Delivered, callVars
  <2> QED
    BY <1>5, <2>4, <2>7, CallerWaits, OneMoves
<1> QED
  BY <1>5, <1>7, <1>8

(* The worker's answer is on its way, unless the connection is gone.         *)
LEMMA AnswerIsSent ==
  ASSUME LocalTypeOK, NEW k \in Conns, NEW r \in Requests, Once(r), Works(r, k),
         workers' = workers \ {[conn |-> k, id |-> r]},
         UNCHANGED <<handler, callVars, executed>>,
         \A j \in Conns : link'[j].toAgent = link[j].toAgent,
         \A j \in Conns : j # k => link'[j].toServer = link[j].toServer,
         NEW m, link'[k].toServer \in {link[k].toServer, Append(link[k].toServer, m)}
  PROVE  Once(r)'
<1>1. link[k].toServer \in Seq(Handshake \cup Response)
  BY QueueTypes
<1>2. RequestsOf(r)' = RequestsOf(r) /\ ResponsesOf(r)' = ResponsesOf(r)
  BY DEF RequestsOf, Request, ResponsesOf, Response
<1>3. executed[r] = 1 /\ executed'[r] = 1
  BY DEF Once, RunOnce
<1>4. /\ \A j \in Conns : ~Held(r, j)'
      /\ ~Delivered(r)'
      /\ \A j \in Conns : ~Works(r, j)'
  BY DEF Once, OneAnswer, Held, Delivered, callVars, Works
<1>5. ASSUME NEW j \in Conns, NEW i, Requested(r, j, i)'
      PROVE  Requested(r, j, i) /\ i \in 1..Len(link[j].toAgent)
  BY <1>2, <1>5 DEF Requested
<1>6. ASSUME NEW j \in Conns, NEW i, Answering(r, j, i)'
      PROVE  j = k /\ i = Len(link[k].toServer) + 1
  <2>1. \A n \in 1..Len(link[j].toServer) : ~Answering(r, j, n)
    BY DEF Once, OneAnswer
  <2>2. CASE link'[j].toServer = link[j].toServer
    BY <1>2, <1>6, <2>1, <2>2 DEF Answering
  <2>3. CASE j = k /\ link'[k].toServer = Append(link[k].toServer, m)
    <3>1. /\ Len(Append(link[k].toServer, m)) = Len(link[k].toServer) + 1
          /\ Len(link[k].toServer) \in Nat
          /\ \A n \in 1..Len(link[k].toServer) : Append(link[k].toServer, m)[n] = link[k].toServer[n]
      BY <1>1
    <3>2. i \in 1..Len(link[k].toServer) => FALSE
      BY <1>2, <1>6, <2>1, <2>3, <3>1 DEF Answering
    <3> QED
      BY <1>6, <2>3, <3>1, <3>2 DEF Answering
  <2> QED
    BY <2>2, <2>3
<1>7. OneRequest(r)'
  BY <1>5 DEF Once, OneRequest
<1>8. OneAnswer(r)'
  BY <1>4, <1>6 DEF OneAnswer
<1>9. RunOnce(r)'
  BY <1>3, <1>4, <1>5 DEF Once, RunOnce
<1>10. CallerKnows(r)'
  BY <1>3, <1>5 DEF Once, CallerKnows, Written, callVars
<1> QED
  BY <1>7, <1>8, <1>9, <1>10 DEF Once

LEMMA RespondKeepsOnePlace ==
  ASSUME LocalTypeOK, OnePlace, NEW w \in workers, Respond(w)
  PROVE  OnePlace'
<1>1. PICK k \in Conns, r \in Requests : w = [conn |-> k, id |-> r]
  BY DEF LocalTypeOK, AgentTypeOK
<1>2. PICK m : m = [type |-> "response", id |-> r, key |-> clientKey[k]]
  OBVIOUS
<1>3. m \in Response /\ m.id = r
  BY <1>2 DEF LocalTypeOK, AgentTypeOK, Response
<1>4. /\ workers' = workers \ {[conn |-> k, id |-> r]}
      /\ link' = [link EXCEPT ![k].toServer = IF Carries(k) THEN Append(@, m) ELSE @]
      /\ UNCHANGED <<handler, callVars, executed>>
  BY <1>1, <1>2 DEF Respond, ToServer
<1>5. /\ \A j \in Conns : link'[j].toAgent = link[j].toAgent
      /\ \A j \in Conns : j # k => link'[j].toServer = link[j].toServer
      /\ link'[k].toServer \in {link[k].toServer, Append(link[k].toServer, m)}
  BY <1>4 DEF LocalTypeOK, LinkTypeOK, LinkType
<1>6. Works(r, k)
  BY <1>1 DEF Works
<1>7. Once(r)'
  BY <1>4, <1>5, <1>6, AnswerIsSent DEF OnePlace
<1>8. ASSUME NEW s \in Requests, s # r PROVE Quiet(s)
  <2>1. m \notin ResponsesOf(s)
    BY <1>3, <1>8 DEF ResponsesOf
  <2>2. LinksLose(s)
    <3>1. /\ link[k].toServer \in Seq(Handshake \cup Response)
          /\ m \in Handshake \cup Response
      BY <1>3, QueueTypes
    <3>2. Fewer(Append(link[k].toServer, m), link[k].toServer, ResponsesOf(s))
      BY <2>1, <3>1, OtherIsFewer
    <3>3. \A j \in Conns : /\ Fewer(link[j].toServer, link[j].toServer, ResponsesOf(s))
                           /\ Fewer(link[j].toAgent, link[j].toAgent, RequestsOf(s))
      BY QueueTypes, SameIsFewer
    <3> QED
      BY <1>5, <3>2, <3>3 DEF LinksLose
  <2>3. \A j \in Conns : Works(s, j)' => Works(s, j)
    BY <1>4 DEF Works
  <2> QED
    BY <1>4, <2>2, <2>3 DEF Quiet, LinksLose, Held, Delivered, callVars
<1> QED
  BY <1>4, <1>7, <1>8, CallerWaits, OneMoves

(* The server's read loop reads the answer ...                               *)
LEMMA AnswerIsRead ==
  ASSUME LocalTypeOK, NEW k \in Conns, NEW r \in Requests, Once(r), Answering(r, k, 1),
         handler' = [handler EXCEPT ![k] = [@ EXCEPT !.pc = "decrypt",
                                                     !.msg = Head(link[k].toServer)]],
         link' = [link EXCEPT ![k].toServer = Tail(@)],
         UNCHANGED <<callVars, workers, executed>>
  PROVE  Once(r)'
<1>1. link[k].toServer \in Seq(Handshake \cup Response) /\ link[k].toServer # <<>>
  BY QueueTypes DEF Answering
<1>2. /\ link'[k].toServer = Tail(link[k].toServer)
      /\ \A j \in Conns : j # k => link'[j].toServer = link[j].toServer
      /\ \A j \in Conns : link'[j].toAgent = link[j].toAgent
      /\ \A j \in Conns : j # k => handler'[j] = handler[j]
  BY DEF LocalTypeOK, LinkTypeOK, LinkType, ServerTypeOK
<1>3. 1 \in 1..Len(link[k].toServer)
  BY DEF Answering
<1>4. RequestsOf(r)' = RequestsOf(r) /\ ResponsesOf(r)' = ResponsesOf(r)
  BY DEF RequestsOf, Request, ResponsesOf, Response
<1>5. executed[r] = 1
  BY <1>3 DEF Once, RunOnce
<1>6. (\A j \in Conns : ~Works(r, j) /\ ~Held(r, j)) /\ ~Delivered(r)
  BY <1>3 DEF Once, OneAnswer
<1>7. ASSUME NEW j \in Conns, NEW i, Answering(r, j, i)' PROVE FALSE
  <2>1. CASE j = k
    <3>1. i \in 1..Len(Tail(link[k].toServer)) /\ Tail(link[k].toServer)[i] \in ResponsesOf(r)
      BY <1>2, <1>4, <1>7, <2>1 DEF Answering
    <3>2. i + 1 \in 1..Len(link[k].toServer) /\ i + 1 # 1 /\ Answering(r, k, i + 1)
      BY <1>1, <3>1, TailFacts DEF Answering
    <3> QED
      BY <1>3, <3>2 DEF Once, OneAnswer
  <2>2. CASE j # k
    <3>1. Answering(r, j, i) /\ i \in 1..Len(link[j].toServer)
      BY <1>2, <1>4, <1>7, <2>2 DEF Answering
    <3> QED
      BY <1>3, <2>2, <3>1 DEF Once, OneAnswer
  <2> QED
    BY <2>1, <2>2
<1>8. (\A j \in Conns : ~Works(r, j)' /\ (Held(r, j)' => j = k)) /\ ~Delivered(r)'
  BY <1>2, <1>6 DEF Works, Held, Delivered, callVars
<1>9. ASSUME NEW j \in Conns, NEW i, Requested(r, j, i)'
      PROVE  Requested(r, j, i) /\ i \in 1..Len(link[j].toAgent)
  BY <1>2, <1>4, <1>9 DEF Requested
<1>10. OneRequest(r)'
  BY <1>9 DEF Once, OneRequest
<1>11. OneAnswer(r)'
  BY <1>7, <1>8 DEF OneAnswer
<1>12. RunOnce(r)'
  BY <1>5, <1>7, <1>8, <1>9 DEF Once, RunOnce
<1>13. CallerKnows(r)'
  BY <1>5, <1>9 DEF Once, CallerKnows, Written, callVars
<1> QED
  BY <1>10, <1>11, <1>12, <1>13 DEF Once

LEMMA ReadMessageKeepsOnePlace ==
  ASSUME LocalTypeOK, ConnInv, OnePlace, NEW k \in Conns, ReadMessage(k)
  PROVE  OnePlace'
<1>1. /\ handler[k].pc = "reading"
      /\ link[k].toServer # <<>>
      /\ link' = [link EXCEPT ![k].toServer = Tail(@)]
      /\ UNCHANGED <<callVars, workers, executed>>
  BY DEF ReadMessage, agentVars
<1>2. \A s \in Requests : LinksLose(s)
  BY <1>1, ServerReads
<1>3. CASE cipher = NoToken
  BY <1>1, <1>2, <1>3, HandlersStay, QuietStep DEF ReadMessage
<1>4. CASE cipher # NoToken
  <2>1. handler' = [handler EXCEPT ![k] = [@ EXCEPT !.pc = "decrypt",
                                                    !.msg = Head(link[k].toServer)]]
    BY <1>4 DEF ReadMessage
  <2>2. /\ Head(link[k].toServer) = link[k].toServer[1]
        /\ 1 \in 1..Len(link[k].toServer)
    BY <1>1, QueueTypes, TailFacts
  <2>3. Head(link[k].toServer) \in Response
    BY <1>1, <2>2 DEF ConnInv, ToServerOrder, ToServerInOrder
  <2>4. PICK r \in Requests : r = Head(link[k].toServer).id
    BY <2>3 DEF Response
  <2>5. Answering(r, k, 1)
    BY <2>2, <2>3, <2>4 DEF Answering, ResponsesOf
  <2>6. Once(r)'
    BY <1>1, <2>1, <2>5, AnswerIsRead DEF OnePlace
  <2>7. \A j \in Conns : \A s \in Requests : s # r => (Held(s, j)' => Held(s, j))
    BY <2>1, <2>4 DEF Held, LocalTypeOK, ServerTypeOK, HandlerType
  <2>8. \A s \in Requests : s # r => Quiet(s)
    BY <1>1, <1>2, <2>7 DEF Quiet, LinksLose, Works, Delivered, callVars
  <2> QED
    BY <1>1, <2>6, <2>8, CallerWaits, OneMoves
<1> QED
  BY <1>3, <1>4

(* ... and delivers it to the caller, or drops it.                           *)
LEMMA DecryptKeepsOnePlace ==
  ASSUME LocalTypeOK, ConnInv, OnePlace, NEW k \in Conns, Decrypt(k)
  PROVE  OnePlace'
<1>1. /\ handler[k].pc = "decrypt"
      /\ handler' = [handler EXCEPT ![k] = [@ EXCEPT !.pc = "reading", !.msg = NoMsg]]
      /\ UNCHANGED <<pending, call, outcome, workers, executed, link>>
  BY DEF Decrypt, agentVars
<1>2. handler[k].msg \in Response
  BY <1>1 DEF ConnInv, HandlerStages
<1>3. PICK r \in Requests : r = handler[k].msg.id
  BY <1>2 DEF Response
<1>4. respCh' \in {respCh, [respCh EXCEPT ![r] = Append(@, handler[k].msg)]}
  BY <1>3 DEF Decrypt, Deliver
<1>5. \A s \in Requests : s # r => respCh'[s] = respCh[s]
  BY <1>4 DEF LocalTypeOK, CallTypeOK
<1>6. HandsEmpty
  BY <1>1, OthersMove
<1>7. \A s \in Requests : LinksLose(s)
  BY <1>1, ShorterLinks
<1>8. \A s \in Requests : CallerLearnsNothing(s)
  BY <1>1 DEF CallerLearnsNothing, Written
<1>9. \A s \in Requests : s # r => Quiet(s)
  BY <1>1, <1>5, <1>6, <1>7 DEF Quiet, LinksLose, HandsEmpty, Held, Works, Delivered
<1>10. Once(r)'
  <2>1. Once(r) /\ Held(r, k)
    BY <1>1, <1>3 DEF OnePlace, Held
  <2>2. executed[r] = 1
    BY <2>1 DEF Once, RunOnce
  <2>3. /\ \A j \in Conns : ~Works(r, j)
        /\ \A j \in Conns : Held(r, j) => j = k
        /\ \A j \in Conns : \A i \in 1..Len(link[j].toServer) : ~Answering(r, j, i)
    BY <2>1 DEF Once, OneAnswer
  <2>4. \A j \in Conns : ~Held(r, j)'
    <3>1. handler'[k].pc = "reading" /\ \A j \in Conns : j # k => handler'[j] = handler[j]
      BY <1>1 DEF LocalTypeOK, ServerTypeOK, HandlerType
    <3> QED
      BY <2>3, <3>1 DEF Held
  <2>5. /\ \A j \in Conns : ~Works(r, j)'
        /\ \A j \in Conns : \A i \in 1..Len(link'[j].toServer) : ~Answering(r, j, i)'
        /\ \A j \in Conns : \A i : Requested(r, j, i)' <=> Requested(r, j, i)
    BY <1>1, <2>3 DEF Works, Answering, Requested, ResponsesOf, Response, RequestsOf, Request
  <2>6. OneRequest(r)'
    BY <1>1, <2>1, <2>5 DEF Once, OneRequest
  <2>7. OneAnswer(r)'
    BY <2>4, <2>5 DEF OneAnswer
  <2>8. RunOnce(r)'
    BY <1>1, <2>1, <2>2, <2>4, <2>5 DEF Once, RunOnce
  <2>9. CallerKnows(r)'
    BY <1>1, <2>1, <2>2 DEF Once, CallerKnows, Written
  <2> QED
    BY <2>6, <2>7, <2>8, <2>9 DEF Once
<1> QED
  BY <1>8, <1>9, <1>10, OneMoves

-----------------------------------------------------------------------------
(* The caller.                                                               *)

(* Steps in which the caller neither writes nor reads.                       *)
LEMMA CallerIsQuiet ==
  ASSUME LocalTypeOK, OnePlace,
         StartCall \/ TestCipher \/ Encrypt \/ EncryptPanics \/ Interrupt
  PROVE  OnePlace'
<1>1. UNCHANGED <<handler, outcome, respCh, workers, executed>>
  BY DEF StartCall, TestCipher, Encrypt, EncryptPanics, Interrupt, agentVars
<1>2. \A k \in Conns : /\ link'[k].toServer \in {<<>>, link[k].toServer}
                       /\ link'[k].toAgent \in {<<>>, link[k].toAgent}
  <2>1. CASE EncryptPanics
    BY <2>1, ServerClosedType DEF EncryptPanics, LocalTypeOK, LinkTypeOK
  <2>2. CASE StartCall \/ TestCipher \/ Encrypt \/ Interrupt
    BY <2>2 DEF StartCall, TestCipher, Encrypt, Interrupt
  <2> QED
    BY <2>1, <2>2
<1>3. \A r \in Requests : Quiet(r)
  BY <1>1, <1>2, ShorterLinks DEF Quiet, LinksLose, Works, Held, Delivered
<1>4. \A r \in Requests : CallerLearnsNothing(r)
  <2>1. call.id \in Nat
    BY DEF LocalTypeOK, CallTypeOK
  <2>2. CASE StartCall
    <3>1. call'.id = call.id + 1 /\ call'.pc = "check" /\ call.pc = "idle"
      BY <2>2 DEF StartCall, LocalTypeOK, CallTypeOK
    <3> QED
      BY <1>1, <2>1, <3>1 DEF CallerLearnsNothing, Written
  <2>3. CASE TestCipher \/ Encrypt \/ EncryptPanics
    <3>1. /\ call'.id = call.id /\ call'.pc \in {"encrypt", "write", "crashed"}
          /\ call.pc \in {"check", "encrypt"}
      BY <2>3 DEF TestCipher, Encrypt, EncryptPanics, LocalTypeOK, CallTypeOK
    <3> QED
      BY <1>1, <3>1 DEF CallerLearnsNothing, Written
  <2>4. CASE Interrupt
    <3>1. call'.id = call.id /\ call'.pc = call.pc
      BY <2>4 DEF Interrupt, LocalTypeOK, CallTypeOK
    <3> QED
      BY <1>1, <3>1 DEF CallerLearnsNothing, Written
  <2> QED
    BY <2>2, <2>3, <2>4
<1> QED
  BY <1>3, <1>4, QuietKeepsOnce DEF OnePlace

LEMMA LinksStay == LocalTypeOK /\ UNCHANGED link => \A r \in Requests : LinksLose(r)
BY ShorterLinks

(* SendRequest returns from the request r: nothing moves but what the caller *)
(* may have taken from its channel.                                          *)
LEMMA ReturnKeepsOnePlace ==
  ASSUME LocalTypeOK, OnePlace, NEW res \in {"ok", "error", "interrupted"}, Return(res),
         call.pc \in {"write", "wait"}, call.id \in Requests,
         UNCHANGED <<handler, workers, executed, link>>,
         \A s \in Requests : respCh'[s] # <<>> => respCh[s] # <<>>,
         res = "ok" => call.pc = "wait" /\ executed[call.id] = 1,
         res = "error" => call.pc = "write"
  PROVE  OnePlace'
<1>1. PICK r \in Requests : r = call.id
  OBVIOUS
<1>2. /\ call'.id = r /\ call'.pc = "idle"
      /\ outcome'[r] = res
      /\ \A s \in Requests : s # r => outcome'[s] = outcome[s]
  BY <1>1 DEF Return, LocalTypeOK, CallTypeOK
<1>3. \A s \in Requests : Quiet(s)
  BY LinksStay DEF Quiet, LinksLose, Works, Held, Delivered
<1>4. \A s \in Requests : s # r => CallerLearnsNothing(s)
  BY <1>1, <1>2 DEF CallerLearnsNothing, Written
<1>5. Once(r)
  BY DEF OnePlace
<1>6. OneRequest(r)' /\ OneAnswer(r)' /\ RunOnce(r)'
  BY <1>3, <1>5, QuietKeepsPlaces DEF Once
<1>7. CallerKnows(r)'
  <2>1. CASE res \in {"ok", "interrupted"}
    BY <1>1, <1>2, <2>1 DEF CallerKnows, Written
  <2>2. CASE res = "error"
    <3>1. ~Written(r)
      BY <1>1, <2>2 DEF Written, LocalTypeOK, CallTypeOK
    <3>2. /\ executed[r] = 0
          /\ \A k \in Conns : \A i \in 1..Len(link[k].toAgent) : ~Requested(r, k, i)
      BY <1>5, <3>1 DEF Once, CallerKnows
    <3>3. \A k \in Conns : \A i \in 1..Len(link'[k].toAgent) : ~Requested(r, k, i)'
      BY <3>2 DEF Requested, RequestsOf, Request
    <3> QED
      BY <1>2, <2>2, <3>2, <3>3 DEF CallerKnows, Written
  <2> QED
    BY <2>1, <2>2
<1> QED
  BY <1>3, <1>4, <1>6, <1>7, OneMoves DEF Once

(* The request enters the network, or not: it was nowhere before.            *)
LEMMA SendKeepsOnce ==
  ASSUME LocalTypeOK, NEW r \in Requests, Once(r), r = call.id, call.pc = "write",
         call'.id = r, call'.pc \in {"wait", "idle"},
         outcome'[r] \in {"none", "interrupted"}, call'.pc = "wait" => outcome'[r] = "none",
         UNCHANGED <<respCh, handler, workers, executed>>,
         NEW k \in Conns, NEW m, RequestGoes(k, m)
  PROVE  Once(r)'
<1>1. ~Written(r)
  BY DEF Written, LocalTypeOK, CallTypeOK
<1>2. /\ executed[r] = 0
      /\ \A j \in Conns : \A i \in 1..Len(link[j].toAgent) : ~Requested(r, j, i)
  BY <1>1 DEF Once, CallerKnows
<1>3. /\ \A j \in Conns : ~Works(r, j) /\ ~Held(r, j)
      /\ \A j \in Conns : \A i \in 1..Len(link[j].toServer) : ~Answering(r, j, i)
      /\ ~Delivered(r)
  BY <1>2 DEF Once, RunOnce
<1>4. RequestsOf(r)' = RequestsOf(r) /\ ResponsesOf(r)' = ResponsesOf(r)
  BY DEF RequestsOf, Request, ResponsesOf, Response
<1>5. /\ \A j \in Conns : j # k => link'[j] = link[j]
      /\ \A i \in 1..Len(link'[k].toAgent) :
           \/ i \in 1..Len(link[k].toAgent) /\ link'[k].toAgent[i] = link[k].toAgent[i]
           \/ i = Len(link[k].toAgent) + 1
      /\ \A i \in 1..Len(link'[k].toServer) :
           i \in 1..Len(link[k].toServer) /\ link'[k].toServer[i] = link[k].toServer[i]
  BY DEF RequestGoes, Leaves
<1>6. ASSUME NEW j \in Conns, NEW i, Requested(r, j, i)'
      PROVE  j = k /\ i = Len(link[k].toAgent) + 1
  <2>1. CASE j # k
    BY <1>2, <1>4, <1>5, <1>6, <2>1 DEF Requested
  <2>2. CASE j = k
    <3>1. i \in 1..Len(link'[k].toAgent) /\ link'[k].toAgent[i] \in RequestsOf(r)
      BY <1>4, <1>6, <2>2 DEF Requested
    <3>2. ~(i \in 1..Len(link[k].toAgent) /\ link'[k].toAgent[i] = link[k].toAgent[i])
      BY <1>2, <3>1 DEF Requested
    <3> QED
      BY <1>5, <2>2, <3>1, <3>2
  <2> QED
    BY <2>1, <2>2
<1>7. /\ \A j \in Conns : ~Works(r, j)' /\ ~Held(r, j)'
      /\ \A j \in Conns : \A i \in 1..Len(link'[j].toServer) : ~Answering(r, j, i)'
      /\ ~Delivered(r)'
  BY <1>3, <1>4, <1>5 DEF Works, Held, Delivered, Answering
<1>8. OneRequest(r)'
  BY <1>6 DEF OneRequest
<1>9. OneAnswer(r)' /\ RunOnce(r)'
  BY <1>2, <1>7 DEF OneAnswer, RunOnce
<1>10. Written(r)'
  BY DEF Written, LocalTypeOK, CallTypeOK
<1>11. CallerKnows(r)'
  BY <1>10 DEF CallerKnows
<1> QED
  BY <1>8, <1>9, <1>11 DEF Once

LEMMA WritingKeepsOnePlace ==
  ASSUME LocalTypeOK, ConnInv, OnePlace, WriteRequest \/ WriteCancelled
  PROVE  OnePlace'
<1>1. /\ call.pc = "write" /\ call.id \in Requests
      /\ UNCHANGED <<respCh, handler, workers, executed>>
  BY DEF WriteRequest, WriteCancelled, agentVars, ConnInv, CallNumbered
<1>2. PICK r \in Requests : r = call.id
  BY <1>1
<1>3. PICK k \in Conns, m \in Request : m.id = r /\ RequestGoes(k, m)
  BY <1>2, RequestIsSent
<1>4. /\ call'.id = r /\ call'.pc \in {"wait", "idle"}
      /\ outcome'[r] \in {outcome[r], "interrupted"}
      /\ call'.pc = "wait" => outcome'[r] = outcome[r]
      /\ \A s \in Requests : s # r => outcome'[s] = outcome[s]
  BY <1>2 DEF WriteRequest, WriteCancelled, Return, LocalTypeOK, CallTypeOK
<1>5. outcome[r] = "none"
  BY <1>1, <1>2 DEF OnePlace, Once, CallerKnows, Written, LocalTypeOK, CallTypeOK
<1>6. Once(r)'
  BY <1>1, <1>2, <1>3, <1>4, <1>5, SendKeepsOnce DEF OnePlace
<1>7. ASSUME NEW s \in Requests, s # r PROVE Quiet(s) /\ CallerLearnsNothing(s)
  <2>1. m \notin RequestsOf(s)
    BY <1>3, <1>7 DEF RequestsOf
  <2>2. /\ \A j \in Conns : j # k => link'[j] = link[j]
        /\ \A i \in 1..Len(link'[k].toAgent) :
             \/ i \in 1..Len(link[k].toAgent) /\ link'[k].toAgent[i] = link[k].toAgent[i]
             \/ link'[k].toAgent[i] = m
        /\ \A i \in 1..Len(link'[k].toServer) :
             i \in 1..Len(link[k].toServer) /\ link'[k].toServer[i] = link[k].toServer[i]
    BY <1>3 DEF RequestGoes, Leaves
  <2>3. Fewer(link'[k].toAgent, link[k].toAgent, RequestsOf(s))
    <3>1. \A i \in 1..Len(link'[k].toAgent) :
            link'[k].toAgent[i] \in RequestsOf(s) =>
              i + 0 \in 1..Len(link[k].toAgent) /\ link'[k].toAgent[i] = link[k].toAgent[i + 0]
      BY <2>1, <2>2
    <3> QED
      BY <3>1 DEF Fewer
  <2>4. Fewer(link'[k].toServer, link[k].toServer, ResponsesOf(s))
    <3>1. \A i \in 1..Len(link'[k].toServer) :
            link'[k].toServer[i] \in ResponsesOf(s) =>
              i + 0 \in 1..Len(link[k].toServer) /\ link'[k].toServer[i] = link[k].toServer[i + 0]
      BY <2>2
    <3> QED
      BY <3>1 DEF Fewer
  <2>5. LinksLose(s)
    BY <2>2, <2>3, <2>4, QueueTypes, SameIsFewer DEF LinksLose
  <2> QED
    BY <1>1, <1>2, <1>4, <1>7, <2>5
       DEF Quiet, LinksLose, Works, Held, Delivered, CallerLearnsNothing, Written
<1> QED
  BY <1>6, <1>7, OneMoves

LEMMA FailedCallKeepsOnePlace ==
  ASSUME LocalTypeOK, ConnInv, OnePlace, NotSent \/ CallCancelled
  PROVE  OnePlace'
<1>1. CASE NotSent
  BY <1>1, ReturnKeepsOnePlace DEF NotSent, agentVars, ConnInv, CallNumbered
<1>2. CASE CallCancelled
  BY <1>2, ReturnKeepsOnePlace DEF CallCancelled, agentVars, ConnInv, CallNumbered
<1> QED
  BY <1>1, <1>2

LEMMA ReceiveResponseKeepsOnePlace ==
  ASSUME LocalTypeOK, ConnInv, OnePlace, ReceiveResponse
  PROVE  OnePlace'
<1>1. /\ call.pc = "wait" /\ call.id \in Requests /\ Delivered(call.id)
      /\ Return("ok")
      /\ respCh' = [respCh EXCEPT ![call.id] = Tail(@)]
      /\ UNCHANGED <<handler, workers, executed, link>>
  BY DEF ReceiveResponse, agentVars, ConnInv, CallNumbered, Delivered
<1>2. \A s \in Requests : respCh'[s] # <<>> => respCh[s] # <<>>
  BY <1>1 DEF LocalTypeOK, CallTypeOK, Delivered
<1>3. executed[call.id] = 1
  BY <1>1 DEF OnePlace, Once, RunOnce
<1> QED
  BY <1>1, <1>2, <1>3, ReturnKeepsOnePlace

-----------------------------------------------------------------------------
(* The invariant.                                                            *)

LEMMA InitOnePlace == Init => OnePlace
<1> SUFFICES ASSUME Init, NEW r \in Requests PROVE Once(r)
  BY DEF OnePlace
<1>1. /\ executed[r] = 0 /\ outcome[r] = "none" /\ respCh[r] = <<>> /\ workers = {}
      /\ \A k \in Conns : /\ handler[k].pc = "none"
                          /\ link[k].toServer = <<>> /\ link[k].toAgent = <<>>
  BY DEF Init
<1>2. \A k \in Conns : Len(link[k].toServer) = 0 /\ Len(link[k].toAgent) = 0
  BY <1>1
<1>3. \A k \in Conns : \A i : ~Requested(r, k, i) /\ ~Answering(r, k, i)
  BY <1>2 DEF Requested, Answering
<1>4. ~Delivered(r) /\ \A k \in Conns : ~Works(r, k) /\ ~Held(r, k)
  BY <1>1 DEF Delivered, Works, Held
<1> QED
  BY <1>1, <1>3, <1>4 DEF Once, OneRequest, OneAnswer, RunOnce, CallerKnows

LEMMA OutsideIsQuiet ==
  ASSUME LocalTypeOK, OnePlace, StartServer \/ Tick \/ UNCHANGED vars
  PROVE  OnePlace'
<1>1. UNCHANGED <<handler, callVars, workers, executed, link>>
  BY DEF StartServer, Tick, vars, agentVars
<1> QED
  BY <1>1, LinksStay, HandlersStay, QuietStep

LEMMA NextKeepsOnePlace ==
  LocalTypeOK /\ ConnInv /\ OnePlace /\ [Next]_vars => OnePlace'
<1> SUFFICES ASSUME LocalTypeOK, ConnInv, OnePlace, [Next]_vars PROVE OnePlace'
  OBVIOUS
<1>1. CASE StartServer \/ Tick \/ UNCHANGED vars
  BY <1>1, OutsideIsQuiet
<1>2. CASE StartCall \/ Call \/ Interrupt
  BY <1>2, CallerIsQuiet, WritingKeepsOnePlace, FailedCallKeepsOnePlace,
     ReceiveResponseKeepsOnePlace DEF Call
<1>3. CASE \E k \in Conns : Handle(k) \/ HandshakeTimeout(k) \/ Lose(k) \/ ReadPing(k)
  <2>1. PICK k \in Conns : Handle(k) \/ HandshakeTimeout(k) \/ Lose(k) \/ ReadPing(k)
    BY <1>3
  <2>2. CASE ReadMessage(k) \/ Decrypt(k) \/ Lose(k)
    BY <2>2, ReadMessageKeepsOnePlace, DecryptKeepsOnePlace, LoseIsQuiet
  <2>3. CASE ~(ReadMessage(k) \/ Decrypt(k) \/ Lose(k))
    BY <2>1, <2>3, HandlersAreQuiet DEF Handle, HandshakeLost, HandshakeTimeout
  <2> QED
    BY <2>2, <2>3
<1>4. CASE \E a \in Agents : StartAgent(a) \/ Agent(a) \/ DialFails(a) \/ AuthTimeout(a) \/ Quit(a)
  <2>1. PICK a \in Agents : StartAgent(a) \/ Agent(a) \/ DialFails(a) \/ AuthTimeout(a) \/ Quit(a)
    BY <1>4
  <2>2. CASE Dial(a) \/ Connected(a) \/ ReadRequest(a)
    BY <2>2, DialIsQuiet, ConnectedIsQuiet, ReadRequestKeepsOnePlace
  <2>3. CASE ~(Dial(a) \/ Connected(a) \/ ReadRequest(a))
    BY <2>1, <2>3, GivingUpIsQuiet DEF Agent, NoServer, DialFails, AuthResultLost, AuthTimeout
  <2> QED
    BY <2>2, <2>3
<1>5. CASE \E w \in workers : Respond(w)
  BY <1>5, RespondKeepsOnePlace
<1> QED
  BY <1>1, <1>2, <1>3, <1>4, <1>5 DEF Next

CallInv == IInv /\ OnePlace

(* Wherever connections break, calls are cancelled and requests are lost, a   *)
(* request is in one place at a time, and nowhere after a call that failed   *)
(* without being interrupted (server.go:110-168, 284-315, client.go:126-222). *)
THEOREM CallInvHolds == Spec => []CallInv
<1>1. Init => CallInv
  BY InitInv, AuthInvInit, InitOnePlace DEF CallInv, IInv
<1>2. CallInv /\ [Next]_vars => CallInv'
  BY NextKeepsIInv, NextKeepsOnePlace DEF CallInv, IInv
<1> QED
  BY <1>1, <1>2, PTL DEF Spec

-----------------------------------------------------------------------------
(* Each step of the transport is a step of a remote call, or none.           *)

States == [r \in Requests |-> CallState(r)]

(* Steps that the abstract call does not see.                                *)
LEMMA MostStepsStutter ==
  ASSUME LocalTypeOK, [Next]_vars,
         ~StartCall, ~NotSent, ~WriteCancelled, ~ReceiveResponse, ~CallCancelled,
         ~\E a \in Agents : ReadRequest(a)
  PROVE  UNCHANGED <<States, executed>>
<1>1. UNCHANGED <<outcome, executed>> /\ call'.id = call.id
  <2>1. CASE StartServer \/ Tick \/ UNCHANGED vars
    BY <2>1 DEF StartServer, Tick, vars, callVars, agentVars
  <2>2. CASE TestCipher \/ Encrypt \/ EncryptPanics \/ WriteRequest \/ Interrupt
    BY <2>2 DEF TestCipher, Encrypt, EncryptPanics, WriteRequest, Interrupt, agentVars,
                LocalTypeOK, CallTypeOK
  <2>3. CASE \E k \in Conns : Handle(k) \/ HandshakeTimeout(k) \/ Lose(k) \/ ReadPing(k)
    BY <2>3 DEF Handle, HandshakeLost, HandshakeTimeout, GiveUpHandshake, CheckSession,
                AcceptCode, RejectCode, AnswerHandshake, Install, AgentConnected, ReadMessage,
                Decrypt, Pong, DecryptPanics, ReadFails, Teardown, AgentDisconnected, Lose,
                ReadPing, callVars, agentVars
  <2>4. CASE \E a \in Agents : StartAgent(a) \/ Agent(a) \/ DialFails(a) \/ AuthTimeout(a) \/ Quit(a)
    BY <2>4 DEF StartAgent, Agent, Dial, NoServer, FailedDial, DialFails, Connected, Refused,
                AuthResultLost, AuthTimeout, GiveUpAuth, ConnectionLost, Quit, callVars
  <2>5. CASE \E w \in workers : Respond(w)
    BY <2>5 DEF Respond, callVars
  <2> QED
    BY <2>1, <2>2, <2>3, <2>4, <2>5 DEF Next, Call
<1> QED
  BY <1>1 DEF States, CallState

(* IsConnected and the next id: the caller starts to wait.                   *)
LEMMA StartCallOpens ==
  ASSUME LocalTypeOK, OnePlace, StartCall
  PROVE  \E r \in Requests : Remote!Open(r)
<1>1. call.id \in Nat /\ call.id < MaxRequests
  BY DEF StartCall, LocalTypeOK, CallTypeOK
<1>2. PICK r \in Requests : r = call.id + 1
  BY <1>1, TransportAssumption
<1>3. outcome[r] = "none"
  BY <1>1, <1>2 DEF OnePlace, Once, CallerKnows, Written
<1>4. call'.id = r /\ UNCHANGED <<outcome, executed>>
  BY <1>2 DEF StartCall, agentVars, LocalTypeOK, CallTypeOK
<1>5. CallState(r) = "new" /\ CallState(r)' = "open"
  BY <1>1, <1>2, <1>3, <1>4 DEF CallState
<1>6. \A s \in Requests : s # r => CallState(s)' = CallState(s)
  BY <1>1, <1>2, <1>4 DEF CallState
<1> QED
  BY <1>4, <1>5, <1>6 DEF Remote!Open

(* The agent takes the request: it runs, for the only time.                  *)
LEMMA ReadRequestRuns ==
  ASSUME LocalTypeOK, ConnInv, OnePlace, NEW a \in Agents, ReadRequest(a)
  PROVE  (\E r \in Requests : Remote!Run(r)) \/ UNCHANGED <<States, executed>>
<1>1. PICK k \in Conns : k = agent[a].conn
  BY DEF ReadRequest, ConnInv, AgentsHoldLinks
<1>2. agent[a].pc = "run" /\ link[k].toAgent # <<>> /\ UNCHANGED callVars
  BY <1>1 DEF ReadRequest
<1>3. Head(link[k].toAgent) \in Request
  BY <1>1, <1>2, HeadToAgent
<1>4. PICK r \in Requests : r = Head(link[k].toAgent).id
  BY <1>3 DEF Request
<1>5. executed' = [executed EXCEPT ![r] = @ + 1] \/ UNCHANGED executed
  BY <1>1, <1>4 DEF ReadRequest
<1>6. \A s \in Requests : CallState(s)' = CallState(s)
  BY <1>2 DEF callVars, CallState
<1>7. CASE executed' = [executed EXCEPT ![r] = @ + 1]
  <2>1. Head(link[k].toAgent) = link[k].toAgent[1] /\ 1 \in 1..Len(link[k].toAgent)
    BY <1>2, QueueTypes, TailFacts
  <2>2. Requested(r, k, 1)
    BY <1>3, <1>4, <2>1 DEF Requested, RequestsOf
  <2>3. executed[r] = 0 /\ Written(r)
    BY <2>1, <2>2 DEF OnePlace, Once, RunOnce, CallerKnows
  <2>4. outcome[r] \in {"none", "interrupted"}
    BY <2>1, <2>2, <2>3 DEF OnePlace, Once, CallerKnows, LocalTypeOK, CallTypeOK
  <2>5. r <= call.id
    BY <2>3 DEF Written, LocalTypeOK, CallTypeOK
  <2>6. CallState(r) \in {"open", "interrupted"}
    BY <2>4, <2>5 DEF CallState
  <2>7. executed' = [executed EXCEPT ![r] = 1]
    BY <1>7, <2>3 DEF LocalTypeOK, AgentTypeOK
  <2> QED
    BY <1>6, <2>3, <2>6, <2>7 DEF Remote!Run
<1>8. CASE UNCHANGED executed
  BY <1>6, <1>8 DEF States
<1> QED
  BY <1>5, <1>7, <1>8

(* SendRequest returns r: what the caller sees of it changes, and only that. *)
LEMMA ReturnChangesOne ==
  ASSUME LocalTypeOK, NEW res \in {"ok", "error", "interrupted"}, Return(res),
         NEW r \in Requests, r = call.id, outcome[r] = "none"
  PROVE  /\ States[r] = "open"
         /\ States' = [States EXCEPT ![r] = res]
<1>1. /\ call'.id = call.id /\ outcome'[r] = res
      /\ \A s \in Requests : s # r => outcome'[s] = outcome[s]
  BY DEF Return, LocalTypeOK, CallTypeOK
<1>2. CallState(r) = "open" /\ CallState(r)' = res
  BY <1>1 DEF CallState
<1>3. \A s \in Requests : s # r => CallState(s)' = CallState(s)
  BY <1>1 DEF CallState
<1> QED
  BY <1>2, <1>3 DEF States

LEMMA NotSentFails ==
  ASSUME LocalTypeOK, ConnInv, OnePlace, NotSent
  PROVE  \E r \in Requests : Remote!Fail(r)
<1>1. PICK r \in Requests : r = call.id
  BY DEF NotSent, ConnInv, CallNumbered
<1>2. call.pc = "write" /\ Return("error") /\ UNCHANGED executed
  BY DEF NotSent, agentVars
<1>3. ~Written(r)
  BY <1>1, <1>2 DEF Written, LocalTypeOK, CallTypeOK
<1>4. executed[r] = 0 /\ outcome[r] = "none"
  BY <1>3 DEF OnePlace, Once, CallerKnows
<1>5. States[r] = "open" /\ States' = [States EXCEPT ![r] = "error"]
  BY <1>1, <1>2, <1>4, ReturnChangesOne
<1> QED
  BY <1>2, <1>4, <1>5 DEF Remote!Fail, States

LEMMA CancelledAbandons ==
  ASSUME LocalTypeOK, ConnInv, OnePlace, WriteCancelled \/ CallCancelled
  PROVE  \E r \in Requests : Remote!Abandon(r)
<1>1. PICK r \in Requests : r = call.id
  BY DEF WriteCancelled, CallCancelled, ConnInv, CallNumbered
<1>2. call.pc \in {"write", "wait"} /\ Return("interrupted") /\ UNCHANGED executed
  BY DEF WriteCancelled, CallCancelled, agentVars
<1>3. outcome[r] = "none"
  BY <1>1, <1>2 DEF OnePlace, Once, CallerKnows, Written, LocalTypeOK, CallTypeOK
<1>4. States[r] = "open" /\ States' = [States EXCEPT ![r] = "interrupted"]
  BY <1>1, <1>2, <1>3, ReturnChangesOne
<1> QED
  BY <1>2, <1>4 DEF Remote!Abandon, States

LEMMA ReceiveResponseAnswers ==
  ASSUME LocalTypeOK, ConnInv, OnePlace, ReceiveResponse
  PROVE  \E r \in Requests : Remote!Answer(r)
<1>1. PICK r \in Requests : r = call.id
  BY DEF ReceiveResponse, ConnInv, CallNumbered
<1>2. call.pc = "wait" /\ Delivered(r) /\ Return("ok") /\ UNCHANGED executed
  BY <1>1 DEF ReceiveResponse, agentVars, Delivered
<1>3. executed[r] = 1 /\ outcome[r] = "none"
  BY <1>1, <1>2 DEF OnePlace, Once, RunOnce, CallerKnows
<1>4. States[r] = "open" /\ States' = [States EXCEPT ![r] = "ok"]
  BY <1>1, <1>2, <1>3, ReturnChangesOne
<1> QED
  BY <1>2, <1>3, <1>4 DEF Remote!Answer, States

LEMMA StepIsRemoteStep ==
  CallInv /\ [Next]_vars => [Remote!Next]_<<States, executed>>
<1> SUFFICES ASSUME LocalTypeOK, ConnInv, OnePlace, [Next]_vars
             PROVE  Remote!Next \/ UNCHANGED <<States, executed>>
  BY DEF CallInv, IInv
<1>1. CASE StartCall
  BY <1>1, StartCallOpens DEF Remote!Next
<1>2. CASE \E a \in Agents : ReadRequest(a)
  BY <1>2, ReadRequestRuns DEF Remote!Next
<1>3. CASE NotSent
  BY <1>3, NotSentFails DEF Remote!Next
<1>5. CASE WriteCancelled \/ CallCancelled
  BY <1>5, CancelledAbandons DEF Remote!Next
<1>4. CASE ReceiveResponse
  BY <1>4, ReceiveResponseAnswers DEF Remote!Next
<1> QED
  BY <1>1, <1>2, <1>3, <1>4, <1>5, MostStepsStutter

(* Over lost links, reconnections, dropped and late responses and            *)
(* interruptions, a request runs at most once, an answer SendRequest returns *)
(* is the answer of that one run, and an error it returns means that the     *)
(* request did not run and never will, unless it is the error of a cancelled *)
(* context, after which the request may still run, but not twice             *)
(* (server.go:110-168, client.go:126-222).                                   *)
THEOREM CallIsRemoteCall == Spec => ImplementsRemoteCall
<1>1. Init => Remote!Init
  BY DEF Init, Remote!Init, CallState
<1>2. CallInv /\ [Next]_vars => [Remote!Next]_<<[r \in Requests |-> CallState(r)], executed>>
  BY StepIsRemoteStep DEF States
<1> QED
  BY <1>1, <1>2, CallInvHolds, PTL DEF Spec, ImplementsRemoteCall, Remote!Spec

(* A read loop about to deliver a response finds the caller's channel empty  *)
(* (server.go:304-311): it cannot block there and stop reading.              *)
THEOREM DeliveryIsFree == Spec => []DeliveryNeverBlocks
<1>1. CallInv => DeliveryNeverBlocks
  <2> SUFFICES ASSUME CallInv, NEW k \in Conns, handler[k].pc = "decrypt",
                      handler[k].msg.id \in pending
               PROVE  respCh[handler[k].msg.id] = <<>>
    BY DEF DeliveryNeverBlocks
  <2>1. handler[k].msg.id \in Requests
    BY DEF CallInv, IInv, LocalTypeOK, CallTypeOK
  <2>2. Held(handler[k].msg.id, k)
    BY DEF Held
  <2> QED
    BY <2>1, <2>2 DEF CallInv, OnePlace, Once, OneAnswer, Delivered
<1> QED
  BY <1>1, CallInvHolds, PTL
=============================================================================
