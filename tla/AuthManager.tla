---------------------------- MODULE AuthManager ----------------------------
(***************************************************************************)
(* The authentication manager of the operator's process                    *)
(* (internal/auth/auth.go): connection codes, each carrying a one-time     *)
(* token, and session tokens that an agent presents to reconnect.          *)
(*                                                                         *)
(* Every method holds Manager.mu from its first to its last line, so each  *)
(* is one action.  Tokens are 32 random bytes and never repeat; the        *)
(* six-character codes that key the map of connection codes may, so a new  *)
(* code can be any element of Codes.  When the random source fails a       *)
(* method returns an error and changes nothing: a stuttering step.         *)
(*                                                                         *)
(* Clock readings carry Go's monotonic time, hence now never decreases.    *)
(***************************************************************************)
EXTENDS Integers, FiniteSets

CONSTANTS
  Codes,                    \* the six-character codes
  Tokens,                   \* the values generateToken can draw
  CodeExpiration,           \* life of a connection code (15 minutes)
  SessionTokenExpiration,   \* life of a session token (24 hours)
  MaxClock                  \* bound on the clock, for TLC

ASSUME ExpirationAssumption ==
  /\ CodeExpiration \in Nat
  /\ SessionTokenExpiration \in Nat
  /\ MaxClock \in Nat

VARIABLES
  now,            \* the clock
  codes,          \* Manager.codes, at most one entry per code
  sessionTokens,  \* Manager.sessionTokens
  issued,         \* history: every token handed out, its kind and when
  accepts,        \* history: how often ValidateToken accepted each token
  displaced,      \* history: tokens whose map entry a later code replaced
  revoked         \* history: issued tokens passed to RevokeSessionToken

authVars == <<now, codes, sessionTokens, issued, accepts, displaced, revoked>>

ConnectionCode == [code : Codes, token : Tokens, createdAt : Nat, used : BOOLEAN]
SessionToken == [token : Tokens, createdAt : Nat]
Issue == [token : Tokens, kind : {"code", "session"}, at : Nat]

TypeOK ==
  /\ now \in Nat
  /\ codes \subseteq ConnectionCode
  /\ sessionTokens \subseteq SessionToken
  /\ issued \subseteq Issue
  /\ accepts \in [Tokens -> Nat]
  /\ displaced \subseteq Tokens
  /\ revoked \subseteq Tokens

Init ==
  /\ now = 0
  /\ codes = {}
  /\ sessionTokens = {}
  /\ issued = {}
  /\ accepts = [t \in Tokens |-> 0]
  /\ displaced = {}
  /\ revoked = {}

----------------------------------------------------------------------------

(* A variant that expires an entry one instant early, for a mutant. *)
UnexpiredStrict(entries, life) == {e \in entries : now - e.createdAt < life}

(* Every validation first deletes the entries older than their life. *)
Unexpired(entries, life) == {e \in entries : now - e.createdAt <= life}

LiveCodes == Unexpired(codes, CodeExpiration)

(* A variant with the wrong life, for the mutant of SessionAnswer. *)
LiveSessionsWrongLife == Unexpired(sessionTokens, CodeExpiration)

LiveSessions == Unexpired(sessionTokens, SessionTokenExpiration)

Drawn == {i.token : i \in issued}

(* The entries ValidateToken(t) accepts, and the answers of both validations. *)
Matching(t) == {e \in LiveCodes : e.token = t /\ ~e.used}

CodeAccepted(t) == Matching(t) # {}

SessionAccepted(t) == \E s \in LiveSessions : s.token = t

(* A variant for a mutant: the code and the token in each other's field. *)
GenerateCodeSwapped(code, t) ==
  /\ t \notin Drawn
  /\ codes' = {e \in codes : e.code # code}
               \cup {[code |-> t, token |-> code, createdAt |-> now, used |-> FALSE]}
  /\ issued' = issued \cup {[token |-> t, kind |-> "code", at |-> now]}
  /\ UNCHANGED <<now, sessionTokens, accepts, displaced, revoked>>

(* A later code with the same six characters replaces the map entry. *)
GenerateCode(code, t) ==
  /\ t \notin Drawn
  /\ codes' = {e \in codes : e.code # code}
               \cup {[code |-> code, token |-> t, createdAt |-> now, used |-> FALSE]}
  /\ issued' = issued \cup {[token |-> t, kind |-> "code", at |-> now]}
  /\ displaced' = displaced \cup {e.token : e \in {x \in codes : x.code = code}}
  /\ UNCHANGED <<now, sessionTokens, accepts, revoked>>

(* A variant that forgets cc.Used = true, for a mutant. *)
AcceptTokenUnmarked(t) ==
  /\ Matching(t) # {}
  /\ codes' = LiveCodes
  /\ accepts' = [accepts EXCEPT ![t] = @ + 1]
  /\ UNCHANGED <<now, sessionTokens, issued, displaced, revoked>>

AcceptToken(t) ==
  /\ \E e \in Matching(t) :
       codes' = (LiveCodes \ {e}) \cup {[e EXCEPT !.used = TRUE]}
  /\ accepts' = [accepts EXCEPT ![t] = @ + 1]
  /\ UNCHANGED <<now, sessionTokens, issued, displaced, revoked>>

RejectToken(t) ==
  /\ ~CodeAccepted(t)
  /\ codes' = LiveCodes
  /\ UNCHANGED <<now, sessionTokens, issued, accepts, displaced, revoked>>

(* A variant for a mutant: a new session token replaces the earlier ones. *)
GenerateOnlySessionToken(t) ==
  /\ t \notin Drawn
  /\ sessionTokens' = {[token |-> t, createdAt |-> now]}
  /\ issued' = issued \cup {[token |-> t, kind |-> "session", at |-> now]}
  /\ UNCHANGED <<now, codes, accepts, displaced, revoked>>

GenerateSessionToken(t) ==
  /\ t \notin Drawn
  /\ sessionTokens' = sessionTokens \cup {[token |-> t, createdAt |-> now]}
  /\ issued' = issued \cup {[token |-> t, kind |-> "session", at |-> now]}
  /\ UNCHANGED <<now, codes, accepts, displaced, revoked>>

(* The answer is SessionAccepted(t); what changes is the purge. *)
ValidateSessionToken(t) ==
  /\ sessionTokens' = LiveSessions
  /\ UNCHANGED <<now, codes, issued, accepts, displaced, revoked>>

RevokeSessionToken(t) ==
  /\ sessionTokens' = {s \in sessionTokens : s.token # t}
  /\ revoked' = revoked \cup ({t} \cap Drawn)
  /\ UNCHANGED <<now, codes, issued, accepts, displaced>>

Cleanup ==
  /\ codes' = LiveCodes
  /\ sessionTokens' = LiveSessions
  /\ UNCHANGED <<now, issued, accepts, displaced, revoked>>

Tick ==
  /\ now < MaxClock
  /\ now' = now + 1
  /\ UNCHANGED <<codes, sessionTokens, issued, accepts, displaced, revoked>>

Next ==
  \/ \E c \in Codes, t \in Tokens : GenerateCode(c, t)
  \/ \E t \in Tokens : AcceptToken(t)
  \/ \E t \in Tokens : RejectToken(t)
  \/ \E t \in Tokens : GenerateSessionToken(t)
  \/ \E t \in Tokens : ValidateSessionToken(t)
  \/ \E t \in Tokens : RevokeSessionToken(t)
  \/ Cleanup
  \/ Tick

Spec == Init /\ [][Next]_authVars

----------------------------------------------------------------------------

(* A connection token is one-time use (auth_test.go:29): over any sequence  *)
(* of calls, whatever codes collide, expire or are purged in between,       *)
(* ValidateToken accepts it at most once.                                   *)
OneTimeUse == \A t \in Tokens : accepts[t] <= 1

(* What ValidateToken answers next is a function of the token's history     *)
(* alone: it was generated by GenerateCode no longer than CodeExpiration    *)
(* ago, was never accepted before, and no later code took its map entry.    *)
(* Neither the moment of a purge, nor the validation of another token, nor  *)
(* anything done with session tokens can change the answer.                 *)
CodeAnswer ==
  \A t \in Tokens :
    CodeAccepted(t) <=>
      /\ \E i \in issued : /\ i.token = t
                           /\ i.kind = "code"
                           /\ now - i.at <= CodeExpiration
      /\ accepts[t] = 0
      /\ t \notin displaced

(* The same for ValidateSessionToken: a session token is reusable during    *)
(* its whole life (auth_test.go:111), until RevokeSessionToken or its age   *)
(* ends it, and a token of a connection code never passes for one.          *)
SessionAnswer ==
  \A t \in Tokens :
    SessionAccepted(t) <=>
      /\ \E i \in issued : /\ i.token = t
                           /\ i.kind = "session"
                           /\ now - i.at <= SessionTokenExpiration
      /\ t \notin revoked

(* What the connection codes promise, abstractly: each token is redeemed    *)
(* at most once, and lapses for good when it is not redeemed in time.       *)
CodeIssued(t) == \E i \in issued : i.token = t /\ i.kind = "code"

Status(t) ==
  IF ~CodeIssued(t) THEN "unissued"
  ELSE IF accepts[t] > 0 THEN "redeemed"
  ELSE IF CodeAccepted(t) THEN "live" ELSE "lapsed"

Abstract == INSTANCE OneTimeToken WITH
  status <- [t \in Tokens |-> Status(t)], redemptions <- accepts

(* AuthManager implements OneTimeToken: every method call either changes no *)
(* token's standing or issues, redeems or lets lapse as OneTimeToken allows.*)
ImplementsOneTimeToken == Abstract!Spec
============================================================================
