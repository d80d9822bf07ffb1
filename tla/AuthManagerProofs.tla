-------------------------- MODULE AuthManagerProofs --------------------------
(***************************************************************************)
(* Proofs about AuthManager for every set of codes and tokens, every life  *)
(* of a code and of a session token, and a clock without meaningful bound  *)
(* (MaxClock is any natural number).                                       *)
(*                                                                         *)
(* OneTimeUse and the two answers are not inductive: they speak of the     *)
(* history while the code decides from its maps.  IInv says how the two    *)
(* correspond.                                                             *)
(***************************************************************************)
EXTENDS AuthManager, TLAPS

IssuedOnce ==
  \A i, j \in issued : i.token = j.token => i = j

(* The map of codes holds issued tokens, each in one entry, whose Used flag *)
(* says whether the token was ever accepted.                                *)
CodesFromHistory ==
  /\ \A e \in codes : [token |-> e.token, kind |-> "code", at |-> e.createdAt] \in issued
  /\ \A e, f \in codes : e.token = f.token => e = f
  /\ \A e \in codes : e.used <=> accepts[e.token] > 0
  /\ \A e \in codes : e.token \notin displaced

(* A code token loses its entry only by age or to a later code. *)
CodesKept ==
  \A i \in issued :
    (i.kind = "code" /\ now - i.at <= CodeExpiration /\ i.token \notin displaced)
      => \E e \in codes : e.token = i.token

SessionsFromHistory ==
  \A s \in sessionTokens :
    /\ [token |-> s.token, kind |-> "session", at |-> s.createdAt] \in issued
    /\ s.token \notin revoked

SessionsKept ==
  \A i \in issued :
    (i.kind = "session" /\ now - i.at <= SessionTokenExpiration /\ i.token \notin revoked)
      => \E s \in sessionTokens : s.token = i.token

(* Nothing is recorded about a token before it is drawn. *)
HistoryOfDrawn ==
  /\ \A t \in Tokens : accepts[t] > 0 => t \in Drawn
  /\ displaced \subseteq Drawn
  /\ revoked \subseteq Drawn

IInv ==
  /\ TypeOK
  /\ OneTimeUse
  /\ IssuedOnce
  /\ CodesFromHistory
  /\ CodesKept
  /\ SessionsFromHistory
  /\ SessionsKept
  /\ HistoryOfDrawn

----------------------------------------------------------------------------

LEMMA InitIInv == Init => IInv
<1> SUFFICES ASSUME Init PROVE IInv
  OBVIOUS
<1>1. TypeOK
  BY DEF Init, TypeOK
<1> QED
  BY <1>1 DEF Init, IInv, OneTimeUse, IssuedOnce, CodesFromHistory, CodesKept,
       SessionsFromHistory, SessionsKept, HistoryOfDrawn

LEMMA CodesAreDrawn ==
  ASSUME CodesFromHistory, NEW e \in codes
  PROVE  e.token \in Drawn
<1>1. [token |-> e.token, kind |-> "code", at |-> e.createdAt] \in issued
  BY DEF CodesFromHistory
<1>2. \A i \in issued : i.token \in Drawn
  BY DEF Drawn
<1> QED
  BY <1>1, <1>2

(* A fresh token has no history, so the new entry cannot clash with one. *)
LEMMA GenerateCodeKeepsIInv ==
  ASSUME IInv, NEW c \in Codes, NEW t \in Tokens, GenerateCode(c, t)
  PROVE  IInv'
<1> DEFINE new == [code |-> c, token |-> t, createdAt |-> now, used |-> FALSE]
           kept == {e \in codes : e.code # c}
           i0 == [token |-> t, kind |-> "code", at |-> now]
           gone == {e.token : e \in {x \in codes : x.code = c}}
<1> USE DEF IInv
<1>1. /\ t \notin Drawn /\ codes' = kept \cup {new} /\ issued' = issued \cup {i0}
      /\ displaced' = displaced \cup gone
      /\ UNCHANGED <<now, sessionTokens, accepts, revoked>>
  BY DEF GenerateCode
<1>2. TypeOK'
  <2>1. new \in ConnectionCode /\ i0 \in Issue
    BY DEF TypeOK, ConnectionCode, Issue
  <2>2. gone \subseteq Tokens
    BY DEF TypeOK, ConnectionCode
  <2> QED
    BY <1>1, <2>1, <2>2 DEF TypeOK
<1>3. /\ new.token = t /\ new.code = c /\ new.createdAt = now /\ ~new.used
      /\ i0.token = t /\ i0.kind = "code"
      /\ i0 = [token |-> new.token, kind |-> "code", at |-> new.createdAt]
      /\ \A e : e \in kept <=> e \in codes /\ e.code # c
  OBVIOUS
<1>4. \A x : x \in gone <=> \E e \in codes : e.code = c /\ x = e.token
  OBVIOUS
<1> HIDE DEF new, i0, kept, gone
<1>5. \A i \in issued : i.token # t
  BY <1>1 DEF Drawn
<1>6. accepts[t] = 0 /\ t \notin displaced /\ \A e \in codes : e.token # t
  <2>1. \A e \in codes : e.token # t
    BY <1>5 DEF CodesFromHistory
  <2>2. ~(accepts[t] > 0) /\ accepts[t] \in Nat
    BY <1>1 DEF HistoryOfDrawn, TypeOK
  <2>3. t \notin displaced
    BY <1>1 DEF HistoryOfDrawn
  <2> QED
    BY <2>1, <2>2, <2>3
<1>7. OneTimeUse'
  BY <1>1 DEF OneTimeUse
<1>8. IssuedOnce'
  BY <1>1, <1>5, <1>3 DEF IssuedOnce
<1>9. CodesFromHistory'
  <2>1. \A e \in codes' : [token |-> e.token, kind |-> "code", at |-> e.createdAt] \in issued'
    BY <1>1, <1>3 DEF CodesFromHistory
  <2>2. \A e, f \in codes' : e.token = f.token => e = f
    BY <1>1, <1>6, <1>3 DEF CodesFromHistory
  <2>3. \A e \in codes' : e.used <=> accepts'[e.token] > 0
    BY <1>1, <1>6, <1>3 DEF CodesFromHistory
  <2>4. \A e \in codes' : e.token \notin displaced'
    <3>1. \A e \in kept : e.token \notin gone
      BY <1>3, <1>4 DEF CodesFromHistory
    <3>2. t \notin gone
      BY <1>6, <1>4
    <3> QED
      BY <1>1, <1>6, <1>3, <3>1, <3>2 DEF CodesFromHistory
  <2> QED
    BY <2>1, <2>2, <2>3, <2>4 DEF CodesFromHistory
<1>10. CodesKept'
  <2> SUFFICES ASSUME NEW i \in issued', i.kind = "code",
                      now' - i.at <= CodeExpiration, i.token \notin displaced'
               PROVE  \E e \in codes' : e.token = i.token
    BY DEF CodesKept
  <2>1. CASE i = i0
    BY <1>1, <1>3, <2>1
  <2>2. CASE i \in issued
    <3>1. PICK e \in codes : e.token = i.token
      BY <1>1, <2>2 DEF CodesKept
    <3>2. e.code # c
      BY <1>1, <1>4, <3>1
    <3> QED
      BY <1>1, <1>3, <3>1, <3>2
  <2> QED
    BY <1>1, <2>1, <2>2
<1>11. SessionsFromHistory'
  BY <1>1 DEF SessionsFromHistory
<1>12. SessionsKept'
  BY <1>1, <1>3 DEF SessionsKept
<1>13. HistoryOfDrawn'
  <2>1. gone \subseteq Drawn
    BY <1>4, CodesAreDrawn
  <2>2. Drawn \subseteq Drawn'
    BY <1>1 DEF Drawn
  <2> QED
    BY <1>1, <2>1, <2>2 DEF HistoryOfDrawn
<1> QED
  BY <1>2, <1>7, <1>8, <1>9, <1>10, <1>11, <1>12, <1>13

(* Deleting the entries past their life, as every validation and Cleanup do, *)
(* keeps what relates the codes to the history.                              *)
LEMMA PurgeKeepsCodes ==
  ASSUME TypeOK, CodesFromHistory, CodesKept, IssuedOnce,
         codes' = LiveCodes, UNCHANGED <<now, issued, accepts, displaced>>
  PROVE  CodesFromHistory' /\ CodesKept'
<1>1. \A e : e \in codes' <=> e \in codes /\ now - e.createdAt <= CodeExpiration
  BY DEF LiveCodes, Unexpired
<1>2. CodesFromHistory'
  BY <1>1 DEF CodesFromHistory
<1>3. CodesKept'
  <2> SUFFICES ASSUME NEW i \in issued, i.kind = "code",
                      now - i.at <= CodeExpiration, i.token \notin displaced
               PROVE  \E e \in codes' : e.token = i.token
    BY DEF CodesKept
  <2>1. PICK e \in codes : e.token = i.token
    BY DEF CodesKept
  <2> DEFINE j == [token |-> e.token, kind |-> "code", at |-> e.createdAt]
  <2>2. j \in issued /\ j.token = e.token /\ j.at = e.createdAt
    BY DEF CodesFromHistory
  <2>3. j = i
    BY <2>1, <2>2 DEF IssuedOnce
  <2> QED
    BY <1>1, <2>1, <2>2, <2>3
<1> QED
  BY <1>2, <1>3

LEMMA PurgeKeepsSessions ==
  ASSUME TypeOK, SessionsFromHistory, SessionsKept, IssuedOnce,
         sessionTokens' = LiveSessions, UNCHANGED <<now, issued, revoked>>
  PROVE  SessionsFromHistory' /\ SessionsKept'
<1>1. \A s : s \in sessionTokens'
             <=> s \in sessionTokens /\ now - s.createdAt <= SessionTokenExpiration
  BY DEF LiveSessions, Unexpired
<1>2. SessionsFromHistory'
  BY <1>1 DEF SessionsFromHistory
<1>3. SessionsKept'
  <2> SUFFICES ASSUME NEW i \in issued, i.kind = "session",
                      now - i.at <= SessionTokenExpiration, i.token \notin revoked
               PROVE  \E s \in sessionTokens' : s.token = i.token
    BY DEF SessionsKept
  <2>1. PICK s \in sessionTokens : s.token = i.token
    BY DEF SessionsKept
  <2> DEFINE j == [token |-> s.token, kind |-> "session", at |-> s.createdAt]
  <2>2. j \in issued /\ j.token = s.token /\ j.at = s.createdAt
    BY DEF SessionsFromHistory
  <2>3. j = i
    BY <2>1, <2>2 DEF IssuedOnce
  <2> QED
    BY <1>1, <2>1, <2>2, <2>3
<1> QED
  BY <1>2, <1>3

LEMMA PurgeKeepsTypes == LiveCodes \subseteq codes /\ LiveSessions \subseteq sessionTokens
BY DEF LiveCodes, LiveSessions, Unexpired

(* The accepted entry is unused, so its token was never accepted before. *)
LEMMA AcceptTokenKeepsIInv ==
  ASSUME IInv, NEW t \in Tokens, AcceptToken(t)
  PROVE  IInv'
<1> USE DEF IInv
<1>1. PICK e \in codes : /\ now - e.createdAt <= CodeExpiration
                         /\ e.token = t /\ ~e.used
                         /\ codes' = (LiveCodes \ {e}) \cup {[e EXCEPT !.used = TRUE]}
  BY DEF AcceptToken, Matching, LiveCodes, Unexpired
<1>2. /\ accepts' = [accepts EXCEPT ![t] = @ + 1]
      /\ UNCHANGED <<now, sessionTokens, issued, displaced, revoked>>
  BY DEF AcceptToken
<1> DEFINE marked == [e EXCEPT !.used = TRUE]
<1>3. e \in ConnectionCode
  BY DEF TypeOK
<1>4. /\ marked \in ConnectionCode /\ marked.used /\ marked.token = t
      /\ marked.createdAt = e.createdAt
  BY <1>1, <1>3 DEF ConnectionCode
<1> HIDE DEF marked
<1>5. accepts[t] = 0 /\ accepts'[t] = 1
  BY <1>1, <1>2 DEF CodesFromHistory, TypeOK
<1>6. \A u \in Tokens : u # t => accepts'[u] = accepts[u]
  BY <1>2 DEF TypeOK
<1>7. codes' = (LiveCodes \ {e}) \cup {marked}
  BY <1>1 DEF marked
<1>8. TypeOK'
  BY <1>2, <1>4, <1>7, PurgeKeepsTypes DEF TypeOK
<1>9. OneTimeUse'
  BY <1>5, <1>6 DEF OneTimeUse
<1>10. IssuedOnce'
  BY <1>2 DEF IssuedOnce
<1>11. \A f \in codes' : \/ f = marked
                         \/ f \in codes /\ f.token # t
  BY <1>1, <1>7, PurgeKeepsTypes DEF CodesFromHistory
<1>12. CodesFromHistory'
  <2>1. \A f \in codes' : [token |-> f.token, kind |-> "code", at |-> f.createdAt] \in issued'
    BY <1>1, <1>2, <1>4, <1>11 DEF CodesFromHistory
  <2>2. \A f, g \in codes' : f.token = g.token => f = g
    BY <1>4, <1>11 DEF CodesFromHistory
  <2>3. \A f \in codes' : f.used <=> accepts'[f.token] > 0
    BY <1>4, <1>5, <1>6, <1>8, <1>11 DEF CodesFromHistory, TypeOK, ConnectionCode
  <2>4. \A f \in codes' : f.token \notin displaced'
    BY <1>1, <1>2, <1>4, <1>11 DEF CodesFromHistory
  <2> QED
    BY <2>1, <2>2, <2>3, <2>4 DEF CodesFromHistory
<1>13. CodesKept'
  <2> SUFFICES ASSUME NEW i \in issued, i.kind = "code",
                      now - i.at <= CodeExpiration, i.token \notin displaced
               PROVE  \E f \in codes' : f.token = i.token
    BY <1>2 DEF CodesKept
  <2>1. PICK f \in codes : f.token = i.token
    BY DEF CodesKept
  <2>2. CASE f = e
    BY <1>1, <1>4, <1>7, <2>1, <2>2
  <2>3. CASE f # e
    <3> DEFINE j == [token |-> f.token, kind |-> "code", at |-> f.createdAt]
    <3>1. j \in issued /\ j.token = f.token /\ j.at = f.createdAt
      BY DEF CodesFromHistory
    <3>2. j = i
      BY <2>1, <3>1 DEF IssuedOnce
    <3>3. f \in LiveCodes
      BY <3>1, <3>2 DEF LiveCodes, Unexpired
    <3> QED
      BY <1>7, <2>1, <2>3, <3>3
  <2> QED
    BY <2>2, <2>3
<1>14. SessionsFromHistory' /\ SessionsKept'
  BY <1>2 DEF SessionsFromHistory, SessionsKept
<1>15. HistoryOfDrawn'
  <2>1. t \in Drawn
    BY <1>1, CodesAreDrawn
  <2>2. Drawn' = Drawn
    BY <1>2 DEF Drawn
  <2> QED
    BY <1>2, <1>6, <2>1, <2>2 DEF HistoryOfDrawn
<1> QED
  BY <1>8, <1>9, <1>10, <1>12, <1>13, <1>14, <1>15

(* Rejecting a token, validating a session token and Cleanup only purge. *)
LEMMA PurgesKeepIInv ==
  ASSUME IInv,
         codes' \in {codes, LiveCodes},
         sessionTokens' \in {sessionTokens, LiveSessions},
         UNCHANGED <<now, issued, accepts, displaced, revoked>>
  PROVE  IInv'
<1> USE DEF IInv
<1>1. TypeOK'
  BY PurgeKeepsTypes DEF TypeOK
<1>2. CodesFromHistory' /\ CodesKept'
  <2>1. CASE codes' = codes
    BY <2>1 DEF CodesFromHistory, CodesKept
  <2>2. CASE codes' = LiveCodes
    BY <2>2, PurgeKeepsCodes
  <2> QED
    BY <2>1, <2>2
<1>3. SessionsFromHistory' /\ SessionsKept'
  <2>1. CASE sessionTokens' = sessionTokens
    BY <2>1 DEF SessionsFromHistory, SessionsKept
  <2>2. CASE sessionTokens' = LiveSessions
    BY <2>2, PurgeKeepsSessions
  <2> QED
    BY <2>1, <2>2
<1>4. OneTimeUse' /\ IssuedOnce' /\ HistoryOfDrawn'
  BY DEF OneTimeUse, IssuedOnce, HistoryOfDrawn, Drawn
<1> QED
  BY <1>1, <1>2, <1>3, <1>4

LEMMA GenerateSessionTokenKeepsIInv ==
  ASSUME IInv, NEW t \in Tokens, GenerateSessionToken(t)
  PROVE  IInv'
<1> USE DEF IInv
<1> DEFINE new == [token |-> t, createdAt |-> now]
           i0 == [token |-> t, kind |-> "session", at |-> now]
<1>1. /\ t \notin Drawn
      /\ sessionTokens' = sessionTokens \cup {new} /\ issued' = issued \cup {i0}
      /\ UNCHANGED <<now, codes, accepts, displaced, revoked>>
  BY DEF GenerateSessionToken
<1>2. TypeOK'
  <2>1. new \in SessionToken /\ i0 \in Issue
    BY DEF TypeOK, SessionToken, Issue
  <2> QED
    BY <1>1, <2>1 DEF TypeOK
<1>3. /\ new.token = t /\ new.createdAt = now /\ i0.token = t /\ i0.kind = "session"
      /\ i0 = [token |-> new.token, kind |-> "session", at |-> new.createdAt]
  OBVIOUS
<1> HIDE DEF new, i0
<1>4. \A i \in issued : i.token # t
  BY <1>1 DEF Drawn
<1>5. OneTimeUse' /\ CodesFromHistory'
  BY <1>1 DEF OneTimeUse, CodesFromHistory
<1>6. IssuedOnce'
  BY <1>1, <1>3, <1>4 DEF IssuedOnce
<1>7. CodesKept'
  BY <1>1, <1>3 DEF CodesKept
<1>8. SessionsFromHistory'
  <2>1. t \notin revoked
    BY <1>1 DEF HistoryOfDrawn
  <2> QED
    BY <1>1, <1>3, <2>1 DEF SessionsFromHistory
<1>9. SessionsKept'
  BY <1>1, <1>3 DEF SessionsKept
<1>10. HistoryOfDrawn'
  <2>1. Drawn \subseteq Drawn'
    BY <1>1 DEF Drawn
  <2> QED
    BY <1>1, <2>1 DEF HistoryOfDrawn
<1> QED
  BY <1>2, <1>5, <1>6, <1>7, <1>8, <1>9, <1>10

LEMMA RevokeSessionTokenKeepsIInv ==
  ASSUME IInv, NEW t \in Tokens, RevokeSessionToken(t)
  PROVE  IInv'
<1> USE DEF IInv
<1>1. /\ \A s : s \in sessionTokens' <=> s \in sessionTokens /\ s.token # t
      /\ revoked' = revoked \cup ({t} \cap Drawn)
      /\ UNCHANGED <<now, codes, issued, accepts, displaced>>
  BY DEF RevokeSessionToken
<1>2. TypeOK'
  BY <1>1 DEF TypeOK
<1>3. OneTimeUse' /\ IssuedOnce' /\ CodesFromHistory' /\ CodesKept'
  BY <1>1 DEF OneTimeUse, IssuedOnce, CodesFromHistory, CodesKept
<1>4. SessionsFromHistory'
  BY <1>1 DEF SessionsFromHistory
<1>5. SessionsKept'
  <2>1. \A i \in issued : i.token \in Drawn
    BY DEF Drawn
  <2> QED
    BY <1>1, <2>1 DEF SessionsKept
<1>6. HistoryOfDrawn'
  BY <1>1 DEF HistoryOfDrawn, Drawn
<1> QED
  BY <1>2, <1>3, <1>4, <1>5, <1>6

(* Time only takes entries out of the two validity windows. *)
LEMMA TickKeepsIInv == IInv /\ Tick => IInv'
<1> SUFFICES ASSUME IInv, Tick PROVE IInv'
  OBVIOUS
<1> USE DEF IInv
<1>1. now' = now + 1 /\ UNCHANGED <<codes, sessionTokens, issued, accepts, displaced, revoked>>
  BY DEF Tick
<1>2. TypeOK'
  BY <1>1 DEF TypeOK
<1>3. OneTimeUse' /\ IssuedOnce' /\ CodesFromHistory' /\ SessionsFromHistory' /\ HistoryOfDrawn'
  BY <1>1 DEF OneTimeUse, IssuedOnce, CodesFromHistory, SessionsFromHistory, HistoryOfDrawn, Drawn
<1>4. \A i \in issued, life \in Nat : now' - i.at <= life => now - i.at <= life
  BY <1>1 DEF TypeOK, Issue
<1>5. CodesKept' /\ SessionsKept'
  BY <1>1, <1>4, ExpirationAssumption DEF CodesKept, SessionsKept
<1> QED
  BY <1>2, <1>3, <1>5

LEMMA NextKeepsIInv == IInv /\ [Next]_authVars => IInv'
<1> SUFFICES ASSUME IInv, [Next]_authVars PROVE IInv'
  OBVIOUS
<1>1. CASE \E c \in Codes, t \in Tokens : GenerateCode(c, t)
  BY <1>1, GenerateCodeKeepsIInv
<1>2. CASE \E t \in Tokens : AcceptToken(t)
  BY <1>2, AcceptTokenKeepsIInv
<1>3. CASE \E t \in Tokens : RejectToken(t)
  BY <1>3, PurgesKeepIInv DEF RejectToken
<1>4. CASE \E t \in Tokens : GenerateSessionToken(t)
  BY <1>4, GenerateSessionTokenKeepsIInv
<1>5. CASE \E t \in Tokens : ValidateSessionToken(t)
  BY <1>5, PurgesKeepIInv DEF ValidateSessionToken
<1>6. CASE \E t \in Tokens : RevokeSessionToken(t)
  BY <1>6, RevokeSessionTokenKeepsIInv
<1>7. CASE Cleanup
  BY <1>7, PurgesKeepIInv DEF Cleanup
<1>8. CASE Tick
  BY <1>8, TickKeepsIInv
<1>9. CASE UNCHANGED authVars
  BY <1>9, PurgesKeepIInv DEF authVars
<1> QED
  BY <1>1, <1>2, <1>3, <1>4, <1>5, <1>6, <1>7, <1>8, <1>9 DEF Next

THEOREM IInvHolds == Spec => []IInv
BY InitIInv, NextKeepsIInv, PTL DEF Spec

(* The state always has its declared shape. *)
THEOREM TypeCorrect == Spec => []TypeOK
BY IInvHolds, PTL DEF IInv

(* No token of a connection code is ever accepted twice. *)
THEOREM OneTime == Spec => []OneTimeUse
BY IInvHolds, PTL DEF IInv

LEMMA IInvGivesCodeAnswer == IInv => CodeAnswer
<1> SUFFICES ASSUME IInv, NEW t \in Tokens
             PROVE  CodeAccepted(t) <=>
                      /\ \E i \in issued : /\ i.token = t
                                           /\ i.kind = "code"
                                           /\ now - i.at <= CodeExpiration
                      /\ accepts[t] = 0
                      /\ t \notin displaced
  BY DEF CodeAnswer
<1> USE DEF IInv
<1>1. ASSUME CodeAccepted(t)
      PROVE  /\ \E i \in issued : /\ i.token = t
                                  /\ i.kind = "code"
                                  /\ now - i.at <= CodeExpiration
             /\ accepts[t] = 0
             /\ t \notin displaced
  <2>1. PICK e \in codes : now - e.createdAt <= CodeExpiration /\ e.token = t /\ ~e.used
    BY <1>1 DEF CodeAccepted, Matching, LiveCodes, Unexpired
  <2> DEFINE j == [token |-> e.token, kind |-> "code", at |-> e.createdAt]
  <2>2. j \in issued /\ j.token = t /\ j.kind = "code" /\ j.at = e.createdAt
    BY <2>1 DEF CodesFromHistory
  <2>3. accepts[t] = 0
    BY <2>1 DEF CodesFromHistory, TypeOK
  <2>4. t \notin displaced
    BY <2>1 DEF CodesFromHistory
  <2> HIDE DEF j
  <2> QED
    BY <2>1, <2>2, <2>3, <2>4
<1>2. ASSUME NEW i \in issued, i.token = t, i.kind = "code",
             now - i.at <= CodeExpiration, accepts[t] = 0, t \notin displaced
      PROVE  CodeAccepted(t)
  <2>1. PICK e \in codes : e.token = t
    BY <1>2 DEF CodesKept
  <2> DEFINE j == [token |-> e.token, kind |-> "code", at |-> e.createdAt]
  <2>2. j \in issued /\ j.token = t /\ j.at = e.createdAt
    BY <2>1 DEF CodesFromHistory
  <2>3. j = i
    BY <1>2, <2>2 DEF IssuedOnce
  <2>4. ~e.used
    BY <1>2, <2>1 DEF CodesFromHistory, TypeOK
  <2>5. now - e.createdAt <= CodeExpiration
    BY <1>2, <2>2, <2>3
  <2> QED
    BY <2>1, <2>4, <2>5 DEF CodeAccepted, Matching, LiveCodes, Unexpired
<1> QED
  BY <1>1, <1>2

(* ValidateToken's answer depends on the token's own history alone. *)
THEOREM CodeAnswerHolds == Spec => []CodeAnswer
BY IInvHolds, IInvGivesCodeAnswer, PTL

LEMMA IInvGivesSessionAnswer == IInv => SessionAnswer
<1> SUFFICES ASSUME IInv, NEW t \in Tokens
             PROVE  SessionAccepted(t) <=>
                      /\ \E i \in issued : /\ i.token = t
                                           /\ i.kind = "session"
                                           /\ now - i.at <= SessionTokenExpiration
                      /\ t \notin revoked
  BY DEF SessionAnswer
<1> USE DEF IInv
<1>1. ASSUME SessionAccepted(t)
      PROVE  /\ \E i \in issued : /\ i.token = t
                                  /\ i.kind = "session"
                                  /\ now - i.at <= SessionTokenExpiration
             /\ t \notin revoked
  <2>1. PICK s \in sessionTokens : now - s.createdAt <= SessionTokenExpiration /\ s.token = t
    BY <1>1 DEF SessionAccepted, LiveSessions, Unexpired
  <2> DEFINE j == [token |-> s.token, kind |-> "session", at |-> s.createdAt]
  <2>2. /\ j \in issued /\ j.token = t /\ j.kind = "session" /\ j.at = s.createdAt
        /\ t \notin revoked
    BY <2>1 DEF SessionsFromHistory
  <2> HIDE DEF j
  <2> QED
    BY <2>1, <2>2
<1>2. ASSUME NEW i \in issued, i.token = t, i.kind = "session",
             now - i.at <= SessionTokenExpiration, t \notin revoked
      PROVE  SessionAccepted(t)
  <2>1. PICK s \in sessionTokens : s.token = t
    BY <1>2 DEF SessionsKept
  <2> DEFINE j == [token |-> s.token, kind |-> "session", at |-> s.createdAt]
  <2>2. j \in issued /\ j.token = t /\ j.at = s.createdAt
    BY <2>1 DEF SessionsFromHistory
  <2>3. j = i
    BY <1>2, <2>2 DEF IssuedOnce
  <2> QED
    BY <1>2, <2>1, <2>2, <2>3 DEF SessionAccepted, LiveSessions, Unexpired
<1> QED
  BY <1>1, <1>2

(* A session token is accepted exactly while it is issued, young and not    *)
(* revoked.                                                                  *)
THEOREM SessionAnswerHolds == Spec => []SessionAnswer
BY IInvHolds, IInvGivesSessionAnswer, PTL

----------------------------------------------------------------------------
(* The refinement.  By CodeAnswer the standing of a token is a function of   *)
(* the history, so each step is judged by what it adds to the history.       *)

InTime(t) ==
  \E i \in issued : i.token = t /\ i.kind = "code" /\ now - i.at <= CodeExpiration

StatusFromHistory ==
  \A t \in Tokens :
    /\ accepts[t] \in Nat
    /\ Status(t) = IF ~CodeIssued(t) THEN "unissued"
                   ELSE IF accepts[t] > 0 THEN "redeemed"
                   ELSE IF InTime(t) /\ t \notin displaced THEN "live"
                   ELSE "lapsed"

LEMMA IInvGivesStatus == IInv => StatusFromHistory
<1> SUFFICES ASSUME IInv, NEW t \in Tokens
             PROVE  /\ accepts[t] \in Nat
                    /\ Status(t) = IF ~CodeIssued(t) THEN "unissued"
                                   ELSE IF accepts[t] > 0 THEN "redeemed"
                                   ELSE IF InTime(t) /\ t \notin displaced THEN "live"
                                   ELSE "lapsed"
  BY DEF StatusFromHistory
<1>1. CodeAccepted(t) <=> InTime(t) /\ accepts[t] = 0 /\ t \notin displaced
  BY IInvGivesCodeAnswer DEF CodeAnswer, InTime
<1>2. accepts[t] \in Nat
  BY DEF IInv, TypeOK
<1> QED
  BY <1>1, <1>2 DEF Status

(* A step that redeems nothing and generates no code can only let tokens     *)
(* lapse.                                                                    *)
LEMMA OtherStepsLapse ==
  ASSUME IInv, IInv', accepts' = accepts, displaced' = displaced,
         \A t \in Tokens : /\ CodeIssued(t)' <=> CodeIssued(t)
                           /\ InTime(t)' => InTime(t)
  PROVE  \E S \in SUBSET Abstract!Live : Abstract!Lapse(S)
<1> DEFINE S == {t \in Tokens : Status(t) = "live" /\ Status(t)' # "live"}
<1>1. S \in SUBSET Abstract!Live
  BY DEF Abstract!Live
<1>2. StatusFromHistory /\ StatusFromHistory'
  BY IInvGivesStatus, PTL
<1>3. \A t \in Tokens : Status(t)' = IF t \in S THEN "lapsed" ELSE Status(t)
  BY <1>2 DEF StatusFromHistory
<1>4. Abstract!Lapse(S)
  BY <1>1, <1>3 DEF Abstract!Lapse, Abstract!Lapsed
<1> QED
  BY <1>1, <1>4

LEMMA GenerateCodeIssues ==
  ASSUME IInv, IInv', NEW c \in Codes, NEW t \in Tokens, GenerateCode(c, t)
  PROVE  \E S \in SUBSET Abstract!Live : Abstract!IssueToken(t, S)
<1> DEFINE S == {u \in Tokens : Status(u) = "live" /\ Status(u)' # "live"}
           i0 == [token |-> t, kind |-> "code", at |-> now]
<1>1. /\ t \notin Drawn /\ issued' = issued \cup {i0} /\ now' = now /\ accepts' = accepts
      /\ displaced \subseteq displaced'
      /\ \A u \in displaced' : u \in displaced \/ \E e \in codes : u = e.token
  BY DEF GenerateCode
<1>2. i0.token = t /\ i0.kind = "code" /\ i0.at = now
  OBVIOUS
<1> HIDE DEF i0
<1>3. S \in SUBSET Abstract!Live
  BY DEF Abstract!Live
<1>4. StatusFromHistory /\ StatusFromHistory'
  BY IInvGivesStatus, PTL
<1>5. \A u \in Tokens \ {t} : /\ CodeIssued(u)' <=> CodeIssued(u)
                              /\ InTime(u)' <=> InTime(u)
  BY <1>1, <1>2 DEF CodeIssued, InTime
<1>6. \A u \in Tokens \ {t} : Status(u)' = IF u \in S THEN "lapsed" ELSE Status(u)
  BY <1>1, <1>4, <1>5 DEF StatusFromHistory
<1>7. Status(t) = "unissued"
  <2>1. ~CodeIssued(t)
    BY <1>1 DEF CodeIssued, Drawn
  <2> QED
    BY <1>4, <2>1 DEF StatusFromHistory
<1>8. Status(t)' = "live"
  <2>1. CodeIssued(t)' /\ InTime(t)'
    BY <1>1, <1>2, ExpirationAssumption DEF CodeIssued, InTime, IInv, TypeOK
  <2>2. accepts[t] = 0
    BY <1>1 DEF IInv, HistoryOfDrawn, TypeOK
  <2>3. t \notin displaced'
    <3>1. \A e \in codes : e.token \in Drawn
      BY CodesAreDrawn DEF IInv
    <3> QED
      BY <1>1, <3>1 DEF IInv, HistoryOfDrawn
  <2> QED
    BY <1>1, <1>4, <2>1, <2>2, <2>3 DEF StatusFromHistory
<1>9. Abstract!IssueToken(t, S)
  BY <1>1, <1>6, <1>7, <1>8 DEF Abstract!IssueToken, Abstract!Lapsed
<1> QED
  BY <1>3, <1>9

LEMMA AcceptTokenRedeems ==
  ASSUME IInv, IInv', NEW t \in Tokens, AcceptToken(t)
  PROVE  Abstract!Redeem(t)
<1>1. /\ CodeAccepted(t)
      /\ accepts' = [accepts EXCEPT ![t] = @ + 1]
      /\ UNCHANGED <<now, issued, displaced>>
  BY DEF AcceptToken, CodeAccepted
<1>2. StatusFromHistory /\ StatusFromHistory'
  BY IInvGivesStatus, PTL
<1>3. \A u \in Tokens : /\ CodeIssued(u)' <=> CodeIssued(u)
                        /\ InTime(u)' <=> InTime(u)
  BY <1>1 DEF CodeIssued, InTime
<1>4. /\ accepts \in [Tokens -> Nat]
      /\ CodeIssued(t) /\ accepts[t] = 0 /\ InTime(t) /\ t \notin displaced
  BY <1>1, IInvGivesCodeAnswer DEF CodeAnswer, CodeIssued, InTime, IInv, TypeOK
<1>5. Status(t) = "live" /\ Status(t)' = "redeemed"
  BY <1>1, <1>2, <1>3, <1>4 DEF StatusFromHistory
<1>6. \A u \in Tokens \ {t} : Status(u)' = Status(u)
  BY <1>1, <1>2, <1>3, <1>4 DEF StatusFromHistory
<1> QED
  BY <1>1, <1>5, <1>6 DEF Abstract!Redeem

LEMMA StepRefines ==
  IInv /\ IInv' /\ [Next]_authVars => [Abstract!Next]_<<[t \in Tokens |-> Status(t)], accepts>>
<1> SUFFICES ASSUME IInv, IInv', [Next]_authVars
             PROVE  \/ Abstract!Next
                    \/ UNCHANGED <<[t \in Tokens |-> Status(t)], accepts>>
  OBVIOUS
<1>1. CASE \E c \in Codes, t \in Tokens : GenerateCode(c, t)
  BY <1>1, GenerateCodeIssues DEF Abstract!Next
<1>2. CASE \E t \in Tokens : AcceptToken(t)
  BY <1>2, AcceptTokenRedeems DEF Abstract!Next
<1>3. CASE \E t \in Tokens : GenerateSessionToken(t)
  <2>1. /\ accepts' = accepts /\ displaced' = displaced /\ now' = now
        /\ \E i \in Issue : i.kind = "session" /\ issued' = issued \cup {i}
    BY <1>3 DEF GenerateSessionToken, Issue, IInv, TypeOK
  <2>2. \A t \in Tokens : (CodeIssued(t)' <=> CodeIssued(t)) /\ (InTime(t)' => InTime(t))
    BY <2>1 DEF CodeIssued, InTime
  <2> QED
    BY <2>1, <2>2, OtherStepsLapse DEF Abstract!Next
<1>4. CASE \/ \E t \in Tokens : RejectToken(t) \/ ValidateSessionToken(t) \/ RevokeSessionToken(t)
           \/ Cleanup \/ UNCHANGED authVars
  <2>1. accepts' = accepts /\ displaced' = displaced /\ now' = now /\ issued' = issued
    BY <1>4 DEF RejectToken, ValidateSessionToken, RevokeSessionToken, Cleanup, authVars
  <2>2. \A t \in Tokens : (CodeIssued(t)' <=> CodeIssued(t)) /\ (InTime(t)' => InTime(t))
    BY <2>1 DEF CodeIssued, InTime
  <2> QED
    BY <2>1, <2>2, OtherStepsLapse DEF Abstract!Next
<1>5. CASE Tick
  <2>1. accepts' = accepts /\ displaced' = displaced /\ now' = now + 1 /\ issued' = issued
    BY <1>5 DEF Tick
  <2>2. \A t \in Tokens : (CodeIssued(t)' <=> CodeIssued(t)) /\ (InTime(t)' => InTime(t))
    BY <2>1, ExpirationAssumption DEF CodeIssued, InTime, IInv, TypeOK, Issue
  <2> QED
    BY <2>1, <2>2, OtherStepsLapse DEF Abstract!Next
<1> QED
  BY <1>1, <1>2, <1>3, <1>4, <1>5 DEF Next

LEMMA InitRefines == Init => Abstract!Init
BY DEF Init, Abstract!Init, Status, CodeIssued

(* AuthManager implements OneTimeToken: tokens are issued, redeemed once or  *)
(* lapse for good, and no other history is possible.                         *)
THEOREM Refinement == Spec => ImplementsOneTimeToken
<1>1. Spec => []IInv
  BY IInvHolds
<1> QED
  BY <1>1, InitRefines, StepRefines, PTL DEF Spec, ImplementsOneTimeToken, Abstract!Spec
=============================================================================
