---------------------------- MODULE OneTimeToken ----------------------------
(***************************************************************************)
(* The promise a connection code makes, without clocks, maps or codes: a   *)
(* token is issued once, redeemed at most once, and a token that lapsed    *)
(* before it was redeemed never comes back.                                *)
(***************************************************************************)
EXTENDS Naturals

CONSTANT Tokens

VARIABLES
  status,        \* the standing of each token
  redemptions    \* how often each token was redeemed

Live == {t \in Tokens : status[t] = "live"}

Init ==
  /\ status = [t \in Tokens |-> "unissued"]
  /\ redemptions = [t \in Tokens |-> 0]

(* The tokens of S leave "live" for "lapsed"; the others keep their place. *)
Lapsed(S) == [t \in Tokens |-> IF t \in S THEN "lapsed" ELSE status[t]]

(* Issuing a token may displace live ones. *)
IssueToken(t, S) ==
  /\ status[t] = "unissued"
  /\ status' = [Lapsed(S) EXCEPT ![t] = "live"]
  /\ UNCHANGED redemptions

Redeem(t) ==
  /\ status[t] = "live"
  /\ status' = [status EXCEPT ![t] = "redeemed"]
  /\ redemptions' = [redemptions EXCEPT ![t] = @ + 1]

Lapse(S) ==
  /\ status' = Lapsed(S)
  /\ UNCHANGED redemptions

Next ==
  \/ \E t \in Tokens, S \in SUBSET Live : IssueToken(t, S)
  \/ \E t \in Tokens : Redeem(t)
  \/ \E S \in SUBSET Live : Lapse(S)

Spec == Init /\ [][Next]_<<status, redemptions>>
=============================================================================
