----------------------------- MODULE RemoteCall -----------------------------
(***************************************************************************)
(* What the operator may assume of a remote call, without connections,     *)
(* keys or messages: the request runs on the remote machine at most once;  *)
(* a call that returns its answer ran exactly once; a call that returns an *)
(* error did not run, and will not run later.  A call whose context was    *)
(* cancelled says nothing: its request may have run or may run later.      *)
(***************************************************************************)
EXTENDS Naturals

CONSTANT Requests

VARIABLES
  state,    \* "new", "open" while the caller waits, then "ok", "error" or "interrupted"
  runs      \* how often the request ran

Init ==
  /\ state = [r \in Requests |-> "new"]
  /\ runs = [r \in Requests |-> 0]

Open(r) ==
  /\ state[r] = "new"
  /\ state' = [state EXCEPT ![r] = "open"]
  /\ UNCHANGED runs

Run(r) ==
  /\ state[r] \in {"open", "interrupted"}
  /\ runs[r] = 0
  /\ runs' = [runs EXCEPT ![r] = 1]
  /\ UNCHANGED state

Answer(r) ==
  /\ state[r] = "open"
  /\ runs[r] = 1
  /\ state' = [state EXCEPT ![r] = "ok"]
  /\ UNCHANGED runs

Fail(r) ==
  /\ state[r] = "open"
  /\ runs[r] = 0
  /\ state' = [state EXCEPT ![r] = "error"]
  /\ UNCHANGED runs

Abandon(r) ==
  /\ state[r] = "open"
  /\ state' = [state EXCEPT ![r] = "interrupted"]
  /\ UNCHANGED runs

Next == \E r \in Requests : Open(r) \/ Run(r) \/ Answer(r) \/ Fail(r) \/ Abandon(r)

Spec == Init /\ [][Next]_<<state, runs>>
=============================================================================
