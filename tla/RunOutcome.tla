----------------------------- MODULE RunOutcome -----------------------------
(***************************************************************************)
(* What an account manager run promises, whatever workers, recovery jobs,  *)
(* cancellations and crashes do: it is asked for once, calls the provider  *)
(* at most once, and gets exactly one outcome, which is never revised.     *)
(***************************************************************************)
CONSTANT Runs

VARIABLES outcome, called

vars == <<outcome, called>>

Outcomes == {"SUCCEEDED", "FAILED", "UNKNOWN", "CANCELLED"}

Init ==
  /\ outcome = [r \in Runs |-> "unasked"]
  /\ called = {}

Ask(r) ==
  /\ outcome[r] = "unasked"
  /\ outcome' = [outcome EXCEPT ![r] = "open"]
  /\ UNCHANGED called

\* A call may still leave for a run that was cancelled or expired meanwhile.
Call(r) ==
  /\ outcome[r] # "unasked" /\ r \notin called
  /\ called' = called \cup {r}
  /\ UNCHANGED outcome

\* Only a call can succeed.
Decide(r, o) ==
  /\ outcome[r] = "open"
  /\ o = "SUCCEEDED" => r \in called
  /\ outcome' = [outcome EXCEPT ![r] = o]
  /\ UNCHANGED called

Next ==
  \E r \in Runs : Ask(r) \/ Call(r) \/ (\E o \in Outcomes : Decide(r, o))

Spec == Init /\ [][Next]_vars

=============================================================================
