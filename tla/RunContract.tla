----------------------------- MODULE RunContract -----------------------------
(***************************************************************************)
(* What the run queue promises, without workers, transactions, sweepers or *)
(* calls in flight: a run goes through the states of docs/architecture.md, *)
(* every claim and every retry gives it a token greater than any before,   *)
(* and an outcome is recorded once, for the token the run then carries.    *)
(***************************************************************************)
EXTENDS Integers

CONSTANT Run   \* run ids

VARIABLES state,    \* per run
          token,    \* per run, the fencing token in force
          outcome   \* per run, the token an outcome was recorded for, or 0

cvars == <<state, token, outcome>>

ContractInit ==
  /\ state = [r \in Run |-> "ABSENT"]
  /\ token = [r \in Run |-> 0]
  /\ outcome = [r \in Run |-> 0]

Move(r, from, to) == state[r] = from /\ state' = [state EXCEPT ![r] = to]

Submit(r) ==
  /\ Move(r, "ABSENT", "QUEUED")
  /\ token'[r] \in Nat
  /\ token' = [token EXCEPT ![r] = token'[r]]
  /\ UNCHANGED outcome

\* One transaction may claim several runs.
Claim(S) ==
  /\ \A r \in S : state[r] = "QUEUED"
  /\ state' = [r \in Run |-> IF r \in S THEN "RUNNING" ELSE state[r]]
  /\ \A r \in S : token'[r] > token[r]
  /\ token' = [r \in Run |-> IF r \in S THEN token'[r] ELSE token[r]]
  /\ UNCHANGED outcome

Complete(r) ==
  /\ Move(r, "RUNNING", "SUCCEEDED") \/ Move(r, "RUNNING", "FAILED")
  /\ outcome' = [outcome EXCEPT ![r] = token[r]]
  /\ UNCHANGED token

Cancel(r) ==
  /\ \/ Move(r, "QUEUED", "CANCELLED")
     \/ Move(r, "RUNNING", "CANCELLING")
     \/ Move(r, "CANCELLING", "CANCELLED")
  /\ UNCHANGED <<token, outcome>>

Retry(r) ==
  /\ Move(r, "FAILED", "QUEUED")
  /\ token'[r] > token[r]
  /\ token' = [token EXCEPT ![r] = token'[r]]
  /\ outcome' = [outcome EXCEPT ![r] = 0]

ContractNext ==
  \/ \E r \in Run : Submit(r) \/ Complete(r) \/ Cancel(r) \/ Retry(r)
  \/ \E S \in SUBSET Run : Claim(S)

ContractSpec == ContractInit /\ [][ContractNext]_cvars
=============================================================================
