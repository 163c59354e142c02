-------------------------------- MODULE FanOut --------------------------------
(***************************************************************************)
(* What Collect promises its callers: it asks some of the adapters, each   *)
(* of them is decided once, by a status or by an error and independently   *)
(* of the others, and it returns when all have been decided.               *)
(***************************************************************************)
CONSTANT Adapters

VARIABLES
  stage,      \* idle, asking or answered
  asked,      \* the adapters of this round
  outcome     \* what has been decided for each

fanVars == <<stage, asked, outcome>>

Init ==
  /\ stage = "idle"
  /\ asked = {}
  /\ outcome = [a \in Adapters |-> "none"]

\* A round begins: the last one is forgotten.
Forget ==
  /\ stage # "asking"
  /\ stage' = "idle"
  /\ asked' = {}
  /\ outcome' = [a \in Adapters |-> "none"]

Ask ==
  /\ stage = "idle"
  /\ stage' = "asking"
  /\ asked' \in SUBSET Adapters
  /\ UNCHANGED outcome

Decide(a) ==
  /\ stage = "asking"
  /\ a \in asked
  /\ outcome[a] = "none"
  /\ \E o \in {"status", "error"}: outcome' = [outcome EXCEPT ![a] = o]
  /\ UNCHANGED <<stage, asked>>

Answer ==
  /\ stage = "asking"
  /\ \A a \in asked: outcome[a] # "none"
  /\ stage' = "answered"
  /\ UNCHANGED <<asked, outcome>>

Next == Forget \/ Ask \/ Answer \/ \E a \in Adapters: Decide(a)

Spec == Init /\ [][Next]_fanVars
=============================================================================
