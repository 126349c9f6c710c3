------------------------------- MODULE HumanGate -------------------------------
(* What every place of the backend that stops for a person promises: a gate    *)
(* opens only for somebody who said "approved", or because its configuration   *)
(* opens it when nobody answers, and what was decided stays decided.           *)
(* ApprovalNode and ChatHitl implement this specification.                     *)
CONSTANTS Gate,      \* the questions put to a person
          AutoOpen   \* the gates that open by themselves when time is up

Answers == {"approved", "denied"}

VARIABLES gate,   \* gate[g]: "shut" until the question is settled
          said    \* said[g]: the answers that were recorded for g

vars == <<gate, said>>

TypeOK ==
    /\ gate \in [Gate -> {"shut", "open", "refused"}]
    /\ said \in [Gate -> SUBSET Answers]

Init ==
    /\ gate = [g \in Gate |-> "shut"]
    /\ said = [g \in Gate |-> {}]

\* Somebody's answer is recorded, be it in time or too late.
Say(g, a) ==
    /\ said' = [said EXCEPT ![g] = @ \cup {a}]
    /\ UNCHANGED gate

Open(g) ==
    /\ gate[g] = "shut"
    /\ "approved" \in said[g] \/ g \in AutoOpen
    /\ gate' = [gate EXCEPT ![g] = "open"]
    /\ UNCHANGED said

Refuse(g) ==
    /\ gate[g] = "shut"
    /\ gate' = [gate EXCEPT ![g] = "refused"]
    /\ UNCHANGED said

Next == \E g \in Gate : Open(g) \/ Refuse(g) \/ \E a \in Answers : Say(g, a)

Spec == Init /\ [][Next]_vars
================================================================================
