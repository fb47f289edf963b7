------------------------------- MODULE Council -------------------------------
(***************************************************************************)
(* What deliberation promises (docs/deliberation.md): the council answers, *)
(* then in each round all its members reconsider at once, each knowing     *)
(* what all had said in the round before, and in the end the answers       *)
(* stand.  Agents that failed at first take no part.                       *)
(***************************************************************************)
EXTENDS Naturals

CONSTANTS Agents, Answers, Failed, NoText

Texts == Answers \cup {Failed}

VARIABLES
    stage,     \* "asking", "council", "closed"
    answers,   \* what each agent stands for
    members,   \* who takes part in the rounds
    round,     \* rounds held
    rounds     \* rounds asked for

vars == <<stage, answers, members, round, rounds>>

Several(agents) == \E a, b \in agents : a # b

Init ==
    /\ stage = "asking"
    /\ answers = [a \in Agents |-> NoText]
    /\ members = {}
    /\ round = 0
    /\ rounds \in Nat

Convene ==
    /\ stage = "asking"
    /\ stage' = "council"
    /\ answers' \in [Agents -> Texts]
    /\ members' = {a \in Agents : answers'[a] # Failed}
    /\ UNCHANGED <<round, rounds>>

Debate ==
    /\ stage = "council" /\ round < rounds /\ Several(members)
    /\ answers' \in [Agents -> Texts]
    /\ \A a \in Agents \ members : answers'[a] = answers[a]
    /\ round' = round + 1
    /\ UNCHANGED <<stage, members, rounds>>

Close ==
    /\ stage = "council" /\ (round = rounds \/ ~Several(members))
    /\ stage' = "closed"
    /\ UNCHANGED <<answers, members, round, rounds>>

Next == Convene \/ Debate \/ Close

Spec == Init /\ [][Next]_vars
==============================================================================
