---------------------------- MODULE FanOutContract ----------------------------
(***************************************************************************)
(* What a fan-out over the nodes promises its caller (fanOut of            *)
(* internal/collector/disk.go): one verdict, a function of what the nodes  *)
(* said and not of the order in which they said it.                        *)
(***************************************************************************)
EXTENDS FanOutVerdict

CONSTANTS
    Nodes,    \* the nodes of one fan-out
    NoAnswer  \* no verdict yet

VARIABLE answer

Init == answer = NoAnswer

Deliver == /\ answer = NoAnswer
           /\ \E outcome \in [Nodes -> Outcomes] :
                 answer' = Verdict(outcome)

Spec == Init /\ [][Deliver]_answer /\ WF_answer(Deliver)
=============================================================================
