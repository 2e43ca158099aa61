------------------------------ MODULE Capability ------------------------------
(***************************************************************************)
(* What the collector promises of an optional signal, whichever it is: the *)
(* contract that metrics (noteMetrics) and node disk (currentDisk) both    *)
(* implement, each with code of its own.                                   *)
(*                                                                         *)
(* A signal is up until it is refused, or until capFailThreshold fetches   *)
(* in a row have failed transiently.  While it is up it serves the figures *)
(* of its last good fetch; the moment it goes down they are gone.          *)
(***************************************************************************)
EXTENDS Naturals, Model

CONSTANT capFailThreshold   \* a positive number

VARIABLES
    up,       \* the capability as the snapshot reports it
    reason,   \* why it is down, NoReason while it is up
    streak,   \* consecutive transient failures, at most capFailThreshold
    ages      \* the ages of the figures it would serve now

vars == <<up, reason, streak, ages>>

Init == /\ up = TRUE
        /\ reason = NoReason
        /\ streak = 0
        /\ ages = {}

\* A fetch was answered: the signal is up and serves nothing but its figures.
Succeed == /\ up' = TRUE
           /\ reason' = NoReason
           /\ streak' = 0
           /\ ages' \subseteq {0}

\* A definitive answer (a 403, an API that is not installed) needs no streak.
Refuse(r) == /\ up' = FALSE
             /\ reason' = r
             /\ streak' = 0
             /\ ages' = {}

\* A transient failure that the signal survives: it keeps its figures, one
\* fetch older.
Survive == /\ up
           /\ streak + 1 < capFailThreshold
           /\ streak' = streak + 1
           /\ ages' = {a + 1 : a \in ages}
           /\ UNCHANGED <<up, reason>>

\* The failure that completes the streak.
Lose == /\ up
        /\ streak + 1 >= capFailThreshold
        /\ up' = FALSE
        /\ reason' = ReasonUnavailable
        /\ streak' = capFailThreshold
        /\ ages' = {}

\* A failure of a signal that is down already: nothing comes back.
StayDown == /\ ~up
            /\ up' = FALSE
            /\ reason' \in {reason, ReasonUnavailable}
            /\ streak' \in streak..capFailThreshold
            /\ ages' = {}

Next == \/ Succeed
        \/ \E r \in {ReasonForbidden, ReasonAbsent} : Refuse(r)
        \/ Survive
        \/ Lose
        \/ StayDown

Spec == Init /\ [][Next]_vars
=============================================================================
