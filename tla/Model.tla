-------------------------------- MODULE Model --------------------------------
(***************************************************************************)
(* internal/model: the vocabulary the collector, the server and the web    *)
(* client share.  A capability is up or down for a reason; the figures a   *)
(* signal delivers are maps from a name to a measurement.                  *)
(*                                                                         *)
(* Of a measurement the properties only ask how old it is, so a figure is  *)
(* abstracted to its age: how many fetches of its signal have failed since *)
(* the fetch that measured it.                                             *)
(***************************************************************************)
EXTENDS Naturals

\* The empty string of a capability that is up.
NoReason == ""

ReasonDisabled    == "disabled"     \* turned off by flag, never requested
ReasonForbidden   == "forbidden"    \* RBAC denies it
ReasonAbsent      == "absent"       \* the API is not installed
ReasonUnavailable == "unavailable"  \* transient failures

Reasons == {ReasonDisabled, ReasonForbidden, ReasonAbsent, ReasonUnavailable}

-----------------------------------------------------------------------------
\* A nil or empty map of figures: no lookup in it succeeds.
NoFigures == [x \in {} |-> 0]

\* The figures of a fetch that was just answered for the names in S.
Measured(S) == [x \in S |-> 0]

\* The figures of m after one more fetch has failed.
Older(m) == [x \in DOMAIN m |-> m[x] + 1]

\* The ages found in m.
Ages(m) == {m[x] : x \in DOMAIN m}

\* m maps some of the names in N to ages of at most k.
IsFigures(m, N, k) == /\ DOMAIN m \subseteq N
                      /\ m \in [DOMAIN m -> 0..k]
=============================================================================
