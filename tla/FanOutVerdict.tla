---------------------------- MODULE FanOutVerdict ----------------------------
(***************************************************************************)
(* The vocabulary of a fan-out over the nodes (internal/collector/disk.go):*)
(* what one node's read comes to, and the verdict on all of them.          *)
(***************************************************************************)
EXTENDS Model

\* Live figures, a Forbidden error, any other error.
Outcomes == {"ok", "forbidden", "transient"}

\* No error when some node delivered figures; otherwise a Forbidden error if
\* any node denied the request, since that one is definitive.  With no node to
\* ask there is no error either.
Verdict(outcome) ==
    LET said(o) == {n \in DOMAIN outcome : outcome[n] = o}
    IN  [disk |-> Measured(said("ok")),
         err  |-> IF said("ok") # {} \/ DOMAIN outcome = {} THEN "nil"
                  ELSE IF said("forbidden") # {} THEN "forbidden"
                  ELSE "transient"]
=============================================================================
