------------------------- MODULE MCEffectiveResources -------------------------
(* TLC's instance of EffectiveResources: every pod spec within the bounds.  *)
EXTENDS EffectiveResources
=============================================================================
