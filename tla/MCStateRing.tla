---------------------------- MODULE MCStateRing -----------------------------
(* StateRing on small instances. *)
EXTENDS StateRing, Sequences

OnePayload == {<<1>>}
=============================================================================
