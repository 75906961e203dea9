---------------------------- MODULE MCDashboard ----------------------------
(* Instances of Dashboard for TLC. *)
EXTENDS Dashboard

MCKind == [r \in Requests |->
  CASE r \in {"read", "look"} -> "text" [] r = "erase" -> "fe" [] r = "dump" -> "mr"
    [] r = "poke" -> "mw" [] r \in {"flash", "burn"} -> "fw"]
MCPage == [r \in Requests |-> IF r = "burn" THEN 2 ELSE 1]
=============================================================================
