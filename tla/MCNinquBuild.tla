---------------------------- MODULE MCNinquBuild ----------------------------
(***************************************************************************)
(* NinquBuild for TLC: one source, an instance 1 made from it, and an         *)
(* instance 2 that may use the source, the output of 1, or run after it.      *)
(***************************************************************************)
EXTENDS NinquBuild

MCManifests ==
  {[in          |-> <<{0}, IF use = "in" THEN {0, 1} ELSE {0}>>,
    stale_extra |-> <<{}, {}>>,
    dep_inst    |-> <<{}, {1}>>,
    kind        |-> <<k1, k2>>] :
     use \in {"in", "order"}, k1 \in {"plain", "redirect", "pipe"}, k2 \in {"plain"}}
  \cup
  {[in          |-> <<{0}, {}>>,
    stale_extra |-> <<{}, {1}>>,
    dep_inst    |-> <<{}, {1}>>,
    kind        |-> <<"plain", k2>>] : k2 \in {"redirect", "phony"}}
=============================================================================
