---------------------------- MODULE MCAddonCanary ----------------------------
(***************************************************************************)
(* AddonCanary with the stub the job hopes for, which declares what it     *)
(* measured or not, and stubs that differ from it in one respect.          *)
(***************************************************************************)
EXTENDS AddonCanary

Honest == [refuses |-> TRUE, loads |-> "trusted", measures |-> "policy",
           disturbs |-> FALSE, declares |-> FALSE]

MCStubs ==
  {Honest, [Honest EXCEPT !.declares = TRUE], [Honest EXCEPT !.refuses = FALSE],
   [Honest EXCEPT !.loads = "all", !.declares = TRUE],
   [Honest EXCEPT !.loads = "none"],
   [Honest EXCEPT !.measures = "zero"], [Honest EXCEPT !.measures = "other"],
   [Honest EXCEPT !.disturbs = TRUE]}

=============================================================================
