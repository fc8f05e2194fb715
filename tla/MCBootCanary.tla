---------------------------- MODULE MCBootCanary ----------------------------
(***************************************************************************)
(* BootCanary with a sound guest and guests with one or two defects.       *)
(***************************************************************************)
EXTENDS BootCanary, FiniteSets

SoundGuest ==
  [tpm |-> "early", provisions |-> TRUE, quotes |-> TRUE, log |-> TRUE,
   efi |-> TRUE, bootc |-> "booted", port |-> TRUE, console |-> TRUE]

Defects(m) == {f \in DOMAIN m : m[f] # SoundGuest[f]}

MCMachines == {m \in Guests : Cardinality(Defects(m)) <= 2}
MCFewMachines == {m \in Guests : Cardinality(Defects(m)) <= 1}

=============================================================================
