-------------------------- MODULE MCControlEvidence --------------------------
(***************************************************************************)
(* ControlEvidence with a genuine machine and machines that differ from it *)
(* in one respect, most of them in the TPM's answer.                       *)
(***************************************************************************)
EXTENDS ControlEvidence

MCSources == {<<"i1", "n1">>, <<"i2", "n1">>, <<"i1", "n2">>}

Answer ==
  [length |-> 62, code |-> 0, size |-> 62, selections |-> 1,
   algorithm |-> "sha256", bitmap |-> 3, digests |-> 1, digestSize |-> 32,
   digest |-> "value"]

Machine ==
  [secureBoot |-> TRUE, loader |-> "systemd-boot", stub |-> "systemd-stub",
   kernelImage |-> "11", identifier |-> "uki", mounts |-> 1, tpm |-> Answer]

(* Answers the parser must refuse, or a PCR nobody extended. *)
OddAnswers ==
  {None, [Answer EXCEPT !.code = 1], [Answer EXCEPT !.size = 61],
   [Answer EXCEPT !.selections = 2], [Answer EXCEPT !.algorithm = "other"],
   [Answer EXCEPT !.digests = 0, !.length = 28, !.size = 28],
   [Answer EXCEPT !.length = 50, !.size = 50],
   [Answer EXCEPT !.digestSize = 20, !.length = 50, !.size = 50],
   [Answer EXCEPT !.length = 9, !.size = 9],
   [Answer EXCEPT !.digest = "zero"]}

MCMachines ==
  {Machine, [Machine EXCEPT !.secureBoot = FALSE],
   [Machine EXCEPT !.loader = "other"], [Machine EXCEPT !.stub = None],
   [Machine EXCEPT !.kernelImage = "other"], [Machine EXCEPT !.mounts = 2],
   [Machine EXCEPT !.identifier = "other"], [Machine EXCEPT !.identifier = None]}
  \union {[Machine EXCEPT !.tpm = answer] : answer \in OddAnswers}

=============================================================================
