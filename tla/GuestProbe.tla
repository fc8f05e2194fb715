----------------------------- MODULE GuestProbe -----------------------------
(***************************************************************************)
(* What fedora_sealed_guest_probe.py makes of the machine it runs in: the  *)
(* EFI variables of boot loader and stub, the files below the mounts of    *)
(* the ESP, and the answer of the TPM to a read of PCR 11.                 *)
(***************************************************************************)
EXTENDS Naturals

CONSTANT None   (* an EFI variable that is missing or cannot be decoded *)

(* The answer to TPM2_PCR_Read: its true length in bytes and what it says.
   "zero" and "value" are digests of 32 bytes. *)
Answers ==
  [length : Nat, code : {0, 1}, size : Nat, selections : Nat,
   algorithm : {"sha256", "other"}, bitmap : Nat, digests : Nat,
   digestSize : Nat, digest : {"zero", "value"}]

(* Mutant: the digest ends where the answer does, whatever its size. *)
ParsePcrUnbounded(answer) ==
  IF /\ answer.length >= 10 /\ answer.code = 0
     /\ answer.size = answer.length
     /\ answer.length >= 18 /\ answer.selections = 1
     /\ answer.length >= 21
     /\ answer.algorithm = "sha256" /\ answer.bitmap = 3
     /\ answer.length >= 28 /\ answer.digests = 1
     /\ answer.length >= 30
  THEN answer.digest ELSE None

(* The answer's one digest, or None where parse_pcr_read_response raises: the
   header is 10 bytes, the counters 8, the selection 3 and a bitmap of 3, the
   digest's count and size 6. *)
ParsePcr(answer) ==
  IF /\ answer.length >= 10 /\ answer.code = 0
     /\ answer.size = answer.length
     /\ answer.length >= 18 /\ answer.selections = 1
     /\ answer.length >= 21
     /\ answer.algorithm = "sha256" /\ answer.bitmap = 3
     /\ answer.length >= 28 /\ answer.digests = 1
     /\ answer.length >= 30
     /\ answer.digestSize = 32 /\ answer.length = 30 + answer.digestSize
  THEN answer.digest ELSE None

(* The guest, as firmware, loader, stub and systemd left it. *)
Machines ==
  [secureBoot : BOOLEAN \union {None},
   loader : {"systemd-boot", "other", None},
   stub : {"systemd-stub", "other", None},
   kernelImage : {"11", "other", None},
   identifier : {"uki", "other", None},  (* StubImageIdentifier          *)
   mounts : 0 .. 3,                      (* of /boot, /boot/efi and /efi *)
   tpm : Answers \union {None}]

(* The roots below which the identifier names a file. *)
Located(m) == IF m.identifier = "uki" THEN m.mounts ELSE 0

ReadPcr11(m) == IF m.tpm = None THEN None ELSE ParsePcr(m.tpm)

ASSUME ProbeAssumption ==
  /\ None \notin {"systemd-boot", "systemd-stub", "11", "other", "uki", "zero",
                 "value"}
  /\ None \notin BOOLEAN /\ None \notin Answers

Receipts ==
  [success : BOOLEAN, secureBoot : BOOLEAN \union {None},
   loader : {"systemd-boot", "other", None},
   stub : {"systemd-stub", "other", None},
   kernelImage : {"11", "other", None}, identifier : {"uki", "other", None},
   pcr11 : {"zero", "value", None}]

(* write_result's receipt of a collection that raised. *)
Failure ==
  [success |-> FALSE, secureBoot |-> None, loader |-> None, stub |-> None,
   kernelImage |-> None, identifier |-> None, pcr11 |-> None]

Successful(m) ==
  /\ m.loader = "systemd-boot" /\ m.stub = "systemd-stub"
  /\ m.kernelImage = "11" /\ m.secureBoot = TRUE
  /\ ReadPcr11(m) # "zero"

Collect(m) ==
  IF m.identifier = None \/ Located(m) # 1 \/ ReadPcr11(m) = None
  THEN Failure
  ELSE [success |-> Successful(m), secureBoot |-> m.secureBoot,
        loader |-> m.loader, stub |-> m.stub, kernelImage |-> m.kernelImage,
        identifier |-> m.identifier, pcr11 |-> ReadPcr11(m)]

=============================================================================
