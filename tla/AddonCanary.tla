----------------------------- MODULE AddonCanary -----------------------------
(***************************************************************************)
(* The sealed-image job: fedora-sealed-uki-positive-control.yml from the   *)
(* disk's build to the last stop rule, with the scripts its steps run.     *)
(*                                                                         *)
(* The installed disk is the base of throwaway overlays.  A tampered       *)
(* overlay must be rejected by the firmware, the base is booted as a       *)
(* positive control, and then four overlays (no add-on, the signed one     *)
(* twice, the tampered one) are built, booted through the retry wrapper    *)
(* and compared.  qemu-nbd serves an overlay while an add-on is installed  *)
(* and closes it some time after it was told to disconnect.                *)
(*                                                                         *)
(* What the firmware and systemd-stub do with an add-on is the question    *)
(* the job asks: `stub` is any of their possible behaviours.               *)
(***************************************************************************)
EXTENDS Naturals, Sequences, FiniteSets

CONSTANTS
  MaxAttempts,  (* boots per arm, 2 in run_fedora_sealed_retry.sh          *)
  MaxLate,      (* bound: overlays written after the disconnect          *)
  Stubs,        (* the behaviours of firmware and stub considered          *)
  None          (* no file, no add-on                                      *)

(* What a firmware and a stub may do: refuse a UKI whose bytes were changed or
   start it; load the add-ons of trusted signers, all of them or none; measure
   an add-on's parameters exactly, not at all, or otherwise; and let an add-on
   change PCR 11 or not. *)
StubBehaviours ==
  [refuses : BOOLEAN, loads : {"trusted", "all", "none"},
   measures : {"policy", "zero", "other"}, disturbs : BOOLEAN,
   declares : BOOLEAN]

VARIABLES
  step,      (* what the job executes next                                 *)
  arm,       (* the position in Order of the arm it is at                  *)
  attempt,   (* the boot of that arm                                       *)
  job,       (* "running", "failed" or "succeeded"                         *)
  stub,      (* how firmware and systemd-stub behave: never changes        *)
  base,      (* fedora-sealed.qcow2: how often it was written              *)
  disk,      (* the overlays: the base they were made on, their add-on and *)
             (* how often they were written                                *)
  closing,   (* overlays whose qemu-nbd was told to go and has not gone    *)
  store,     (* ATTESTOS_FEDORA_OVMF_VARS: "custom" or "extended"          *)
  static,    (* static-inspection.json: signature_verified                 *)
  rejection, (* tamper-admission.json: firmware_rejected                   *)
  control,   (* `success` of the positive control's receipt                *)
  armDoc,    (* <arm>-arm.json                                             *)
  bootDoc,   (* <arm>-boot: boot input, attempts and guest receipt         *)
  canary     (* `passed` of addon-canary.json                              *)

controlVars == <<static, rejection, control>>
evidenceVars == <<armDoc, bootDoc, canary>>
vars == <<step, arm, attempt, job, stub, base, disk, closing, store,
          controlVars, evidenceVars>>

Order == <<"baseline", "signed-one", "signed-two", "tampered">>
Arms == {"baseline", "signed-one", "signed-two", "tampered"}
Signed == {"signed-one", "signed-two"}
Tamper == "upstream-tamper"

AddonOf(a) == IF a = "baseline" THEN None
              ELSE IF a \in Signed THEN "signed" ELSE "tampered"

Addons == {None, "signed", "tampered"}

Steps == {"build", "tamper", "tamper-boot", "control-boot", "control-enforce",
          "prepare", "overlays", "install", "disconnect", "hash", "source",
          "boot", "enforce", "end"}

(* sha256sum of an overlay: it does not cover the base. *)
Hash(d) == <<d.addon, d.writes>>
MaxWrites == 2
Hashes == Addons \X (0..MaxWrites)

(* PCR 11 is the digest of what the stub measured and of the boot phases that
   systemd has: its "ready" phase and the probe wait for different units. *)
Phases == {"sysinit", "ready"}

Guests == [success : BOOLEAN, pcr11 : {"uki", "other"}, phase : Phases,
           pcr12 : {"policy", "zero", "other"}, policy : BOOLEAN,
           declared : BOOLEAN, addon : Addons]

Disks == [on : Nat, addon : Addons, writes : 0..MaxWrites]
ArmDocs == [addon : Addons, after : Hashes \union {None}]
BootDocs ==
  [source : Hashes, disk : Hashes \union {None},
   store : {"custom", "extended", "none"}, selected : 0..MaxAttempts,
   guest : Guests \union {None}]

ASSUME CanaryAssumption ==
  /\ MaxAttempts \in Nat \ {0} /\ MaxLate \in Nat
  /\ Stubs \subseteq StubBehaviours
  /\ None \notin BOOLEAN /\ None \notin {"signed", "tampered"}
  /\ None \notin Disks \union ArmDocs \union BootDocs
  /\ None \notin Hashes \union Guests

TypeOK ==
  /\ step \in Steps /\ arm \in 1..Len(Order) /\ attempt \in 0..MaxAttempts
  /\ job \in {"running", "failed", "succeeded"}
  /\ (job = "running") = (step # "end")
  /\ stub \in Stubs /\ base \in Nat
  /\ disk \in [Arms \union {Tamper} -> Disks \union {None}]
  /\ closing \subseteq Arms
  /\ store \in {"custom", "extended"}
  /\ static \in BOOLEAN \union {None} /\ rejection \in BOOLEAN
  /\ control \in BOOLEAN \union {None}
  /\ armDoc \in [Arms -> ArmDocs \union {None}]
  /\ bootDoc \in [Arms -> BootDocs \union {None}]
  /\ canary \in BOOLEAN \union {None}

Init ==
  /\ step = "build" /\ arm = 1 /\ attempt = 0 /\ job = "running"
  /\ stub \in Stubs
  /\ base = 0 /\ disk = [d \in Arms \union {Tamper} |-> None] /\ closing = {}
  /\ store = "custom"
  /\ static = None /\ rejection = FALSE /\ control = None
  /\ armDoc = [a \in Arms |-> None] /\ bootDoc = [a \in Arms |-> None]
  /\ canary = None

Ends(how) == step' = "end" /\ job' = how
Continue(next) == step' = next /\ UNCHANGED job

(* Any command of a step may fail, and the whole job be cancelled. *)
StepFails ==
  /\ job = "running"
  /\ Ends("failed")
  /\ UNCHANGED <<arm, attempt, stub, base, disk, closing, store, controlVars,
                 evidenceVars>>

-----------------------------------------------------------------------------
(* The positive control. *)

(* A signature that does not verify is recorded and stops nothing yet. *)
BuildDisk ==
  /\ step = "build"
  /\ base' = 1 /\ static' \in BOOLEAN
  /\ Continue("tamper")
  /\ UNCHANGED <<arm, attempt, stub, disk, closing, store, rejection, control,
                 evidenceVars>>

Overlay == [on |-> base, addon |-> None, writes |-> 0]

(* The tampered UKI is written to an overlay; this script, alone among those
   that use qemu-nbd, waits until the overlay is closed. *)
TamperOverlay ==
  /\ step = "tamper"
  /\ disk' = [disk EXCEPT ![Tamper] = [Overlay EXCEPT !.writes = 1]]
  /\ Continue("tamper-boot")
  /\ UNCHANGED <<arm, attempt, stub, base, closing, store, controlVars,
                 evidenceVars>>

(* Mutant: any failure of the tampered boot counts as its rejection. *)
AnyFailure(rc) == rc # 0

Expected(rc) == rc = 80

(* Mutant: the tampered overlay is not removed. *)
TamperBootKeeping ==
  /\ step = "tamper-boot"
  /\ \E rc \in {1, 124, IF stub.refuses THEN 80 ELSE 0} :
       IF Expected(rc) THEN rejection' = TRUE /\ Continue("control-boot")
                       ELSE Ends("failed") /\ UNCHANGED rejection
  /\ UNCHANGED <<arm, attempt, stub, base, disk, closing, store, static,
                 control, evidenceVars>>

(* The runner's status is 80 only when the firmware's refusal was seen. *)
TamperBoot ==
  /\ step = "tamper-boot"
  /\ \E rc \in {1, 124, IF stub.refuses THEN 80 ELSE 0} :
       IF Expected(rc)
         THEN /\ rejection' = TRUE
              /\ disk' = [disk EXCEPT ![Tamper] = None]
              /\ Continue("control-boot")
         ELSE Ends("failed") /\ UNCHANGED <<rejection, disk>>
  /\ UNCHANGED <<arm, attempt, stub, base, closing, store, static, control,
                 evidenceVars>>

(* The base itself is booted, and written to. *)
ControlBoot ==
  /\ step = "control-boot"
  /\ base' = base + 1
  /\ \/ control' \in BOOLEAN /\ Continue("control-enforce")
     \/ Ends("failed") /\ UNCHANGED control
  /\ UNCHANGED <<arm, attempt, stub, disk, closing, store, static, rejection,
                 evidenceVars>>

(* evaluate_direct: receipts that name the same images and the same UKI. *)
ControlPasses == static /\ rejection /\ control

(* Evaluated twice on the same files; the second time a failure counts. *)
EnforceControl ==
  /\ step = "control-enforce"
  /\ IF ControlPasses THEN Continue("prepare") ELSE Ends("failed")
  /\ UNCHANGED <<arm, attempt, stub, base, disk, closing, store, controlVars,
                 evidenceVars>>

-----------------------------------------------------------------------------
(* The four arms. *)

(* The add-on and its tampered copy are checked, the certificate enrolled in a
   copy of the variable store that the following steps boot with.  The gates
   about these static documents hold whenever this step succeeds. *)
Prepare ==
  /\ step = "prepare"
  /\ store' = "extended"
  /\ Continue("overlays")
  /\ UNCHANGED <<arm, attempt, stub, base, disk, closing, controlVars,
                 evidenceVars>>

CreateOverlays ==
  /\ step = "overlays"
  /\ disk' = [d \in DOMAIN disk |-> IF d \in Arms THEN Overlay ELSE disk[d]]
  /\ Continue("install")
  /\ UNCHANGED <<arm, attempt, stub, base, closing, store, controlVars,
                 evidenceVars>>

This == Order[arm]

(* Mutant: the second loop starts where the first one ended. *)
NextArmOnwards(again, after) ==
  /\ arm' = arm + 1
  /\ IF arm < Len(Order) THEN Continue(again) ELSE Continue(after)

NextArm(again, after) ==
  IF arm < Len(Order) THEN arm' = arm + 1 /\ Continue(again)
                      ELSE arm' = 1 /\ Continue(after)

(* Connect, mount, check that no add-on is there, install one or none (the
   directory is created either way) and write the arm's document. *)
InstallAddon ==
  /\ step = "install" /\ disk[This].addon = None
  /\ disk' = [disk EXCEPT ![This].addon = AddonOf(This), ![This].writes = 1]
  /\ armDoc' = [armDoc EXCEPT ![This] =
                  [addon |-> AddonOf(This), after |-> None]]
  /\ Continue("disconnect")
  /\ UNCHANGED <<arm, attempt, stub, base, closing, store, controlVars,
                 bootDoc, canary>>

Disconnect ==
  /\ step = "disconnect"
  /\ closing' = closing \union {This}
  /\ Continue("hash")
  /\ UNCHANGED <<arm, attempt, stub, base, disk, store, controlVars,
                 evidenceVars>>

(* Mutant: the hash taken before the installation is recorded. *)
HashDiskBefore ==
  /\ step = "hash"
  /\ armDoc' = [armDoc EXCEPT ![This].after = Hash(Overlay)]
  /\ NextArm("install", "source")
  /\ UNCHANGED <<attempt, stub, base, disk, closing, store, controlVars,
                 bootDoc, canary>>

(* disk_sha256_after_install, without looking whether the overlay is closed. *)
HashDisk ==
  /\ step = "hash"
  /\ armDoc' = [armDoc EXCEPT ![This].after = Hash(disk[This])]
  /\ NextArm("install", "source")
  /\ UNCHANGED <<attempt, stub, base, disk, closing, store, controlVars,
                 bootDoc, canary>>

Late == {a \in Arms : disk[a] # None /\ disk[a].writes = MaxWrites}

(* qemu-nbd goes and writes what it still held.  When it holds nothing, or goes
   when the job is over, nobody can tell. *)
NbdCloses(a) ==
  /\ a \in closing /\ job = "running" /\ Cardinality(Late) < MaxLate
  /\ closing' = closing \ {a}
  /\ disk' = [disk EXCEPT ![a].writes = MaxWrites]
  /\ UNCHANGED <<step, arm, attempt, job, stub, base, store, controlVars,
                 evidenceVars>>

(* The wrapper hashes the arm's disk before its first boot. *)
HashSource ==
  /\ step = "source"
  /\ bootDoc' = [bootDoc EXCEPT ![This] =
                   [source |-> Hash(disk[This]), disk |-> None,
                    store |-> "none", selected |-> 0, guest |-> None]]
  /\ attempt' = 1
  /\ Continue("boot")
  /\ UNCHANGED <<arm, stub, base, disk, closing, store, controlVars, armDoc,
                 canary>>

Applied(addon) ==
  /\ addon # None
  /\ \/ stub.loads = "all"
     \/ stub.loads = "trusted" /\ addon = "signed" /\ store = "extended"

(* What the probe finds in a guest that boots with this add-on on its disk.  An
   EFI variable declares, at most, that some parameter was measured. *)
Observed(addon, ok, phase) ==
  [success |-> ok, phase |-> phase,
   pcr11 |-> IF stub.disturbs /\ Applied(addon) THEN "other" ELSE "uki",
   pcr12 |-> IF Applied(addon) THEN stub.measures ELSE "zero",
   policy |-> Applied(addon), addon |-> addon,
   declared |-> stub.declares /\ Applied(addon) /\ stub.measures # "zero"]

(* A boot that delivers a receipt, good or bad, from an unchanged copy, before
   or after systemd's "ready" phase. *)
BootArm ==
  /\ step = "boot" /\ Hash(disk[This]) = bootDoc[This].source
  /\ \E ok \in BOOLEAN, phase \in Phases :
       bootDoc' = [bootDoc EXCEPT ![This] =
         [source |-> @.source, disk |-> Hash(disk[This]), store |-> store,
          selected |-> attempt,
          guest |-> Observed(disk[This].addon, ok, phase)]]
  /\ attempt' = 0
  /\ NextArm("source", "enforce")
  /\ UNCHANGED <<stub, base, disk, closing, store, controlVars, armDoc,
                 canary>>

(* Mutant: a silent boot starts the wrapper, and its count, again. *)
BootSilentAgain ==
  /\ step = "boot" /\ Hash(disk[This]) = bootDoc[This].source
  /\ attempt' = 0
  /\ Continue("source")
  /\ UNCHANGED <<arm, stub, base, disk, closing, store, controlVars,
                 evidenceVars>>

(* A time-out without a receipt; the second one fails the step. *)
BootSilent ==
  /\ step = "boot" /\ Hash(disk[This]) = bootDoc[This].source
  /\ attempt < MaxAttempts
  /\ attempt' = attempt + 1
  /\ UNCHANGED <<step, arm, job, stub, base, disk, closing, store, controlVars,
                 evidenceVars>>

-----------------------------------------------------------------------------
(* validate_fedora_pcr12_addon.py, after the four boots. *)

ArmJoin(a) == armDoc[a].addon = AddonOf(a) /\ armDoc[a].after # None

BootInputJoin(a) ==
  bootDoc[a].disk = armDoc[a].after /\ bootDoc[a].store = "extended"

BootAttemptsJoin(a) ==
  /\ bootDoc[a].selected \in 1..MaxAttempts
  /\ bootDoc[a].source = armDoc[a].after

GuestOf(a) == bootDoc[a].guest

GuestAddonJoin(a) == GuestOf(a).addon = AddonOf(a)

SamePcr11(a, b) ==
  /\ GuestOf(a).pcr11 = GuestOf(b).pcr11
  /\ GuestOf(a).phase = GuestOf(b).phase

Unaffected(a) ==
  GuestOf(a).pcr12 = "zero" /\ ~GuestOf(a).policy /\ ~GuestOf(a).declared

(* Mutant: the replay gate is missing; nonzero and reproducible will do. *)
SignedNonzero(a) ==
  GuestOf(a).policy /\ GuestOf(a).pcr12 # "zero"
  /\ \A b \in Signed : GuestOf(b).pcr12 = GuestOf(a).pcr12

SignedApplied(a) == GuestOf(a).policy /\ GuestOf(a).pcr12 = "policy"

CanaryPasses ==
  /\ static
  /\ \A a \in Arms : /\ ArmJoin(a) /\ BootInputJoin(a) /\ BootAttemptsJoin(a)
                     /\ GuestOf(a).success /\ GuestAddonJoin(a)
  /\ \A a, b \in Arms : SamePcr11(a, b)
  /\ Unaffected("baseline") /\ Unaffected("tampered")
  /\ \A a \in Signed : SignedApplied(a)

(* Evaluated and uploaded, then evaluated again and enforced. *)
EnforceCanary ==
  /\ step = "enforce"
  /\ canary' = CanaryPasses
  /\ Ends(IF CanaryPasses THEN "succeeded" ELSE "failed")
  /\ UNCHANGED <<arm, attempt, stub, base, disk, closing, store, controlVars,
                 armDoc, bootDoc>>

Job ==
  \/ StepFails \/ BuildDisk \/ TamperOverlay \/ TamperBoot \/ ControlBoot
  \/ EnforceControl \/ Prepare \/ CreateOverlays \/ InstallAddon
  \/ Disconnect \/ HashDisk \/ HashSource \/ BootArm \/ BootSilent
  \/ EnforceCanary

Next == Job \/ \E a \in Arms : NbdCloses(a)

Spec == Init /\ [][Next]_vars

(* Fairness: the job has 75 minutes, after which it is cancelled. *)
FairSpec == Spec /\ WF_vars(Job)

-----------------------------------------------------------------------------
(* Properties. *)

(* No overlay outlives the base it was made on: the base is never written while
   an overlay holds differences to it, which no hash would show. *)
OverlaysOnFrozenBase ==
  \A d \in Arms \union {Tamper} : disk[d] # None => disk[d].on = base

(* The documented order: no arm exists before the firmware refused the tampered
   image and the control passed, and a job succeeds only on a passed canary. *)
StopRules ==
  /\ \A a \in Arms : disk[a] # None => stub.refuses /\ static /\ control
  /\ job = "succeeded" => canary = TRUE

(* A passed canary is an answer: the stub loads the add-ons of trusted signers
   and no others, measures them exactly and leaves PCR 11 alone. *)
Conclusive ==
  canary = TRUE =>
    /\ stub.loads = "trusted" /\ stub.measures = "policy" /\ ~stub.disturbs
    /\ \A a \in Arms : bootDoc[a].disk[1] = AddonOf(a)

(* A failed canary has a cause: another stub, a guest that reported a failure,
   guests that read PCR 11 in different phases of their boots, or an overlay
   that was written after it was disconnected. *)
FailureExplained ==
  canary = FALSE =>
    \/ stub.loads # "trusted" \/ stub.measures # "policy" \/ stub.disturbs
    \/ \E a \in Arms : ~GuestOf(a).success \/ a \in Late
    \/ \E a, b \in Arms : GuestOf(a).phase # GuestOf(b).phase

(* The job ends. *)
JobEnds == job = "running" ~> job # "running"

=============================================================================
