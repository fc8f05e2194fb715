--------------------------- MODULE ControlEvidence ---------------------------
(***************************************************************************)
(* The receipts of the sealed positive control and what                    *)
(* validate_fedora_sealed_positive_control.py concludes from them.         *)
(*                                                                         *)
(* A job resolves its references, installs and inspects a disk, re-signs   *)
(* the UKI if it is a compatibility control, boots a tampered overlay that *)
(* must be rejected, and boots the disk.  Each step writes its document    *)
(* into one output directory.  The model asks more of the validator than   *)
(* the workflow does: a job may stop anywhere and the next one may start   *)
(* in the same directory, so that documents of several jobs meet there and *)
(* only the gates keep them apart.                                         *)
(*                                                                         *)
(* A digest is what it is the digest of.  The formats, key sizes, trust    *)
(* flags and other literals that a writer always writes are left out.      *)
(***************************************************************************)
EXTENDS GuestProbe

CONSTANTS
  Sources,        (* <<image, installer>>: immutable references            *)
  GuestMachines,  (* the machines considered                               *)
  MaxJobs         (* bound: jobs into one directory                        *)

Modes == {"direct", "compat"}

(* The UKI of an image: as its source holds it; as the installed disk held it
   otherwise; without certificates; or signed again with the key of a job, 0
   being the vendor. *)
Uki(image, form, key) ==
  [image |-> image, form |-> form, key |-> key, tampered |-> FALSE]
SourceUki(image) == Uki(image, "source", 0)
Cmdline(uki) == <<uki.image, uki.tampered>>

(* What a job gets: references, mode, an installer that copies the UKI intact,
   the machine it boots, and firmware that enforces what it reports or not. *)
Jobs == [source : Sources, mode : Modes, intact : BOOLEAN,
         machine : GuestMachines, enforces : BOOLEAN]

Images == {source[1] : source \in Sources}
Cmdlines == Images \X BOOLEAN
Ukis == [image : Images,
         form : {"source", "installed", "unsigned", "resigned"}, key : Nat,
         tampered : BOOLEAN]

(* What each document says. *)
Inspections ==
  [source : Sources, uki : Ukis, verified : BOOLEAN, certificate : Nat,
   prepared : BOOLEAN, installed : Ukis \union {None},
   original : Ukis \union {None},
   immutable : Images \union {None}]
Strips == [input : Ukis, output : Ukis]
Compats ==
  [image : Images, installed : Ukis, original : Ukis,
   unsigned : Ukis, signed : Ukis, cmdline : Cmdlines,
   certificate : Nat]
Tampers ==
  [original : Ukis, tampered : Ukis, originalCmdline : Cmdlines,
   tamperedCmdline : Cmdlines, rejected : BOOLEAN]
GuestDocs == [receipt : Receipts, uki : Ukis \union {None}]

ASSUME ControlAssumption ==
  /\ GuestMachines \subseteq Machines
  /\ MaxJobs \in Nat \ {0}
  /\ None \notin Sources /\ None \notin Ukis
  /\ None \notin Inspections /\ None \notin Strips /\ None \notin Compats
  /\ None \notin Tampers /\ None \notin GuestDocs

VARIABLES
  jobs,        (* how many jobs were started                               *)
  job,         (* the last one                                             *)
  step,        (* what it does next                                        *)
  uki,         (* the UKI on the ESP of the disk                           *)
  provenance,  (* provenance.json                                          *)
  upstream,    (* upstream-static-inspection.json                          *)
  static,      (* static-inspection.json                                   *)
  strip,       (* certificate-strip.json                                   *)
  compat,      (* compat-resign.json                                       *)
  preboot,     (* tamper-preboot.json                                      *)
  tamper,      (* tamper-admission.json                                    *)
  guest,       (* guest-evidence.json                                      *)
  boots        (* history: what was started on which machine, and admitted *)

documents == <<provenance, upstream, static, strip, compat, preboot, tamper,
               guest>>
vars == <<jobs, job, step, uki, documents, boots>>

TypeOK ==
  /\ jobs \in 1 .. MaxJobs /\ job \in Jobs
  /\ step \in {"resolve", "install", "inspect", "strip", "replace", "describe",
               "receipt", "mutate", "reject", "boot", "done", "stopped"}
  /\ uki \in Ukis \union {None}
  /\ provenance \in Sources \union {None}
  /\ upstream \in Inspections \union {None}
  /\ static \in Inspections \union {None}
  /\ strip \in Strips \union {None} /\ compat \in Compats \union {None}
  /\ preboot \in Tampers \union {None} /\ tamper \in Tampers \union {None}
  /\ guest \in GuestDocs \union {None}
  /\ \A b \in boots : b.job \in 1 .. jobs /\ b.uki \in Ukis

Init ==
  /\ jobs = 1 /\ job \in Jobs /\ step = "resolve" /\ uki = None
  /\ provenance = None /\ upstream = None /\ static = None /\ strip = None
  /\ compat = None /\ preboot = None /\ tamper = None /\ guest = None
  /\ boots = {}

(* A job begins.  The workflow's jobs get a directory each on a fresh runner;
   that documents of an earlier one can be met is more than the code does, and
   leaves only the gates to tell them apart. *)
StartJob ==
  /\ jobs < MaxJobs
  /\ jobs' = jobs + 1 /\ job' \in Jobs /\ step' = "resolve"
  /\ UNCHANGED <<uki, documents, boots>>

(* References are resolved and their signatures verified. *)
Resolve ==
  /\ step = "resolve" /\ step' = "install"
  /\ provenance' = job.source
  /\ UNCHANGED <<jobs, job, uki, upstream, static, strip, compat, preboot,
                 tamper, guest, boots>>

(* bootc install: the UKI arrives as the source holds it, or not. *)
Install ==
  /\ step = "install" /\ step' = "inspect"
  /\ uki' = IF job.intact THEN SourceUki(job.source[1])
            ELSE Uki(job.source[1], "installed", 0)
  /\ UNCHANGED <<jobs, job, documents, boots>>

(* inspect_fedora_sealed_disk.py.  Only the source's bytes verify with the
   vendor's certificate. *)
Inspection ==
  [source |-> job.source, uki |-> uki, verified |-> uki.form = "source",
   certificate |-> 0, prepared |-> FALSE,
   installed |-> None, original |-> None, immutable |-> None]

InspectDisk ==
  /\ step = "inspect"
  /\ static' = Inspection
  /\ IF job.mode = "direct"
       THEN step' = "mutate" /\ UNCHANGED upstream
       ELSE step' = "strip" /\ upstream' = static'
  /\ UNCHANGED <<jobs, job, uki, provenance, strip, compat, preboot, tamper,
                 guest, boots>>

-----------------------------------------------------------------------------
(* prepare_fedora_sealed_compat_control.sh *)

Source == SourceUki(job.source[1])
Unsigned == Uki(job.source[1], "unsigned", 0)
Resigned == Uki(job.source[1], "resigned", jobs)

(* The disk is the inspected one and has the source's command line; the UKI of
   the source is stripped of its certificates. *)
StripSource ==
  /\ step = "strip" /\ uki = upstream.uki /\ Cmdline(uki) = Cmdline(Source)
  /\ step' = "replace"
  /\ strip' = [input |-> Source, output |-> Unsigned]
  /\ UNCHANGED <<jobs, job, uki, provenance, upstream, static, compat, preboot,
                 tamper, guest, boots>>

(* Signed with the run-local key, it replaces the installed one. *)
ReplaceUki ==
  /\ step = "replace" /\ step' = "describe"
  /\ uki' = Resigned
  /\ UNCHANGED <<jobs, job, documents, boots>>

DescribeStatic ==
  /\ step = "describe" /\ step' = "receipt"
  /\ static' = [source |-> upstream.source, uki |-> Resigned,
                 verified |-> FALSE, certificate |-> jobs, prepared |-> TRUE,
                 installed |-> upstream.uki, original |-> Source,
                 immutable |-> job.source[1]]
  /\ UNCHANGED <<jobs, job, uki, provenance, upstream, strip, compat, preboot,
                 tamper, guest, boots>>

WriteCompat ==
  /\ step = "receipt" /\ step' = "mutate"
  /\ compat' = [image |-> job.source[1], installed |-> upstream.uki,
                original |-> Source, unsigned |-> Unsigned,
                signed |-> Resigned, cmdline |-> Cmdline(Resigned),
                certificate |-> jobs]
  /\ UNCHANGED <<jobs, job, uki, provenance, upstream, static, strip, preboot,
                 tamper, guest, boots>>

-----------------------------------------------------------------------------
(* The two boots. *)

Tampered(u) == [u EXCEPT !.tampered = TRUE]

(* tamper_fedora_sealed_uki.sh, on a throwaway overlay: the UKI is the one the
   static receipt names, and its certificate table is still there. *)
TamperOverlay ==
  /\ step = "mutate" /\ uki = static.uki /\ uki.form # "installed"
  /\ step' = "reject"
  /\ preboot' = [original |-> uki, tampered |-> Tampered(uki),
                 originalCmdline |-> Cmdline(uki),
                 tamperedCmdline |-> Cmdline(Tampered(uki)), rejected |-> FALSE]
  /\ UNCHANGED <<jobs, job, uki, provenance, upstream, static, strip, compat,
                 tamper, guest, boots>>

(* Firmware that enforces Secure Boot has the vendor's key and, in a
   compatibility control, the job's own enrolled. *)
Admits(u) ==
  \/ ~job.enforces \/ job.machine.secureBoot # TRUE
  \/ ~u.tampered /\ \/ u.form = "source"
                    \/ u.form = "resigned" /\ u.key = jobs

Boot(u) == [job |-> jobs, uki |-> u, machine |-> job.machine,
            admitted |-> Admits(u)]

(* Mutant: a tampered boot that ends in any way counts as a rejection. *)
RejectAnyEnd ==
  /\ step = "reject"
  /\ step' = "boot"
  /\ boots' = boots \union {Boot(preboot.tampered)}
  /\ tamper' = [preboot EXCEPT !.rejected = TRUE]
  /\ UNCHANGED <<jobs, job, uki, provenance, upstream, static, strip, compat,
                 preboot, guest>>

(* The firmware's rejection is seen, and only then confirmed. *)
RejectTampered ==
  /\ step = "reject" /\ ~Admits(preboot.tampered)
  /\ step' = "boot"
  /\ boots' = boots \union {Boot(preboot.tampered)}
  /\ tamper' = [preboot EXCEPT !.rejected = TRUE]
  /\ UNCHANGED <<jobs, job, uki, provenance, upstream, static, strip, compat,
                 preboot, guest>>

(* Anything else ends the job. *)
AdmitTampered ==
  /\ step = "reject" /\ Admits(preboot.tampered)
  /\ step' = "stopped"
  /\ boots' = boots \union {Boot(preboot.tampered)}
  /\ UNCHANGED <<jobs, job, uki, documents>>

(* A booted disk delivers the probe's receipt, even one of failure; the runner
   puts it in the place of the receipt of an earlier boot, and fails all the
   same if QEMU did. *)
BootDisk ==
  /\ step = "boot" /\ Admits(uki) /\ step' \in {"done", "stopped"}
  /\ boots' = boots \union {Boot(uki)}
  /\ guest' = [receipt |-> Collect(job.machine),
               uki |-> IF Collect(job.machine) = Failure THEN None ELSE uki]
  /\ UNCHANGED <<jobs, job, uki, provenance, upstream, static, strip, compat,
                 preboot, tamper>>

(* A boot without a receipt: its predecessor's is removed, or, when the
   firmware rejected the disk, left where it is. *)
BootSilent ==
  /\ step = "boot" /\ step' = "stopped"
  /\ boots' = boots \union {Boot(uki)}
  /\ guest' = IF Admits(uki) THEN None ELSE guest
  /\ UNCHANGED <<jobs, job, uki, provenance, upstream, static, strip, compat,
                 preboot, tamper>>

-----------------------------------------------------------------------------
(* validate_fedora_sealed_positive_control.py: the gates. *)

(* Mutant: the provenance is not compared. *)
SourceUnjoined == TRUE

SourceJoin == static.source[1] = provenance[1]
InstallerJoin == static.source[2] = provenance[2]

CompatReceiptJoin ==
  /\ compat.image = provenance[1] /\ static.immutable = provenance[1]
  /\ compat.installed = static.installed /\ compat.original = static.original
  /\ compat.installed # compat.original
  /\ compat.unsigned \notin {compat.original, compat.signed}
  /\ compat.signed = static.uki /\ compat.original # compat.signed
  /\ compat.cmdline = Cmdline(static.uki)
  /\ compat.certificate = static.certificate

StripReceiptJoin ==
  strip.input = compat.original /\ strip.output = compat.unsigned

TamperRejected ==
  /\ tamper.rejected
  /\ tamper.original = static.uki /\ tamper.tampered # tamper.original
  /\ tamper.originalCmdline = Cmdline(static.uki)
  /\ tamper.tamperedCmdline # tamper.originalCmdline

GuestGates ==
  /\ guest.receipt.success /\ guest.receipt.secureBoot = TRUE
  /\ guest.receipt.loader = "systemd-boot"
  /\ guest.receipt.stub = "systemd-stub" /\ guest.receipt.kernelImage = "11"
  /\ guest.receipt.pcr11 = "value"

(* Mutant: the path is enough to identify the UKI. *)
LoadedPathOnly == guest.receipt.identifier = "uki"

LoadedUki == guest.receipt.identifier = "uki" /\ guest.uki = static.uki

EvaluateDirect ==
  /\ SourceJoin /\ InstallerJoin
  /\ static.verified
  /\ TamperRejected /\ GuestGates /\ LoadedUki

Evaluate ==
  /\ SourceJoin /\ InstallerJoin
  /\ static.prepared
  /\ CompatReceiptJoin /\ StripReceiptJoin
  /\ TamperRejected
  /\ tamper.original = compat.signed /\ tamper.originalCmdline = compat.cmdline
  /\ GuestGates /\ LoadedUki

(* The validator passes on the documents as they are. *)
Passed(mode) ==
  /\ static # None /\ guest # None /\ provenance # None /\ tamper # None
  /\ IF mode = "direct" THEN EvaluateDirect
     ELSE compat # None /\ strip # None /\ Evaluate

Next ==
  \/ StartJob \/ Resolve \/ Install \/ InspectDisk
  \/ StripSource \/ ReplaceUki \/ DescribeStatic \/ WriteCompat
  \/ TamperOverlay \/ RejectTampered \/ AdmitTampered \/ BootDisk \/ BootSilent

Spec == Init /\ [][Next]_vars

-----------------------------------------------------------------------------
(* Properties: whenever the validator passes, in the middle of a job or after
   it, what it says is true although no gate compares jobs. *)

(* The machine the probe should describe, read from the machine itself. *)
Genuine(m) ==
  /\ m.secureBoot = TRUE /\ m.loader = "systemd-boot"
  /\ m.stub = "systemd-stub" /\ m.kernelImage = "11"
  /\ m.identifier = "uki" /\ m.mounts = 1
  /\ m.tpm = [length |-> 62, code |-> 0, size |-> 62, selections |-> 1,
              algorithm |-> "sha256", bitmap |-> 3, digests |-> 1,
              digestSize |-> 32, digest |-> "value"]

(* Firmware admitted the very UKI of the verdict, on a machine that booted it
   through systemd-boot and systemd-stub and whose PCR 11 was not zero. *)
PassedUkiWasAdmitted ==
  \A mode \in Modes : Passed(mode) =>
    \E b \in boots : b.uki = static.uki /\ b.admitted /\ Genuine(b.machine)

(* The job that booted it had seen the same firmware reject the tampered copy
   of this UKI. *)
PassedCopyWasRejected ==
  \A mode \in Modes : Passed(mode) =>
    \E b, c \in boots :
      /\ b.job = c.job
      /\ b.uki = static.uki /\ b.admitted
      /\ c.uki = Tampered(static.uki) /\ ~c.admitted

(* The UKI is the one of the references whose provenance was verified: the
   vendor's own bytes, or what a job signed after stripping exactly those. *)
PassedOneSource ==
  /\ Passed("direct") => static.uki = SourceUki(provenance[1])
  /\ Passed("compat") =>
       /\ strip.input = SourceUki(provenance[1])
       /\ static.uki = Uki(provenance[1], "resigned", compat.certificate)
       /\ compat.certificate # 0

(* The gates do not fail by mistake: a completed job passes just if its machine
   was genuine and, in a compatibility control, there was a need for it: an
   installed UKI that is the source's own is no evidence. *)
CompletedJobPasses ==
  step = "done" =>
    (Passed(job.mode) <=> /\ Genuine(job.machine)
                          /\ job.mode = "compat" => ~job.intact)

=============================================================================
