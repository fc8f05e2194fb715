---------------------------- MODULE ControlProofs ----------------------------
(***************************************************************************)
(* What the verdict of the positive control means, for any references, any *)
(* machines and any number of jobs that wrote into one directory.          *)
(*                                                                         *)
(* None of the properties is inductive: a verdict joins documents that     *)
(* steps of different jobs may have written.  The invariant says of each   *)
(* document what is true of it whoever wrote it (Documents), and of each   *)
(* step of a job which documents it finds and that they are its own        *)
(* (Progress).                                                             *)
(***************************************************************************)
EXTENDS ControlEvidence, TLAPS

(* The UKI that bootc install leaves on the disk, and the receipts the job
   writes of it. *)
Arrived == IF job.intact THEN Source ELSE Uki(job.source[1], "installed", 0)

Examined ==
  [source |-> job.source, uki |-> Arrived, verified |-> job.intact,
   certificate |-> 0, prepared |-> FALSE,
   installed |-> None, original |-> None, immutable |-> None]

Described ==
  [source |-> job.source, uki |-> Resigned, verified |-> FALSE,
   certificate |-> jobs, prepared |-> TRUE,
   installed |-> Arrived, original |-> Source, immutable |-> job.source[1]]

Stripped == [input |-> Source, output |-> Unsigned]

Compatible ==
  [image |-> job.source[1], installed |-> Arrived, original |-> Source,
   unsigned |-> Unsigned, signed |-> Resigned, cmdline |-> Cmdline(Resigned),
   certificate |-> jobs]

(* The UKI the job boots, and its documents when it does. *)
Final == IF job.mode = "direct" THEN Arrived ELSE Resigned

Preboot ==
  [original |-> Final, tampered |-> Tampered(Final),
   originalCmdline |-> Cmdline(Final),
   tamperedCmdline |-> Cmdline(Tampered(Final)), rejected |-> FALSE]

Rejection ==
  [original |-> Final, tampered |-> Tampered(Final),
   originalCmdline |-> Cmdline(Final),
   tamperedCmdline |-> Cmdline(Tampered(Final)), rejected |-> TRUE]

CopyRejected ==
  ~Admits(Tampered(Final)) /\ Boot(Tampered(Final)) \in boots

Seen ==
  [receipt |-> Collect(job.machine),
   uki |-> IF Collect(job.machine) = Failure THEN None ELSE Final]

Typed ==
  /\ jobs \in Nat \ {0} /\ job \in Jobs
  /\ step \in {"resolve", "install", "inspect", "strip", "replace", "describe",
               "receipt", "mutate", "reject", "boot", "done", "stopped"}

Compat == {"strip", "replace", "describe", "receipt"}
Ready == {"mutate", "reject", "boot", "done"}

(* Each step of a job works on what the steps before it left. *)
Progress ==
  /\ step \in Compat \union Ready \union {"install", "inspect"} =>
       provenance = job.source
  /\ step \in {"inspect", "strip", "replace"} => uki = Arrived
  /\ step \in Compat => job.mode = "compat" /\ upstream = Examined
  /\ step \in {"replace", "describe", "receipt"} => strip = Stripped
  /\ step \in {"describe", "receipt"} => uki = Resigned
  /\ step = "receipt" => static = Described
  /\ step \in Ready =>
       /\ uki = Final
       /\ job.mode = "direct" => static = Examined
       /\ job.mode = "compat" =>
            static = Described /\ strip = Stripped /\ compat = Compatible
  /\ step \in {"reject", "boot", "done"} =>
       Final.form # "installed" /\ preboot = Preboot
  /\ step \in {"boot", "done"} =>
       tamper = Rejection /\ CopyRejected
  /\ step = "done" => guest = Seen

(* Firmware admitted the UKI of the guest's receipt on the machine that the
   receipt describes, and had rejected its tampered copy. *)
Booted(g) ==
  \E b, c \in boots :
    /\ b.machine \in Machines /\ g.receipt = Collect(b.machine)
    /\ b.uki = g.uki /\ b.admitted /\ b.job = c.job
    /\ c.uki = Tampered(g.uki) /\ ~c.admitted

(* What is true of a document whichever job wrote it. *)
Documents ==
  /\ static # None /\ static.verified => static.uki = SourceUki(static.source[1])
  /\ compat # None =>
       /\ compat.signed = Uki(compat.image, "resigned", compat.certificate)
       /\ compat.original = SourceUki(compat.image)
       /\ compat.certificate # 0
  /\ guest # None => guest.receipt = Failure \/ Booted(guest)

Inv == Typed /\ Progress /\ Documents

-----------------------------------------------------------------------------
LEMMA JobFact ==
  ASSUME job \in Jobs
  PROVE  /\ job.mode \in {"direct", "compat"} /\ job.intact \in BOOLEAN
         /\ job.machine \in Machines /\ job.enforces \in BOOLEAN
  BY ControlAssumption DEF Jobs, Modes

LEMMA TypedStep ==
  Inv /\ [Next]_vars => Typed'
  BY DEF Inv, Typed, Next, vars, documents, StartJob, Resolve, Install,
         InspectDisk, StripSource, ReplaceUki, DescribeStatic, WriteCompat,
         TamperOverlay, RejectTampered, AdmitTampered, BootDisk, BootSilent

(* What the job's documents should be does not change while the job lasts. *)
LEMMA SameJob ==
  ASSUME UNCHANGED <<jobs, job>>
  PROVE  /\ Arrived' = Arrived /\ Resigned' = Resigned /\ Final' = Final
         /\ Examined' = Examined /\ Described' = Described
         /\ Stripped' = Stripped /\ Compatible' = Compatible
         /\ Preboot' = Preboot /\ Rejection' = Rejection /\ Seen' = Seen
  BY DEF Arrived, Source, Examined, Described, Stripped, Compatible, Unsigned,
         Resigned, Final, Preboot, Rejection, Seen

(* Every step of a job finds its own documents. *)
LEMMA ProgressStep ==
  Inv /\ [Next]_vars => Progress'
<1> SUFFICES ASSUME Inv, [Next]_vars PROVE Progress'
  OBVIOUS
<1>1. job.mode \in {"direct", "compat"} /\ job.intact \in BOOLEAN
  BY JobFact DEF Inv, Typed
<1> USE DEF Inv, Typed, Progress, Compat, Ready, documents
<1>2. CASE StartJob
  BY <1>2 DEF StartJob
<1>3. CASE Resolve
  BY <1>3 DEF Resolve
<1>4. CASE Install
  BY <1>4 DEF Install, Arrived, Source
<1>5. CASE InspectDisk
  <2>1. Inspection = Examined
    <3>1. uki = Arrived /\ (Arrived.form = "source") = job.intact
      BY <1>1, <1>5
      DEF InspectDisk, Arrived, Source, SourceUki, Uki
    <3>. QED
      BY <3>1 DEF Inspection, Examined
  <2>. QED
    BY <1>1, <1>5, <2>1
    DEF InspectDisk, Arrived, Source, Examined, Final, Modes
<1>6. CASE StripSource
  BY <1>6
  DEF StripSource, Arrived, Source, Examined, Stripped, Unsigned
<1>7. CASE ReplaceUki
  BY <1>7
  DEF ReplaceUki, Arrived, Source, Examined, Stripped, Unsigned, Resigned
<1>8. CASE DescribeStatic
  <2>1. upstream = Examined /\ static' = Described
    <3>1. upstream = Examined
      BY <1>8 DEF DescribeStatic
    <3>2. upstream.source = job.source /\ upstream.uki = Arrived
      BY <3>1 DEF Examined
    <3>. QED
      BY <1>8, <3>1, <3>2 DEF DescribeStatic, Described
  <2>2. /\ step = "describe" /\ step' = "receipt"
        /\ UNCHANGED <<jobs, job, uki, provenance, upstream, strip>>
    BY <1>8 DEF DescribeStatic
  <2>. QED
    BY <2>1, <2>2, SameJob
<1>9. CASE WriteCompat
  <2>1. compat' = Compatible
    BY <1>9 DEF WriteCompat, Examined, Compatible
  <2>. QED
    BY <1>1, <1>9, <2>1
    DEF WriteCompat, Arrived, Source, Described, Stripped, Compatible,
        Unsigned, Resigned, Final
<1>10. CASE TamperOverlay
  <2>1. /\ step = "mutate" /\ uki = Final /\ step' = "reject"
        /\ UNCHANGED <<jobs, job, uki, provenance, static, strip, compat>>
    BY <1>10 DEF TamperOverlay
  <2>2. preboot' = Preboot /\ Final.form # "installed"
    BY <1>10, <2>1 DEF TamperOverlay, Preboot
  <2>. QED
    BY <2>1, <2>2, SameJob
<1>11. CASE RejectTampered
  <2>1. /\ step = "reject" /\ preboot = Preboot /\ step' = "boot"
        /\ UNCHANGED <<jobs, job, uki, provenance, static, strip, compat, preboot>>
    BY <1>11 DEF RejectTampered
  <2>2. /\ tamper' = Rejection /\ ~Admits(Tampered(Final))
        /\ Boot(Tampered(Final)) \in boots'
    BY <1>11, <2>1 DEF RejectTampered, Preboot, Rejection
  <2>3. /\ Final' = Final /\ Preboot' = Preboot /\ Rejection' = Rejection
        /\ Examined' = Examined /\ Described' = Described
        /\ Stripped' = Stripped /\ Compatible' = Compatible
    BY <2>1, SameJob
  <2>4. CopyRejected'
    BY <2>1, <2>2, <2>3 DEF CopyRejected, Admits, Boot
  <2>. QED
    BY <1>11, <2>1, <2>2, <2>3, <2>4
<1>12. CASE AdmitTampered
  BY <1>12 DEF AdmitTampered
<1>13. CASE BootDisk
  <2>1. /\ step = "boot" /\ uki = Final /\ step' \in {"done", "stopped"}
        /\ UNCHANGED <<jobs, job, uki, provenance, static, strip, compat,
                       preboot, tamper>>
        /\ boots \subseteq boots'
    BY <1>13 DEF BootDisk
  <2>2. guest' = Seen
    BY <1>13, <2>1 DEF BootDisk, Seen
  <2>3. /\ Final' = Final /\ Preboot' = Preboot /\ Rejection' = Rejection
        /\ Examined' = Examined /\ Described' = Described
        /\ Stripped' = Stripped /\ Compatible' = Compatible /\ Seen' = Seen
    BY <2>1, SameJob
  <2>4. CopyRejected'
    BY <2>1, <2>3 DEF CopyRejected, Admits, Boot
  <2>. QED
    BY <2>1, <2>2, <2>3, <2>4
<1>14. CASE BootSilent
  BY <1>14 DEF BootSilent
<1>15. CASE UNCHANGED vars
  <2>1. UNCHANGED <<jobs, job, step, uki, provenance, upstream, static, strip,
                    compat, preboot, tamper, guest, boots>>
    BY <1>15 DEF vars
  <2>2. CopyRejected' = CopyRejected
    BY <2>1, SameJob DEF CopyRejected, Admits, Boot
  <2>. QED
    BY <2>1, <2>2, SameJob
<1>. QED
  BY <1>2, <1>3, <1>4, <1>5, <1>6, <1>7, <1>8, <1>9, <1>10, <1>11, <1>12,
     <1>13, <1>14, <1>15 DEF Next

(* Boots are never forgotten. *)
LEMMA BootsKept ==
  ASSUME boots \subseteq boots', UNCHANGED guest, guest # None,
         guest.receipt = Failure \/ Booted(guest)
  PROVE  (guest.receipt = Failure \/ Booted(guest))'
  BY DEF Booted

(* Every step leaves every document true, whoever wrote it. *)
LEMMA DocumentsStep ==
  Inv /\ [Next]_vars => Documents'
<1> SUFFICES ASSUME Inv, [Next]_vars PROVE Documents'
  OBVIOUS
<1>1. job.mode \in {"direct", "compat"} /\ job.intact \in BOOLEAN
  BY JobFact DEF Inv, Typed
<1>2. ASSUME UNCHANGED <<static, compat, guest>>, boots \subseteq boots'
      PROVE  Documents'
  BY <1>2, BootsKept DEF Inv, Documents
<1> USE DEF documents
<1>3. CASE StartJob
  BY <1>2, <1>3 DEF StartJob
<1>4. CASE Resolve
  BY <1>2, <1>4 DEF Resolve
<1>5. CASE Install
  BY <1>2, <1>5 DEF Install
<1>6. CASE InspectDisk
  <2>1. /\ UNCHANGED <<compat, guest, boots>> /\ static' = Inspection
        /\ uki = Arrived
    BY <1>6 DEF InspectDisk, Inv, Progress
  <2>2. static'.source = job.source /\ static'.uki = Arrived
    BY <2>1 DEF Inspection
  <2>3. static'.verified = (Arrived.form = "source")
    BY <2>1 DEF Inspection
  <2>4. Arrived.form = "source" => Arrived = SourceUki(job.source[1])
    BY <1>1 DEF Arrived, Source, SourceUki, Uki
  <2>5. static'.verified => static'.uki = SourceUki(static'.source[1])
    BY <2>2, <2>3, <2>4
  <2>6. guest' # None => (guest.receipt = Failure \/ Booted(guest))'
    BY <2>1, BootsKept DEF Inv, Documents
  <2>. QED
    BY <2>1, <2>5, <2>6 DEF Inv, Documents
<1>7. CASE StripSource
  BY <1>2, <1>7 DEF StripSource
<1>8. CASE ReplaceUki
  BY <1>2, <1>8 DEF ReplaceUki
<1>9. CASE DescribeStatic
  <2>1. UNCHANGED <<compat, guest, boots>> /\ static'.verified = FALSE
    BY <1>9 DEF DescribeStatic
  <2>2. guest' # None => (guest.receipt = Failure \/ Booted(guest))'
    BY <2>1, BootsKept DEF Inv, Documents
  <2>. QED
    BY <2>1, <2>2 DEF Inv, Documents
<1>10. CASE WriteCompat
  <2>1. UNCHANGED <<static, guest, boots>>
    BY <1>10 DEF WriteCompat
  <2>2. /\ compat'.signed = Resigned /\ compat'.image = job.source[1]
        /\ compat'.original = Source /\ compat'.certificate = jobs
    BY <1>10 DEF WriteCompat
  <2>3. jobs # 0
    BY DEF Inv, Typed
  <2>4. guest' # None => (guest.receipt = Failure \/ Booted(guest))'
    BY <2>1, BootsKept DEF Inv, Documents
  <2>. QED
    BY <2>1, <2>2, <2>3, <2>4 DEF Inv, Documents, Resigned, Source
<1>11. CASE TamperOverlay
  BY <1>2, <1>11 DEF TamperOverlay
<1>12. CASE RejectTampered
  BY <1>2, <1>12 DEF RejectTampered
<1>13. CASE AdmitTampered
  BY <1>2, <1>13 DEF AdmitTampered
<1>14. CASE BootDisk
  <2>1. /\ UNCHANGED <<static, compat>> /\ uki = Final /\ CopyRejected
        /\ boots' = boots \union {Boot(uki)} /\ Admits(uki)
        /\ job.machine \in Machines
    BY <1>14, JobFact DEF BootDisk, Inv, Progress, Typed, Ready
  <2>2. guest'.receipt = Collect(job.machine)
    BY <1>14 DEF BootDisk
  <2>3. CASE Collect(job.machine) = Failure
    BY <2>1, <2>2, <2>3 DEF Inv, Documents
  <2>4. CASE Collect(job.machine) # Failure
    <3>1. guest'.uki = Final
      BY <1>14, <2>1, <2>4 DEF BootDisk
    <3>2. /\ Boot(Final) \in boots' /\ Boot(Tampered(Final)) \in boots'
      BY <2>1 DEF CopyRejected
    <3>3. /\ Boot(Final).machine = job.machine /\ Boot(Final).uki = Final
          /\ Boot(Final).job = jobs /\ Boot(Final).admitted = Admits(Final)
          /\ Boot(Tampered(Final)).uki = Tampered(Final)
          /\ Boot(Tampered(Final)).job = jobs
          /\ Boot(Tampered(Final)).admitted = Admits(Tampered(Final))
      BY DEF Boot
    <3>4. Boot(Final).admitted /\ ~Boot(Tampered(Final)).admitted
      BY <2>1, <3>3 DEF CopyRejected
    <3>5. Booted(guest)'
      BY <2>1, <2>2, <3>1, <3>2, <3>3, <3>4 DEF Booted
    <3>. QED
      BY <2>1, <3>5 DEF Inv, Documents
  <2>. QED
    BY <2>3, <2>4
<1>15. CASE BootSilent
  <2>1. /\ UNCHANGED <<static, compat>> /\ boots \subseteq boots'
        /\ guest' \in {None, guest}
    BY <1>15 DEF BootSilent
  <2>2. guest' # None => (guest.receipt = Failure \/ Booted(guest))'
    BY <2>1, BootsKept DEF Inv, Documents
  <2>. QED
    BY <2>1, <2>2 DEF Inv, Documents
<1>16. CASE UNCHANGED vars
  BY <1>2, <1>16 DEF vars
<1>. QED
  BY <1>3, <1>4, <1>5, <1>6, <1>7, <1>8, <1>9, <1>10, <1>11, <1>12, <1>13,
     <1>14, <1>15, <1>16 DEF Next

-----------------------------------------------------------------------------
(* The invariant holds of every reachable state. *)
THEOREM ControlInvariance == Spec => []Inv
<1>1. Init => Inv
  BY DEF Init, Inv, Typed, Progress, Documents, Compat, Ready
<1>2. Inv /\ [Next]_vars => Inv'
  BY TypedStep, ProgressStep, DocumentsStep DEF Inv
<1>. QED
  BY <1>1, <1>2, PTL DEF Spec

(* parse_pcr_read_response accepts one answer only: a sound read of one
   SHA-256 digest, whatever lengths and counts the TPM reports. *)
LEMMA ParserExact ==
  ASSUME NEW a \in Answers, ParsePcr(a) # None
  PROVE  /\ ParsePcr(a) = a.digest
         /\ a = [length |-> 62, code |-> 0, size |-> 62, selections |-> 1,
                 algorithm |-> "sha256", bitmap |-> 3, digests |-> 1,
                 digestSize |-> 32, digest |-> a.digest]
  BY DEF ParsePcr, Answers

(* The gates on the guest's receipt hold of no machine but a genuine one. *)
LEMMA ProbeGenuine ==
  ASSUME NEW m \in Machines, Collect(m) # Failure,
         Collect(m).success, Collect(m).secureBoot = TRUE,
         Collect(m).loader = "systemd-boot", Collect(m).stub = "systemd-stub",
         Collect(m).kernelImage = "11", Collect(m).pcr11 = "value",
         Collect(m).identifier = "uki"
  PROVE  Genuine(m)
<1>1. /\ m.identifier # None /\ Located(m) = 1 /\ ReadPcr11(m) # None
      /\ Collect(m).secureBoot = m.secureBoot
      /\ Collect(m).loader = m.loader /\ Collect(m).stub = m.stub
      /\ Collect(m).kernelImage = m.kernelImage
      /\ Collect(m).identifier = m.identifier
      /\ Collect(m).pcr11 = ReadPcr11(m)
  BY DEF Collect
<1>2. /\ m.secureBoot = TRUE /\ m.loader = "systemd-boot"
      /\ m.stub = "systemd-stub" /\ m.kernelImage = "11"
      /\ m.identifier = "uki" /\ m.mounts = 1 /\ ReadPcr11(m) = "value"
  BY <1>1 DEF Located
<1>3. m.tpm \in Answers /\ ParsePcr(m.tpm) = "value"
  BY <1>1, <1>2 DEF ReadPcr11, Machines
<1>4. /\ m.tpm = [length |-> 62, code |-> 0, size |-> 62, selections |-> 1,
                  algorithm |-> "sha256", bitmap |-> 3, digests |-> 1,
                  digestSize |-> 32, digest |-> m.tpm.digest]
      /\ m.tpm.digest = "value"
  BY <1>1, <1>3, ParserExact DEF ReadPcr11
<1>. QED
  BY <1>2, <1>4 DEF Genuine

(* A guest's receipt that holds the gates is of a genuine machine. *)
LEMMA ProbeSound ==
  ASSUME guest # None, Documents, GuestGates, guest.receipt.identifier = "uki"
  PROVE  Booted(guest) /\
         \A m \in Machines : guest.receipt = Collect(m) => Genuine(m)
<1>1. guest.receipt # Failure
  BY DEF GuestGates, Failure
<1>2. Booted(guest)
  BY <1>1 DEF Documents
<1>3. ASSUME NEW m \in Machines, guest.receipt = Collect(m)
      PROVE  Genuine(m)
  BY <1>1, <1>3, ProbeGenuine DEF GuestGates
<1>. QED
  BY <1>2, <1>3

(* A passing verdict is about a UKI that firmware admitted on a genuine machine
   (LoadedUki and GuestGates, validate_fedora_sealed_positive_control.py). *)
THEOREM VerdictOfAdmittedUki == Spec => []PassedUkiWasAdmitted
<1>1. ASSUME Inv, NEW mode \in Modes, Passed(mode)
      PROVE  \E b \in boots :
               b.uki = static.uki /\ b.admitted /\ Genuine(b.machine)
  <2>1. /\ guest # None /\ GuestGates /\ guest.receipt.identifier = "uki"
        /\ guest.uki = static.uki
    BY <1>1 DEF Passed, EvaluateDirect, Evaluate, LoadedUki
  <2>. QED
    BY <1>1, <2>1, ProbeSound DEF Inv, Booted
<1>2. Inv => PassedUkiWasAdmitted
  BY <1>1 DEF PassedUkiWasAdmitted
<1>. QED
  BY <1>2, ControlInvariance, PTL

(* It is a verdict of one job: the one that booted the UKI had seen its tampered
   copy rejected, whichever job wrote tamper-admission.json. *)
THEOREM VerdictOfRejectedCopy == Spec => []PassedCopyWasRejected
<1>1. ASSUME Inv, NEW mode \in Modes, Passed(mode)
      PROVE  \E b, c \in boots :
               /\ b.job = c.job
               /\ b.uki = static.uki /\ b.admitted
               /\ c.uki = Tampered(static.uki) /\ ~c.admitted
  <2>1. /\ guest # None /\ GuestGates /\ guest.receipt.identifier = "uki"
        /\ guest.uki = static.uki
    BY <1>1 DEF Passed, EvaluateDirect, Evaluate, LoadedUki
  <2>. QED
    BY <1>1, <2>1, ProbeSound DEF Inv, Booted
<1>2. Inv => PassedCopyWasRejected
  BY <1>1 DEF PassedCopyWasRejected
<1>. QED
  BY <1>2, ControlInvariance, PTL

(* And the UKI descends from the references whose provenance was verified: the
   source join is what keeps the receipts of other references out. *)
THEOREM VerdictOfOneSource == Spec => []PassedOneSource
<1>1. ASSUME Inv, Passed("direct")
      PROVE  static.uki = SourceUki(provenance[1])
  <2>1. static # None /\ static.verified /\ static.source[1] = provenance[1]
    BY <1>1 DEF Passed, EvaluateDirect, SourceJoin
  <2>. QED
    BY <1>1, <2>1 DEF Inv, Documents
<1>2. ASSUME Inv, Passed("compat")
      PROVE  /\ strip.input = SourceUki(provenance[1])
             /\ static.uki = Uki(provenance[1], "resigned", compat.certificate)
             /\ compat.certificate # 0
  <2>1. /\ compat # None /\ compat.image = provenance[1]
        /\ compat.signed = static.uki /\ strip.input = compat.original
    BY <1>2 DEF Passed, Evaluate, CompatReceiptJoin, StripReceiptJoin
  <2>. QED
    BY <1>2, <2>1 DEF Inv, Documents
<1>3. Inv => PassedOneSource
  BY <1>1, <1>2 DEF PassedOneSource
<1>. QED
  BY <1>3, ControlInvariance, PTL

(* The documents of a job are documents. *)
LEMMA JobDocuments ==
  ASSUME job \in Jobs, jobs \in Nat
  PROVE  /\ Source \in Ukis /\ Arrived \in Ukis /\ Unsigned \in Ukis
         /\ Resigned \in Ukis /\ Final \in Ukis /\ Tampered(Final) \in Ukis
         /\ Examined \in Inspections /\ Described \in Inspections
         /\ Stripped \in Strips /\ Compatible \in Compats
         /\ Preboot \in Tampers /\ Rejection \in Tampers
         /\ Seen \in GuestDocs
<1>1. /\ job.source \in Sources /\ job.source[1] \in Images
      /\ job.intact \in BOOLEAN /\ job.machine \in Machines
  BY ControlAssumption DEF Jobs, Images
<1>2. /\ Source \in Ukis /\ Arrived \in Ukis /\ Unsigned \in Ukis
      /\ Resigned \in Ukis
  BY <1>1 DEF Source, SourceUki, Arrived, Unsigned, Resigned, Uki, Ukis
<1>3. Final \in Ukis
  BY <1>2 DEF Final
<1>4. Tampered(Final) \in Ukis
  BY <1>3 DEF Tampered, Ukis
<1>5. \A u \in Ukis : Cmdline(u) \in Cmdlines
  BY DEF Cmdline, Cmdlines, Ukis
<1>6. Examined \in Inspections /\ Described \in Inspections
  BY <1>1, <1>2 DEF Examined, Described, Inspections
<1>7. Stripped \in Strips /\ Compatible \in Compats
  BY <1>1, <1>2, <1>5 DEF Stripped, Strips, Compatible, Compats
<1>8. Preboot \in Tampers /\ Rejection \in Tampers
  BY <1>3, <1>4, <1>5 DEF Preboot, Rejection, Tampers
<1>9. Collect(job.machine) \in Receipts
  <2>1. Failure \in Receipts
    BY DEF Failure, Receipts
  <2>2. ASSUME Collect(job.machine) # Failure
        PROVE  Collect(job.machine) \in Receipts
    <3>1. ReadPcr11(job.machine) \in {"zero", "value", None}
      BY <1>1 DEF ReadPcr11, ParsePcr, Machines, Answers
    <3>2. Successful(job.machine) \in BOOLEAN
      BY DEF Successful
    <3>. QED
      BY <1>1, <2>2, <3>1, <3>2 DEF Collect, Receipts, Machines
  <2>. QED
    BY <2>1, <2>2
<1>10. Seen \in GuestDocs
  BY <1>3, <1>9 DEF Seen, GuestDocs
<1>. QED
  BY <1>2, <1>3, <1>4, <1>6, <1>7, <1>8, <1>10

LEMMA TypeStep ==
  Inv /\ TypeOK /\ [Next]_vars => TypeOK'
<1> SUFFICES ASSUME Inv, TypeOK, [Next]_vars PROVE TypeOK'
  OBVIOUS
<1>1. /\ job \in Jobs /\ jobs \in Nat /\ 1 .. jobs \subseteq Nat
      /\ jobs \in 1 .. jobs /\ job.source \in Sources
  BY ControlAssumption DEF TypeOK, Jobs
<1> USE DEF TypeOK, documents
<1>2. CASE StartJob
  BY <1>1, <1>2, ControlAssumption DEF StartJob
<1>3. CASE Resolve
  BY <1>1, <1>3 DEF Resolve
<1>4. CASE Install
  BY <1>1, <1>4, JobDocuments DEF Install, Arrived, Source
<1>5. CASE InspectDisk
  <2>1. Inspection \in Inspections
    <3>1. uki \in Ukis
      BY <1>1, <1>5, JobDocuments DEF InspectDisk, Inv, Progress
    <3>2. (uki.form = "source") \in BOOLEAN
      OBVIOUS
    <3>. QED
      BY <1>1, <3>1, <3>2 DEF Inspection, Inspections
  <2>. QED
    BY <1>5, <2>1 DEF InspectDisk
<1>6. CASE StripSource
  BY <1>1, <1>6, JobDocuments DEF StripSource, Strips
<1>7. CASE ReplaceUki
  BY <1>1, <1>7, JobDocuments DEF ReplaceUki
<1>8. CASE DescribeStatic
  <2>1. static' = Described
    <3>1. upstream = Examined
      BY <1>8 DEF DescribeStatic, Inv, Progress, Compat
    <3>2. upstream.source = job.source /\ upstream.uki = Arrived
      BY <3>1 DEF Examined
    <3>. QED
      BY <1>8, <3>1, <3>2 DEF DescribeStatic, Described
  <2>2. static' \in Inspections
    BY <1>1, <2>1, JobDocuments
  <2>. QED
    BY <1>8, <2>2 DEF DescribeStatic
<1>9. CASE WriteCompat
  <2>1. upstream = Examined
    BY <1>9 DEF WriteCompat, Inv, Progress, Compat
  <2>2. compat' = Compatible
    BY <1>9, <2>1 DEF WriteCompat, Examined, Compatible
  <2>. QED
    BY <1>1, <1>9, <2>2, JobDocuments DEF WriteCompat
<1>10. CASE TamperOverlay
  <2>1. preboot' = Preboot
    BY <1>10 DEF TamperOverlay, Preboot, Inv, Progress, Ready
  <2>. QED
    BY <1>1, <1>10, <2>1, JobDocuments DEF TamperOverlay
<1>11. CASE RejectTampered
  <2>1. preboot = Preboot
    BY <1>11 DEF RejectTampered, Inv, Progress
  <2>2. tamper' = Rejection
    BY <1>11, <2>1 DEF RejectTampered, Preboot, Rejection
  <2>3. /\ preboot.tampered \in Ukis /\ Boot(preboot.tampered).job = jobs
        /\ Boot(preboot.tampered).uki = preboot.tampered
    BY <1>1, <2>1, JobDocuments DEF Preboot, Boot
  <2>. QED
    BY <1>1, <1>11, <2>2, <2>3, JobDocuments DEF RejectTampered
<1>12. CASE AdmitTampered
  <2>1. preboot = Preboot
    BY <1>12 DEF AdmitTampered, Inv, Progress
  <2>2. /\ preboot.tampered \in Ukis /\ Boot(preboot.tampered).job = jobs
        /\ Boot(preboot.tampered).uki = preboot.tampered
    BY <1>1, <2>1, JobDocuments DEF Preboot, Boot
  <2>. QED
    BY <1>1, <1>12, <2>2 DEF AdmitTampered
<1>13. CASE BootDisk
  <2>1. uki = Final /\ Boot(uki).job = jobs /\ Boot(uki).uki = uki
    BY <1>13 DEF BootDisk, Inv, Progress, Ready, Boot
  <2>2. guest' = Seen
    BY <1>13, <2>1 DEF BootDisk, Seen
  <2>. QED
    BY <1>1, <1>13, <2>1, <2>2, JobDocuments DEF BootDisk
<1>14. CASE BootSilent
  <2>1. uki = Final /\ Boot(uki).job = jobs /\ Boot(uki).uki = uki
    BY <1>14 DEF BootSilent, Inv, Progress, Ready, Boot
  <2>. QED
    BY <1>1, <1>14, <2>1, JobDocuments DEF BootSilent
<1>15. CASE UNCHANGED vars
  BY <1>15 DEF vars
<1>. QED
  BY <1>2, <1>3, <1>4, <1>5, <1>6, <1>7, <1>8, <1>9, <1>10, <1>11, <1>12,
     <1>13, <1>14, <1>15 DEF Next

(* Type correctness. *)
THEOREM ControlTypeCorrect == Spec => []TypeOK
<1>1. Init => TypeOK
  BY ControlAssumption DEF Init, TypeOK
<1>2. Inv /\ TypeOK /\ [Next]_vars => TypeOK'
  BY TypeStep
<1>. QED
  BY <1>1, <1>2, ControlInvariance, PTL DEF Spec

(* At the end of a job every gate but those on the guest holds or fails by the
   installer alone. *)
LEMMA JobGates ==
  ASSUME Inv, step = "done"
  PROVE  /\ job.mode = "direct" =>
              (Passed("direct") <=> GuestGates /\ LoadedUki)
         /\ job.mode = "compat" =>
              (Passed("compat") <=> ~job.intact /\ GuestGates /\ LoadedUki)
<1>1. /\ job \in Jobs /\ jobs \in Nat /\ jobs # 0 /\ job.intact \in BOOLEAN
      /\ job.source \in Sources
  BY JobFact DEF Inv, Typed, Jobs
<1>2. /\ provenance = job.source /\ guest = Seen /\ tamper = Rejection
      /\ job.mode = "direct" => static = Examined
      /\ job.mode = "compat" =>
           static = Described /\ strip = Stripped /\ compat = Compatible
      /\ Final.form # "installed"
  BY DEF Inv, Progress, Ready
<1>3. /\ provenance # None /\ guest # None /\ tamper # None
      /\ job.mode = "direct" => static # None
      /\ job.mode = "compat" =>
           static # None /\ strip # None /\ compat # None
  BY <1>1, <1>2, JobDocuments, ControlAssumption
<1>4. ASSUME static.uki = Final PROVE TamperRejected
  <2>1. /\ Final.tampered = FALSE
        /\ Tampered(Final).tampered = TRUE
        /\ Tampered(Final).image = Final.image
    BY DEF Final, Arrived, Source, SourceUki, Resigned, Uki, Tampered
  <2>2. /\ Tampered(Final) # Final
        /\ Cmdline(Tampered(Final)) # Cmdline(Final)
    BY <2>1 DEF Cmdline
  <2>3. /\ tamper.rejected = TRUE /\ tamper.original = Final
        /\ tamper.tampered = Tampered(Final)
        /\ tamper.originalCmdline = Cmdline(Final)
        /\ tamper.tamperedCmdline = Cmdline(Tampered(Final))
    BY <1>2 DEF Rejection
  <2>. QED
    BY <1>4, <2>2, <2>3 DEF TamperRejected
<1>5. ASSUME job.mode = "direct"
      PROVE  Passed("direct") <=> GuestGates /\ LoadedUki
  <2>1. /\ static.source = provenance /\ static.uki = Final
        /\ static.verified = job.intact
    BY <1>2, <1>5 DEF Examined, Final
  <2>2. job.intact = TRUE
    BY <1>1, <1>2, <1>5 DEF Final, Arrived, Uki
  <2>3. SourceJoin /\ InstallerJoin /\ static.verified /\ TamperRejected
    BY <1>4, <2>1, <2>2 DEF SourceJoin, InstallerJoin
  <2>. QED
    BY <1>3, <1>5, <2>3 DEF Passed, EvaluateDirect
<1>6. ASSUME job.mode = "compat"
      PROVE  Passed("compat") <=> ~job.intact /\ GuestGates /\ LoadedUki
  <2>1. /\ static.source = provenance /\ static.uki = Resigned
        /\ static.prepared = TRUE /\ static.certificate = jobs
        /\ static.installed = Arrived /\ static.original = Source
        /\ static.immutable = job.source[1] /\ Final = Resigned
    BY <1>2, <1>6 DEF Described, Final
  <2>2. /\ compat.image = job.source[1] /\ compat.installed = Arrived
        /\ compat.original = Source /\ compat.unsigned = Unsigned
        /\ compat.signed = Resigned /\ compat.cmdline = Cmdline(Resigned)
        /\ compat.certificate = jobs
        /\ strip.input = Source /\ strip.output = Unsigned
    BY <1>2, <1>6 DEF Compatible, Stripped
  <2>3. /\ tamper.original = Resigned
        /\ tamper.originalCmdline = Cmdline(Resigned)
    BY <1>2, <2>1 DEF Rejection
  <2>4. /\ Unsigned # Source /\ Unsigned # Resigned /\ Source # Resigned
        /\ Arrived # Source <=> ~job.intact
    <3>1. /\ Source.form = "source" /\ Unsigned.form = "unsigned"
          /\ Resigned.form = "resigned"
          /\ job.intact => Arrived = Source
          /\ ~job.intact => Arrived.form = "installed"
      BY DEF Source, SourceUki, Unsigned, Resigned, Arrived, Uki
    <3>. QED
      BY <1>1, <3>1
  <2>5. CompatReceiptJoin <=> ~job.intact
    BY <1>2, <2>1, <2>2, <2>4 DEF CompatReceiptJoin
  <2>6. /\ SourceJoin /\ InstallerJoin /\ static.prepared /\ StripReceiptJoin
        /\ TamperRejected /\ tamper.original = compat.signed
        /\ tamper.originalCmdline = compat.cmdline
    BY <1>4, <2>1, <2>2, <2>3 DEF SourceJoin, InstallerJoin, StripReceiptJoin
  <2>. QED
    BY <1>3, <1>6, <2>5, <2>6 DEF Passed, Evaluate
<1>. QED
  BY <1>5, <1>6

(* The probe describes a genuine machine as the gates want it, and no other. *)
LEMMA GatesOnProbe ==
  ASSUME NEW m \in Machines
  PROVE  /\ Genuine(m) => Collect(m) # Failure
         /\ Genuine(m) <=>
              /\ Collect(m).success /\ Collect(m).secureBoot = TRUE
              /\ Collect(m).loader = "systemd-boot"
              /\ Collect(m).stub = "systemd-stub"
              /\ Collect(m).kernelImage = "11" /\ Collect(m).pcr11 = "value"
              /\ Collect(m).identifier = "uki"
<1>1. ASSUME Genuine(m)
      PROVE  /\ Collect(m) # Failure
             /\ Collect(m).success /\ Collect(m).secureBoot = TRUE
             /\ Collect(m).loader = "systemd-boot"
             /\ Collect(m).stub = "systemd-stub"
             /\ Collect(m).kernelImage = "11" /\ Collect(m).pcr11 = "value"
             /\ Collect(m).identifier = "uki"
  <2>1. m.tpm # None
    BY <1>1, ProbeAssumption DEF Genuine, Answers
  <2>2. ParsePcr(m.tpm) = "value"
    BY <1>1 DEF Genuine, ParsePcr
  <2>3. ReadPcr11(m) = "value"
    BY <2>1, <2>2 DEF ReadPcr11
  <2>4. Successful(m) = TRUE
    BY <1>1, <2>3 DEF Successful, Genuine
  <2>5. Collect(m) =
          [success |-> Successful(m), secureBoot |-> m.secureBoot,
           loader |-> m.loader, stub |-> m.stub,
           kernelImage |-> m.kernelImage, identifier |-> m.identifier,
           pcr11 |-> ReadPcr11(m)]
    BY <1>1, <2>3, ProbeAssumption DEF Collect, Genuine, Located
  <2>6. /\ Collect(m).success = TRUE /\ Collect(m).secureBoot = m.secureBoot
        /\ Collect(m).loader = m.loader /\ Collect(m).stub = m.stub
        /\ Collect(m).kernelImage = m.kernelImage
        /\ Collect(m).identifier = m.identifier
        /\ Collect(m).pcr11 = "value"
    BY <2>3, <2>4, <2>5
  <2>7. Failure.success = FALSE
    BY DEF Failure
  <2>. QED
    BY <1>1, <2>6, <2>7 DEF Genuine
<1>2. ASSUME /\ Collect(m).success /\ Collect(m).secureBoot = TRUE
             /\ Collect(m).loader = "systemd-boot"
             /\ Collect(m).stub = "systemd-stub"
             /\ Collect(m).kernelImage = "11" /\ Collect(m).pcr11 = "value"
             /\ Collect(m).identifier = "uki"
      PROVE  Genuine(m)
  <2>1. Collect(m) # Failure
    BY <1>2 DEF Failure
  <2>. QED
    BY <1>2, <2>1, ProbeGenuine
<1>. QED
  BY <1>1, <1>2

(* At the end of a job the gates fail only when they should: a job on a genuine
   machine passes, unless it re-signed a UKI that needed no re-signing. *)
THEOREM CompletedVerdict == Spec => []CompletedJobPasses
<1>1. ASSUME Inv, step = "done"
      PROVE  Passed(job.mode) <=> /\ Genuine(job.machine)
                                  /\ job.mode = "compat" => ~job.intact
  <2>1. /\ guest = Seen /\ static.uki = Final /\ job.machine \in Machines
        /\ job.mode \in {"direct", "compat"}
    BY <1>1, JobFact
    DEF Inv, Typed, Progress, Ready, Examined, Described, Final
  <2>2. /\ guest.receipt = Collect(job.machine)
        /\ Collect(job.machine) # Failure => guest.uki = static.uki
    BY <2>1 DEF Seen
  <2>3. GuestGates /\ LoadedUki <=> Genuine(job.machine)
    <3>1. Genuine(job.machine) => Collect(job.machine) # Failure
      BY <2>1, GatesOnProbe
    <3>2. GuestGates /\ guest.receipt.identifier = "uki" <=>
            Genuine(job.machine)
      <4>1. /\ GuestGates <=>
                 /\ Collect(job.machine).success
                 /\ Collect(job.machine).secureBoot = TRUE
                 /\ Collect(job.machine).loader = "systemd-boot"
                 /\ Collect(job.machine).stub = "systemd-stub"
                 /\ Collect(job.machine).kernelImage = "11"
                 /\ Collect(job.machine).pcr11 = "value"
            /\ guest.receipt.identifier = Collect(job.machine).identifier
        BY <2>2 DEF GuestGates
      <4>. QED
        BY <2>1, <4>1, GatesOnProbe
    <3>3. LoadedUki <=>
            guest.receipt.identifier = "uki" /\ guest.uki = static.uki
      BY DEF LoadedUki
    <3>. QED
      BY <2>2, <3>1, <3>2, <3>3
  <2>. QED
    BY <1>1, <2>1, <2>3, JobGates
<1>2. Inv => CompletedJobPasses
  BY <1>1 DEF CompletedJobPasses
<1>. QED
  BY <1>2, ControlInvariance, PTL

=============================================================================
