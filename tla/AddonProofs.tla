----------------------------- MODULE AddonProofs -----------------------------
(***************************************************************************)
(* What holds of the sealed-image job for every set of stub behaviours,    *)
(* every number of attempts and of late writes.                            *)
(*                                                                         *)
(* None of the four properties is inductive.  That overlays stay on the    *)
(* base they were made on, and that none exists before the stop rules are  *)
(* passed, depends on which steps of the job come before which; that a     *)
(* passed verdict says what the stub does depends on every document being  *)
(* written by the boot it describes, with the variable store of that time; *)
(* that a failed one has a cause, on the documents of an arm agreeing with *)
(* its disk for as long as nothing but the job's steps writes it.          *)
(***************************************************************************)
EXTENDS AddonCanary, TLAPS

(* The steps before the overlays of the arms exist, and while they do. *)
Early == {"build", "tamper", "tamper-boot", "control-boot", "control-enforce",
          "prepare", "overlays"}
ArmSteps == {"install", "disconnect", "hash", "source", "boot"}

(* Which disks and documents each step finds. *)
Found ==
  /\ step \in Early => \A a \in Arms : disk[a] = None /\ bootDoc[a] = None
  /\ step \in ArmSteps => \A a \in Arms : disk[a] # None
  /\ step \in {"disconnect", "hash"} => armDoc[This] # None
  /\ step = "boot" => bootDoc[This] # None
  /\ disk[Tamper] # None => step \in {"tamper-boot", "end"}
  /\ \A a \in Arms : bootDoc[a] # None \/ a \in closing => disk[a] # None
  /\ OverlaysOnFrozenBase

(* What is decided when a step runs. *)
Decided ==
  /\ rejection => stub.refuses
  /\ step \in ArmSteps \union {"prepare", "overlays", "enforce"} =>
       static /\ rejection /\ control
  /\ \A a \in Arms : disk[a] # None => static /\ rejection /\ control
  /\ canary # None => step = "end"
  /\ job = "succeeded" => canary = TRUE

(* A receipt shows what the stub does with the add-on on the booted disk when
   the extended variable store is used. *)
Effective(addon) ==
  /\ addon # None
  /\ \/ stub.loads = "all"
     \/ stub.loads = "trusted" /\ addon = "signed"

Shows(d) ==
  /\ d.guest.addon = d.disk[1]
  /\ IF Effective(d.disk[1])
       THEN /\ d.guest.policy = TRUE /\ d.guest.pcr12 = stub.measures
            /\ d.guest.pcr11 = IF stub.disturbs THEN "other" ELSE "uki"
       ELSE /\ d.guest.policy = FALSE /\ d.guest.pcr12 = "zero"
            /\ d.guest.declared = FALSE /\ d.guest.pcr11 = "uki"

Received(a) == bootDoc[a] # None /\ bootDoc[a].guest # None

Reported ==
  /\ step \in ArmSteps \union {"overlays"} => store = "extended"
  /\ \A a \in Arms : Received(a) => Shows(bootDoc[a])
  /\ step \in {"source", "boot"} => \A k \in 1..arm-1 : Received(Order[k])
  /\ step = "enforce" \/ canary = TRUE => \A a \in Arms : Received(a)
  /\ canary = TRUE => CanaryPasses

Inv == TypeOK /\ Found /\ Decided /\ Reported

-----------------------------------------------------------------------------
LEMMA OrderFact ==
  /\ Len(Order) = 4
  /\ \A k \in 1..4 : Order[k] \in Arms
  /\ \A a \in Arms : \E k \in 1..4 : Order[k] = a
  /\ \A j, k \in 1..4 : Order[j] = Order[k] => j = k
  BY DEF Order, Arms

LEMMA StubFact ==
  ASSUME stub \in Stubs
  PROVE  /\ stub.refuses \in BOOLEAN /\ stub.disturbs \in BOOLEAN
         /\ stub.declares \in BOOLEAN
         /\ stub.loads \in {"trusted", "all", "none"}
         /\ stub.measures \in {"policy", "zero", "other"}
  BY CanaryAssumption DEF StubBehaviours

(* A boot that delivers a receipt leaves a complete document of its arm. *)
Delivered(ok, phase) ==
  [source |-> bootDoc[This].source, disk |-> Hash(disk[This]),
   store |-> store, selected |-> attempt,
   guest |-> Observed(disk[This].addon, ok, phase)]

LEMMA Delivery ==
  ASSUME Inv, BootArm
  PROVE  \E ok \in BOOLEAN, phase \in Phases :
           /\ bootDoc' = [bootDoc EXCEPT ![This] = Delivered(ok, phase)]
           /\ Delivered(ok, phase) \in BootDocs /\ Delivered(ok, phase).guest # None
<1>1. /\ This \in Arms /\ disk[This].addon \in Addons
      /\ Hash(disk[This]) \in Hashes /\ bootDoc[This].source \in Hashes
  BY OrderFact
  DEF BootArm, This, Hash, Hashes, Disks, BootDocs, Inv, TypeOK, Found,
      ArmSteps
<1>2. \A ok \in BOOLEAN, phase \in Phases :
        Observed(disk[This].addon, ok, phase) \in Guests
  BY <1>1, StubFact DEF Observed, Applied, Guests, Inv, TypeOK
<1>3. PICK ok \in BOOLEAN, phase \in Phases :
        bootDoc' = [bootDoc EXCEPT ![This] = Delivered(ok, phase)]
  BY DEF BootArm, Delivered
<1>4. Delivered(ok, phase) \in BootDocs /\ Delivered(ok, phase).guest # None
  BY <1>1, <1>2, CanaryAssumption DEF Delivered, BootDocs, Inv, TypeOK
<1>. QED
  BY <1>3, <1>4

(* Every step keeps every variable in its type. *)
LEMMA TypeStep ==
  Inv /\ [Next]_vars => TypeOK'
<1> SUFFICES ASSUME Inv, [Next]_vars PROVE TypeOK'
  OBVIOUS
<1> USE DEF Inv, TypeOK, vars, controlVars, evidenceVars, Ends, Continue,
     Steps, Disks, ArmDocs, BootDocs
<1>1. CASE StepFails
  BY <1>1 DEF StepFails
<1>2. CASE BuildDisk
  BY <1>2 DEF BuildDisk
<1>3. CASE TamperOverlay
  BY <1>3, CanaryAssumption DEF TamperOverlay, Overlay, Addons, MaxWrites
<1>4. CASE TamperBoot
  BY <1>4 DEF TamperBoot
<1>5. CASE ControlBoot
  BY <1>5 DEF ControlBoot
<1>6. CASE EnforceControl
  BY <1>6 DEF EnforceControl
<1>7. CASE Prepare
  BY <1>7 DEF Prepare
<1>8. CASE CreateOverlays
  BY <1>8 DEF CreateOverlays, Overlay, Addons, MaxWrites
<1>9. CASE InstallAddon
  BY <1>9, OrderFact
  DEF InstallAddon, This, AddonOf, Addons, MaxWrites, Hashes, Found, ArmSteps
<1>10. CASE Disconnect
  BY <1>10, OrderFact DEF Disconnect, This
<1>11. CASE HashDisk
  BY <1>11, OrderFact
  DEF HashDisk, NextArm, This, Hash, Hashes, Found, ArmSteps
<1>12. ASSUME NEW a \in Arms, NbdCloses(a) PROVE TypeOK'
  <2>1. disk[a] \in Disks
    BY <1>12 DEF NbdCloses, Found
  <2>2. disk' \in [Arms \union {Tamper} -> Disks \union {None}]
    BY <1>12, <2>1 DEF NbdCloses, MaxWrites
  <2>. QED
    BY <1>12, <2>2 DEF NbdCloses
<1>13. CASE HashSource
  BY <1>13, OrderFact, CanaryAssumption
  DEF HashSource, This, Hash, Hashes, Found, ArmSteps
<1>14. CASE BootArm
  <2>6. bootDoc' \in [Arms -> BootDocs \union {None}]
    BY <1>14, Delivery
  <2>7. /\ step = "boot" /\ attempt' = 0 /\ NextArm("source", "enforce")
        /\ UNCHANGED <<stub, base, disk, closing, store, controlVars, armDoc,
                       canary>>
    BY <1>14 DEF BootArm
  <2>8. /\ step' \in {"source", "enforce"} /\ job' = job
        /\ arm' \in 1..Len(Order) /\ attempt' \in 0..MaxAttempts
    BY <2>7, OrderFact, CanaryAssumption DEF NextArm
  <2>. QED
    BY <2>6, <2>7, <2>8
<1>15. CASE BootSilent
  BY <1>15, CanaryAssumption DEF BootSilent
<1>16. CASE EnforceCanary
  BY <1>16 DEF EnforceCanary, CanaryPasses
<1>17. CASE UNCHANGED vars
  BY <1>17
<1>. QED
  BY <1>1, <1>2, <1>3, <1>4, <1>5, <1>6, <1>7, <1>8, <1>9, <1>10, <1>11,
     <1>12, <1>13, <1>14, <1>15, <1>16, <1>17 DEF Next, Job

(* Every step finds the disks and the documents it works on, and no overlay is
   left without the base it was made on. *)
LEMMA FoundStep ==
  Inv /\ [Next]_vars => Found'
<1> SUFFICES ASSUME Inv, [Next]_vars PROVE Found'
  OBVIOUS
<1> USE DEF Inv, TypeOK, Found, OverlaysOnFrozenBase, Early, ArmSteps, vars,
     controlVars, evidenceVars, Ends, Continue, Disks, ArmDocs, BootDocs
<1>1. CASE StepFails
  BY <1>1 DEF StepFails
<1>2. CASE BuildDisk
  BY <1>2 DEF BuildDisk
<1>3. CASE TamperOverlay
  BY <1>3 DEF TamperOverlay, Overlay, Arms, Tamper
<1>4. CASE TamperBoot
  BY <1>4 DEF TamperBoot, Arms, Tamper
<1>5. CASE ControlBoot
  BY <1>5 DEF ControlBoot
<1>6. CASE EnforceControl
  BY <1>6 DEF EnforceControl
<1>7. CASE Prepare
  BY <1>7 DEF Prepare
<1>8. CASE CreateOverlays
  <2>1. Overlay # None /\ Overlay.on = base
    BY CanaryAssumption DEF Overlay, Addons, MaxWrites
  <2>2. /\ \A a \in Arms : disk'[a] = Overlay
        /\ disk'[Tamper] = None
    BY <1>8 DEF CreateOverlays, Arms, Tamper
  <2>. QED
    BY <1>8, <2>1, <2>2 DEF CreateOverlays
<1>9. CASE InstallAddon
  BY <1>9, OrderFact, CanaryAssumption
  DEF InstallAddon, This, AddonOf, Addons, MaxWrites
<1>10. CASE Disconnect
  BY <1>10, OrderFact DEF Disconnect, This
<1>11. CASE HashDisk
  BY <1>11, OrderFact DEF HashDisk, NextArm, This
<1>12. ASSUME NEW a \in Arms, NbdCloses(a) PROVE Found'
  <2>1. disk[a] \in Disks /\ disk[a] # None
    BY <1>12 DEF NbdCloses
  <2>2. disk'[a] # None /\ disk'[a].on = disk[a].on
    BY <1>12, <2>1, CanaryAssumption DEF NbdCloses, MaxWrites
  <2>3. \A d \in Arms \union {Tamper} : d # a => disk'[d] = disk[d]
    BY <1>12 DEF NbdCloses
  <2>. QED
    BY <1>12, <2>1, <2>2, <2>3 DEF NbdCloses, This
<1>13. CASE HashSource
  BY <1>13, OrderFact, CanaryAssumption DEF HashSource, This, Hash, Hashes
<1>14. CASE BootArm
  BY <1>14, OrderFact DEF BootArm, NextArm, This
<1>15. CASE BootSilent
  BY <1>15 DEF BootSilent, This
<1>16. CASE EnforceCanary
  BY <1>16 DEF EnforceCanary
<1>17. CASE UNCHANGED vars
  BY <1>17 DEF This
<1>. QED
  BY <1>1, <1>2, <1>3, <1>4, <1>5, <1>6, <1>7, <1>8, <1>9, <1>10, <1>11,
     <1>12, <1>13, <1>14, <1>15, <1>16, <1>17 DEF Next, Job

(* Every step runs on the decisions taken before it. *)
LEMMA DecidedStep ==
  Inv /\ [Next]_vars => Decided'
<1> SUFFICES ASSUME Inv, [Next]_vars PROVE Decided'
  OBVIOUS
<1> USE DEF Inv, TypeOK, Decided, ArmSteps, vars, controlVars, evidenceVars,
     Ends, Continue
<1>1. CASE StepFails
  BY <1>1 DEF StepFails
<1>2. CASE BuildDisk
  BY <1>2 DEF BuildDisk, Found, Early
<1>3. CASE TamperOverlay
  BY <1>3 DEF TamperOverlay, Overlay, Arms, Tamper
<1>4. CASE TamperBoot
  <2>1. rejection' => stub.refuses
    <3>1. PICK rc \in {1, 124, IF stub.refuses THEN 80 ELSE 0} :
            (rejection' = TRUE /\ rc = 80) \/ rejection' = rejection
      BY <1>4 DEF TamperBoot, Expected
    <3>2. rc = 80 => stub.refuses
      BY <3>1
    <3>. QED
      BY <3>1, <3>2
  <2>2. \A a \in Arms : disk'[a] = None
    BY <1>4 DEF TamperBoot, Found, Early, Arms, Tamper
  <2>. QED
    BY <1>4, <2>1, <2>2 DEF TamperBoot
<1>5. CASE ControlBoot
  BY <1>5 DEF ControlBoot, Found, Early
<1>6. CASE EnforceControl
  BY <1>6 DEF EnforceControl, ControlPasses
<1>7. CASE Prepare
  BY <1>7 DEF Prepare
<1>8. CASE CreateOverlays
  BY <1>8 DEF CreateOverlays
<1>9. CASE InstallAddon
  BY <1>9 DEF InstallAddon
<1>10. CASE Disconnect
  BY <1>10 DEF Disconnect
<1>11. CASE HashDisk
  BY <1>11 DEF HashDisk, NextArm
<1>12. ASSUME NEW a \in Arms, NbdCloses(a) PROVE Decided'
  BY <1>12 DEF NbdCloses, Found
<1>13. CASE HashSource
  BY <1>13 DEF HashSource
<1>14. CASE BootArm
  BY <1>14 DEF BootArm, NextArm
<1>15. CASE BootSilent
  BY <1>15 DEF BootSilent
<1>16. CASE EnforceCanary
  BY <1>16 DEF EnforceCanary
<1>17. CASE UNCHANGED vars
  BY <1>17
<1>. QED
  BY <1>1, <1>2, <1>3, <1>4, <1>5, <1>6, <1>7, <1>8, <1>9, <1>10, <1>11,
     <1>12, <1>13, <1>14, <1>15, <1>16, <1>17 DEF Next, Job

LEMMA SameReceipts ==
  ASSUME UNCHANGED <<stub, bootDoc>>
  PROVE  \A a \in Arms : /\ Received(a)' <=> Received(a)
                         /\ Shows(bootDoc[a])' <=> Shows(bootDoc[a])
  BY DEF Received, Shows, Effective

(* Until the boots begin no receipt changes. *)
LEMMA NoReceipt ==
  ASSUME Inv, canary' = None, UNCHANGED <<stub, bootDoc>>,
         step' \notin {"source", "boot", "enforce"},
         step' \in ArmSteps \union {"overlays"} => store' = "extended"
  PROVE  Reported'
  BY CanaryAssumption DEF Inv, Reported, Received, Shows, Effective

(* Every receipt shows what the stub did with the add-on of its disk, and the
   verdict is about the receipts of all four arms. *)
LEMMA ReportedStep ==
  Inv /\ [Next]_vars => Reported'
<1> SUFFICES ASSUME Inv, [Next]_vars PROVE Reported'
  OBVIOUS
<1> USE DEF vars, controlVars, evidenceVars, Ends, Continue
<1>0. step # "end" => canary = None
  BY DEF Inv, Decided
<1>1. CASE StepFails
  BY <1>0, <1>1, NoReceipt DEF StepFails, Inv, TypeOK, ArmSteps
<1>2. CASE BuildDisk
  BY <1>0, <1>2, NoReceipt DEF BuildDisk, ArmSteps
<1>3. CASE TamperOverlay
  BY <1>0, <1>3, NoReceipt DEF TamperOverlay, ArmSteps
<1>4. CASE TamperBoot
  BY <1>0, <1>4, NoReceipt DEF TamperBoot, ArmSteps
<1>5. CASE ControlBoot
  BY <1>0, <1>5, NoReceipt DEF ControlBoot, ArmSteps
<1>6. CASE EnforceControl
  BY <1>0, <1>6, NoReceipt DEF EnforceControl, ArmSteps
<1>7. CASE Prepare
  BY <1>0, <1>7, NoReceipt DEF Prepare, ArmSteps
<1>8. CASE CreateOverlays
  BY <1>0, <1>8, NoReceipt DEF CreateOverlays, Inv, Reported
<1>9. CASE InstallAddon
  BY <1>0, <1>9, NoReceipt DEF InstallAddon, Inv, Reported, ArmSteps
<1>10. CASE Disconnect
  BY <1>0, <1>10, NoReceipt DEF Disconnect, Inv, Reported, ArmSteps
<1>11. CASE HashDisk
  <2>1. /\ step = "hash" /\ UNCHANGED <<stub, bootDoc, store, canary>>
        /\ NextArm("install", "source")
    BY <1>11 DEF HashDisk
  <2>2. store = "extended" /\ canary = None
    BY <1>0, <2>1 DEF Inv, Reported, ArmSteps
  <2>3. step' = "install" \/ (step' = "source" /\ arm' = 1)
    BY <2>1 DEF NextArm
  <2>4. step' # "source" \/ \A k \in 1..arm'-1 : FALSE
    BY <2>3
  <2>. QED
    BY <2>1, <2>2, <2>3, <2>4, SameReceipts, CanaryAssumption DEF Inv, Reported
<1>12. ASSUME NEW a \in Arms, NbdCloses(a) PROVE Reported'
  <2>1. /\ canary' = None /\ UNCHANGED <<step, arm, store, stub, bootDoc>>
    BY <1>0, <1>12 DEF NbdCloses, Inv, TypeOK
  <2>. QED
    BY <2>1, CanaryAssumption
    DEF Inv, Reported, Received, Shows, Effective
<1>13. CASE HashSource
  <2>1. /\ canary' = None /\ UNCHANGED <<arm, store, stub>>
        /\ step = "source" /\ step' = "boot"
        /\ arm \in 1..4 /\ This \in Arms
    BY <1>0, <1>13, OrderFact DEF HashSource, This, Inv, TypeOK
  <2>2. \A a \in Arms : a # This => bootDoc'[a] = bootDoc[a]
    BY <1>13 DEF HashSource, Inv, TypeOK
  <2>3. bootDoc'[This].guest = None
    BY <1>13, <2>1 DEF HashSource, Inv, TypeOK
  <2>4. \A k \in 1..arm-1 : Order[k] \in Arms /\ Order[k] # This
    BY <2>1, OrderFact DEF This
  <2>5. \A a \in Arms : Received(a)' => a # This /\ Received(a)
    BY <2>2, <2>3 DEF Received
  <2>6. \A k \in 1..arm-1 : Received(Order[k])'
    BY <2>1, <2>2, <2>4 DEF Inv, Reported, Received
  <2>7. \A a \in Arms : Received(a)' => Shows(bootDoc[a])'
    <3> TAKE a \in Arms
    <3> HAVE Received(a)'
    <3>1. bootDoc'[a] = bootDoc[a] /\ Shows(bootDoc[a])
      BY <2>2, <2>5 DEF Inv, Reported
    <3>. QED
      BY <2>1, <3>1 DEF Shows, Effective
  <2>8. store = "extended"
    BY <2>1 DEF Inv, Reported, ArmSteps
  <2>. QED
    BY <2>1, <2>6, <2>7, <2>8, CanaryAssumption DEF Reported
<1>14. CASE BootArm
  <2>1. /\ canary' = None /\ UNCHANGED <<store, stub>> /\ store = "extended"
        /\ step = "boot" /\ arm \in 1..4 /\ This \in Arms
    BY <1>0, <1>14, OrderFact
    DEF BootArm, This, Inv, TypeOK, Reported, ArmSteps
  <2> PICK b \in Arms : b = This
    BY <2>1
  <2> PICK ok \in BOOLEAN, phase \in Phases :
          /\ bootDoc' = [bootDoc EXCEPT ![This] = Delivered(ok, phase)]
          /\ Delivered(ok, phase) \in BootDocs /\ Delivered(ok, phase).guest # None
    BY <1>14, Delivery
  <2>2. /\ bootDoc'[b] = Delivered(ok, phase)
        /\ \A a \in Arms : a # b => bootDoc'[a] = bootDoc[a]
    BY DEF Inv, TypeOK
  <2>3. Shows(bootDoc[b])'
    <3>1. /\ bootDoc'[b].disk[1] = disk[b].addon
          /\ bootDoc'[b].guest = Observed(disk[b].addon, ok, phase)
      BY <2>2 DEF Delivered, Hash
    <3>2. Applied(disk[b].addon) <=> Effective(disk[b].addon)
      BY <2>1 DEF Applied, Effective
    <3>3. Effective(bootDoc[b].disk[1])' <=> Effective(disk[b].addon)
      BY <2>1, <3>1 DEF Effective
    <3>4. /\ bootDoc'[b].guest.addon = disk[b].addon
          /\ bootDoc'[b].guest.policy = Applied(disk[b].addon)
          /\ bootDoc'[b].guest.pcr12 = IF Applied(disk[b].addon)
                                         THEN stub.measures ELSE "zero"
          /\ bootDoc'[b].guest.pcr11 =
               IF stub.disturbs /\ Applied(disk[b].addon)
                 THEN "other" ELSE "uki"
          /\ bootDoc'[b].guest.declared =
               (stub.declares /\ Applied(disk[b].addon)
                  /\ stub.measures # "zero")
      BY <3>1 DEF Observed
    <3>5. CASE Applied(disk[b].addon)
      <4>1. bootDoc'[b].guest.policy = TRUE
        BY <3>4, <3>5
      <4>. QED
        BY <2>1, <3>1, <3>2, <3>3, <3>4, <3>5, <4>1 DEF Shows
    <3>6. CASE ~Applied(disk[b].addon)
      <4>1. bootDoc'[b].guest.policy = FALSE
        BY <3>4, <3>6
      <4>2. (stub.declares /\ Applied(disk[b].addon)
               /\ stub.measures # "zero") = FALSE
        BY <3>6
      <4>3. bootDoc'[b].guest.declared = FALSE
        BY <3>4, <4>2
      <4>. QED
        BY <2>1, <3>1, <3>2, <3>3, <3>4, <3>6, <4>1, <4>3 DEF Shows
    <3>. QED
      BY <3>5, <3>6
  <2>4. Received(b)'
    BY <2>2, CanaryAssumption DEF Received
  <2>5. \A a \in Arms : Received(a)' => Shows(bootDoc[a])'
    <3> TAKE a \in Arms
    <3>1. ASSUME a # b, Received(a)' PROVE Shows(bootDoc[a])'
      <4>1. bootDoc'[a] = bootDoc[a] /\ Received(a)
        BY <2>2, <3>1 DEF Received
      <4>2. Shows(bootDoc[a])
        BY <4>1 DEF Inv, Reported
      <4>. QED
        BY <2>1, <4>1, <4>2 DEF Shows, Effective
    <3>. QED
      BY <2>3, <3>1
  <2>6. \A k \in 1..arm : Received(Order[k])'
    <3>1. \A k \in 1..arm-1 :
            Order[k] \in Arms /\ Order[k] # b /\ Received(Order[k])
      BY <2>1, OrderFact DEF Inv, Reported, This
    <3>2. \A k \in 1..arm-1 : Received(Order[k])'
      BY <2>2, <3>1 DEF Received
    <3>3. \A k \in 1..arm : k \in 1..arm-1 \/ Order[k] = b
      BY <2>1 DEF This
    <3>. QED
      BY <2>4, <3>2, <3>3
  <2>7. \/ step' = "source" /\ arm' = arm + 1
        \/ step' = "enforce" /\ arm = 4
    BY <1>14, <2>1, OrderFact DEF BootArm, NextArm
  <2>8. step' = "enforce" => \A a \in Arms : Received(a)'
    BY <2>6, <2>7, OrderFact
  <2>9. step' = "source" => \A k \in 1..arm'-1 : Received(Order[k])'
    BY <2>1, <2>6, <2>7
  <2>. QED
    BY <2>1, <2>5, <2>7, <2>8, <2>9, CanaryAssumption DEF Reported
<1>15. CASE BootSilent
  <2>1. /\ canary' = None /\ UNCHANGED <<step, arm, store, stub, bootDoc>>
    BY <1>0, <1>15 DEF BootSilent
  <2>. QED
    BY <2>1, CanaryAssumption
    DEF Inv, Reported, Received, Shows, Effective
<1>16. CASE EnforceCanary
  <2>1. /\ step = "enforce" /\ step' = "end" /\ canary' = CanaryPasses
        /\ UNCHANGED <<static, armDoc, bootDoc, stub>>
    BY <1>16 DEF EnforceCanary
  <2>2. CanaryPasses' = CanaryPasses
    BY <2>1 DEF CanaryPasses, ArmJoin, BootInputJoin, BootAttemptsJoin,
         GuestAddonJoin, SamePcr11, Unaffected, SignedApplied, GuestOf
  <2>. QED
    BY <2>1, <2>2 DEF Inv, Reported, Received, Shows, Effective, ArmSteps
<1>17. CASE UNCHANGED vars
  BY <1>17
  DEF Inv, Reported, Received, Shows, Effective, CanaryPasses, ArmJoin,
      BootInputJoin, BootAttemptsJoin, GuestAddonJoin, SamePcr11, Unaffected,
      SignedApplied, GuestOf
<1>. QED
  BY <1>1, <1>2, <1>3, <1>4, <1>5, <1>6, <1>7, <1>8, <1>9, <1>10, <1>11,
     <1>12, <1>13, <1>14, <1>15, <1>16, <1>17 DEF Next, Job

-----------------------------------------------------------------------------
(* The invariant holds of every reachable state of the job. *)
THEOREM JobInvariance == Spec => []Inv
<1>1. Init => Inv
  <2> SUFFICES ASSUME Init PROVE Inv
    OBVIOUS
  <2> USE DEF Init
  <2>1. TypeOK
    <3>1. /\ step \in Steps /\ arm \in 1..Len(Order)
          /\ attempt \in 0..MaxAttempts /\ base \in Nat
      BY CanaryAssumption, OrderFact DEF Steps
    <3>2. /\ disk \in [Arms \union {Tamper} -> Disks \union {None}]
          /\ armDoc \in [Arms -> ArmDocs \union {None}]
          /\ bootDoc \in [Arms -> BootDocs \union {None}]
      OBVIOUS
    <3>3. (job = "running") = (step # "end")
      OBVIOUS
    <3>. QED
      BY <3>1, <3>2, <3>3 DEF TypeOK
  <2>2. Found
    BY DEF Found, Early, ArmSteps, OverlaysOnFrozenBase
  <2>3. Decided
    BY CanaryAssumption DEF Decided, ArmSteps
  <2>4. Reported
    BY CanaryAssumption DEF Reported, Received, ArmSteps
  <2>. QED
    BY <2>1, <2>2, <2>3, <2>4 DEF Inv
<1>2. Inv /\ [Next]_vars => Inv'
  BY TypeStep, FoundStep, DecidedStep, ReportedStep DEF Inv
<1>. QED
  BY <1>1, <1>2, PTL DEF Spec

(* Type correctness, for any stubs, attempts and late writes. *)
THEOREM JobTypeCorrect == Spec => []TypeOK
<1>1. Inv => TypeOK
  BY DEF Inv
<1>. QED
  BY <1>1, JobInvariance, PTL

(* No overlay survives a write to the base it holds differences to: every disk
   that exists was made on the base as it is (build_fedora_sealed_uki.sh and
   the scripts that create overlays). *)
THEOREM OverlaysValid == Spec => []OverlaysOnFrozenBase
<1>1. Inv => OverlaysOnFrozenBase
  BY DEF Inv, Found
<1>. QED
  BY <1>1, JobInvariance, PTL

(* No arm's disk exists before the firmware refused the tampered image and the
   positive control passed, and the job succeeds only on a passed canary. *)
THEOREM StopRulesHold == Spec => []StopRules
<1>1. Inv => StopRules
  BY DEF Inv, Decided, StopRules
<1>. QED
  BY <1>1, JobInvariance, PTL

(* A passed canary answers the question the job asks, whatever the firmware and
   the stub might have been: of all behaviours only the hoped-for one passes
   the gates of validate_fedora_pcr12_addon.py. *)
THEOREM CanaryConclusive == Spec => []Conclusive
<1>1. ASSUME Inv, canary = TRUE
      PROVE  /\ stub.loads = "trusted" /\ stub.measures = "policy"
             /\ ~stub.disturbs
             /\ \A a \in Arms : bootDoc[a].disk[1] = AddonOf(a)
  <2>1. CanaryPasses /\ \A a \in Arms : Shows(bootDoc[a])
    BY <1>1 DEF Inv, Reported
  <2>2. \A a \in Arms : bootDoc[a].disk[1] = AddonOf(a)
    BY <2>1 DEF CanaryPasses, GuestAddonJoin, GuestOf, Shows
  <2>3. /\ bootDoc["signed-one"].disk[1] = "signed"
        /\ bootDoc["tampered"].disk[1] = "tampered"
        /\ bootDoc["baseline"].disk[1] = None
    BY <2>2 DEF AddonOf, Signed, Arms
  <2>4. /\ bootDoc["signed-one"].guest.policy
        /\ bootDoc["signed-one"].guest.pcr12 = "policy"
        /\ ~bootDoc["tampered"].guest.policy
        /\ bootDoc["signed-one"].guest.pcr11 = bootDoc["baseline"].guest.pcr11
    BY <2>1
    DEF CanaryPasses, SignedApplied, Unaffected, GuestOf, Signed, Arms,
        SamePcr11
  <2>5. Effective("signed") /\ ~Effective("tampered") /\ ~Effective(None)
    BY <2>1, <2>3, <2>4 DEF Shows, Effective, Arms
  <2>6. stub.loads = "trusted"
    BY <2>5, CanaryAssumption DEF Effective
  <2>7. stub.measures = "policy"
    BY <2>1, <2>3, <2>4, <2>5 DEF Shows, Arms
  <2>8. ~stub.disturbs
    BY <2>1, <2>3, <2>4, <2>5 DEF Shows, Arms
  <2>. QED
    BY <2>2, <2>6, <2>7, <2>8
<1>2. Inv => Conclusive
  BY <1>1 DEF Conclusive
<1>. QED
  BY <1>2, JobInvariance, PTL

-----------------------------------------------------------------------------
(* What the documents of an arm say about its disk, unless the disk was written
   after it was disconnected.  Each predicate is what one more step of the job
   adds for an arm. *)
InstalledArm(a) ==
  /\ disk[a] # None /\ disk[a].addon = AddonOf(a)
  /\ armDoc[a] # None /\ armDoc[a].addon = AddonOf(a)

HashedArm(a) ==
  /\ InstalledArm(a) /\ armDoc[a].after # None
  /\ a \in Late \/ armDoc[a].after = Hash(disk[a])

SourcedArm(a) ==
  /\ HashedArm(a) /\ bootDoc[a] # None
  /\ bootDoc[a].source[1] = AddonOf(a)
  /\ a \in Late \/ bootDoc[a].source = Hash(disk[a])

BootedArm(a) ==
  /\ SourcedArm(a) /\ bootDoc[a].guest # None
  /\ bootDoc[a].disk = bootDoc[a].source
  /\ bootDoc[a].store = "extended"
  /\ bootDoc[a].selected \in 1..MaxAttempts

Matched ==
  /\ step \in Early => arm = 1
  /\ step \in {"install", "disconnect", "hash"} =>
       \A k \in 1..arm-1 : HashedArm(Order[k])
  /\ step \in {"disconnect", "hash"} => InstalledArm(This)
  /\ step \in {"source", "boot"} =>
       /\ \A a \in Arms : HashedArm(a)
       /\ \A k \in 1..arm-1 : BootedArm(Order[k])
  /\ step = "boot" => SourcedArm(This) /\ attempt \in 1..MaxAttempts
  /\ step = "enforce" \/ canary # None => \A a \in Arms : BootedArm(a)
  /\ canary = FALSE => ~CanaryPasses

(* What is known of an arm stays known when nothing of the arm changes... *)
LEMMA SameArm ==
  ASSUME NEW a \in Arms, disk'[a] = disk[a], armDoc'[a] = armDoc[a],
         bootDoc'[a] = bootDoc[a]
  PROVE  /\ InstalledArm(a) => InstalledArm(a)'
         /\ HashedArm(a) => HashedArm(a)'
         /\ SourcedArm(a) => SourcedArm(a)'
         /\ BootedArm(a) => BootedArm(a)'
  BY DEF InstalledArm, HashedArm, SourcedArm, BootedArm, Late

(* ...and when its qemu-nbd, or another arm's, writes what it still held. *)
LEMMA ClosedArm ==
  ASSUME TypeOK, NEW b \in Arms, NbdCloses(b), disk[b] # None, NEW a \in Arms
  PROVE  /\ InstalledArm(a) => InstalledArm(a)'
         /\ HashedArm(a) => HashedArm(a)'
         /\ SourcedArm(a) => SourcedArm(a)'
         /\ BootedArm(a) => BootedArm(a)'
<1>1. armDoc' = armDoc /\ bootDoc' = bootDoc
  BY DEF NbdCloses, evidenceVars
<1>2. CASE a # b
  BY <1>1, <1>2, SameArm DEF NbdCloses, TypeOK
<1>3. CASE a = b
  <2>1. disk[a] \in Disks
    BY <1>3 DEF TypeOK
  <2>2. disk'[a] = [disk[a] EXCEPT !.writes = MaxWrites]
    BY <1>3 DEF NbdCloses, TypeOK
  <2>3. disk'[a] \in Disks /\ disk'[a].addon = disk[a].addon
        /\ disk'[a].writes = MaxWrites
    BY <2>1, <2>2 DEF Disks, MaxWrites
  <2>4. disk'[a] # None /\ a \in Late'
    BY <2>3, CanaryAssumption DEF Late
  <2>. QED
    BY <1>1, <2>3, <2>4 DEF InstalledArm, HashedArm, SourcedArm, BootedArm
<1>. QED
  BY <1>2, <1>3

(* The verdict depends on the documents alone. *)
LEMMA SameVerdict ==
  ASSUME UNCHANGED <<static, armDoc, bootDoc>>
  PROVE  CanaryPasses' <=> CanaryPasses
  BY DEF CanaryPasses, ArmJoin, BootInputJoin, BootAttemptsJoin,
         GuestAddonJoin, SamePcr11, Unaffected, SignedApplied, GuestOf

(* Until an add-on is installed, there is nothing to know. *)
LEMMA NothingMatched ==
  ASSUME Matched, canary' = None, step \in Early, arm' = arm,
         step' \in Early \union {"install", "end"}
  PROVE  Matched'
<1>1. /\ arm' = 1 /\ \A k \in 1..arm'-1 : FALSE
  BY DEF Matched
<1>. QED
  BY <1>1, CanaryAssumption DEF Matched, Early

LEMMA MatchedStep ==
  Inv /\ Matched /\ [Next]_vars => Matched'
<1> SUFFICES ASSUME Inv, Matched, [Next]_vars PROVE Matched'
  OBVIOUS
<1> USE DEF vars, controlVars, evidenceVars, Ends, Continue
<1>a. step # "end" => canary = None
  BY DEF Inv, Decided
<1>b. /\ arm \in 1..4 /\ This \in Arms
      /\ \A k \in 1..arm-1 : Order[k] \in Arms /\ Order[k] # This
      /\ \A a \in Arms : \E k \in 1..4 : a = Order[k]
  BY OrderFact DEF This, Inv, TypeOK
<1>c. TypeOK' /\ Found'
  BY TypeStep, FoundStep
<1>1. CASE StepFails
  BY <1>a, <1>1, CanaryAssumption DEF StepFails, Inv, TypeOK, Matched, Early
<1>2. CASE BuildDisk
  BY <1>a, <1>2, NothingMatched DEF BuildDisk, Early
<1>3. CASE TamperOverlay
  BY <1>a, <1>3, NothingMatched DEF TamperOverlay, Early
<1>4. CASE TamperBoot
  BY <1>a, <1>4, NothingMatched DEF TamperBoot, Early
<1>5. CASE ControlBoot
  BY <1>a, <1>5, NothingMatched DEF ControlBoot, Early
<1>6. CASE EnforceControl
  BY <1>a, <1>6, NothingMatched DEF EnforceControl, Early
<1>7. CASE Prepare
  BY <1>a, <1>7, NothingMatched DEF Prepare, Early
<1>8. CASE CreateOverlays
  BY <1>a, <1>8, NothingMatched DEF CreateOverlays, Early
<1>9. CASE InstallAddon
  <2>1. /\ step' = "disconnect" /\ canary' = None
        /\ UNCHANGED <<arm, bootDoc>>
    BY <1>a, <1>9 DEF InstallAddon
  <2>2. disk[This] \in Disks
    BY <1>9, <1>b DEF InstallAddon, Inv, TypeOK, Found, ArmSteps
  <2>3. /\ disk'[This] = [disk[This] EXCEPT !.addon = AddonOf(This),
                                            !.writes = 1]
        /\ armDoc'[This] = [addon |-> AddonOf(This), after |-> None]
        /\ \A a \in Arms : a # This =>
             disk'[a] = disk[a] /\ armDoc'[a] = armDoc[a]
    BY <1>9, <1>b DEF InstallAddon, Inv, TypeOK
  <2>4. disk'[This].addon = AddonOf(This) /\ armDoc'[This].addon = AddonOf(This)
    BY <2>2, <2>3 DEF Disks
  <2>5. disk'[This] # None /\ armDoc'[This] # None
    BY <2>1, <1>b, <1>c DEF Found, ArmSteps, This
  <2>6. InstalledArm(This)'
    BY <2>1, <2>4, <2>5 DEF InstalledArm, This
  <2>7. \A k \in 1..arm-1 : HashedArm(Order[k])'
    BY <1>9, <1>b, <2>1, <2>3, SameArm DEF InstallAddon, Matched
  <2>. QED
    BY <2>1, <2>6, <2>7, CanaryAssumption DEF Matched, Early
<1>10. CASE Disconnect
  <2>1. /\ step = "disconnect" /\ step' = "hash" /\ canary' = None
        /\ UNCHANGED <<arm, disk, armDoc, bootDoc>>
    BY <1>a, <1>10 DEF Disconnect
  <2>2. InstalledArm(This)' /\ \A k \in 1..arm-1 : HashedArm(Order[k])'
    BY <2>1, <1>b, SameArm DEF Matched, This
  <2>. QED
    BY <2>1, <2>2, CanaryAssumption DEF Matched, Early
<1>11. CASE HashDisk
  <2>1. /\ step = "hash" /\ canary' = None /\ UNCHANGED <<disk, bootDoc>>
        /\ NextArm("install", "source")
    BY <1>a, <1>11 DEF HashDisk
  <2>2. /\ armDoc[This] \in ArmDocs /\ disk[This] \in Disks
        /\ InstalledArm(This)
    BY <1>b, <2>1 DEF Matched, InstalledArm, Inv, TypeOK
  <2>3. /\ armDoc'[This] = [armDoc[This] EXCEPT !.after = Hash(disk[This])]
        /\ \A a \in Arms : a # This => armDoc'[a] = armDoc[a]
    BY <1>11, <1>b DEF HashDisk, Inv, TypeOK
  <2>4. Hash(disk[This]) \in Hashes
    BY <2>2 DEF Hash, Hashes, Disks
  <2>5. /\ armDoc'[This].after = Hash(disk[This])
        /\ armDoc'[This].addon = AddonOf(This)
        /\ armDoc'[This] \in ArmDocs
    BY <2>2, <2>3, <2>4 DEF ArmDocs, InstalledArm
  <2>6. armDoc'[This] # None /\ armDoc'[This].after # None
    BY <2>4, <2>5, CanaryAssumption
  <2> PICK t \in Arms : t = This
    BY <1>b
  <2>7. HashedArm(t)'
    BY <2>1, <2>2, <2>5, <2>6 DEF HashedArm, InstalledArm
  <2>8. \A k \in 1..arm : HashedArm(Order[k])'
    <3>1. \A k \in 1..arm-1 : HashedArm(Order[k])'
      BY <1>b, <2>1, <2>3, SameArm DEF Matched
    <3>2. \A k \in 1..arm : k \in 1..arm-1 \/ Order[k] = t
      BY <1>b DEF This
    <3>. QED
      BY <2>7, <3>1, <3>2
  <2>9. \/ step' = "install" /\ arm' = arm + 1
        \/ step' = "source" /\ arm' = 1 /\ arm = 4
    BY <1>b, <2>1, OrderFact DEF NextArm
  <2>10. step' = "install" => \A k \in 1..arm'-1 : HashedArm(Order[k])'
    BY <1>b, <2>8, <2>9
  <2>11. step' = "source" => \A a \in Arms : HashedArm(a)'
    BY <1>b, <2>8, <2>9
  <2>12. step' = "source" => \A k \in 1..arm'-1 : FALSE
    BY <2>9
  <2>. QED
    BY <2>1, <2>9, <2>10, <2>11, <2>12, CanaryAssumption DEF Matched, Early
<1>12. ASSUME NEW b \in Arms, NbdCloses(b) PROVE Matched'
  <2>1. /\ step # "end" /\ canary' = None
        /\ UNCHANGED <<step, arm, attempt>>
    BY <1>a, <1>12 DEF NbdCloses, Inv, TypeOK
  <2>2. disk[b] # None
    BY <1>12 DEF NbdCloses, Inv, Found
  <2>3. \A a \in Arms : /\ InstalledArm(a) => InstalledArm(a)'
                        /\ HashedArm(a) => HashedArm(a)'
                        /\ SourcedArm(a) => SourcedArm(a)'
                        /\ BootedArm(a) => BootedArm(a)'
    BY <1>12, <2>2, ClosedArm DEF Inv
  <2> PICK t \in Arms : t = This /\ t = This'
    BY <1>b, <2>1 DEF This
  <2>4. /\ step \in {"disconnect", "hash"} => InstalledArm(t)'
        /\ step = "boot" => SourcedArm(t)'
    BY <2>3 DEF Matched
  <2>. QED
    BY <1>b, <2>1, <2>3, <2>4, CanaryAssumption DEF Matched, Early
<1>13. CASE HashSource
  <2>1. /\ step = "source" /\ step' = "boot" /\ canary' = None /\ attempt' = 1
        /\ UNCHANGED <<arm, disk, armDoc>>
    BY <1>a, <1>13 DEF HashSource
  <2> PICK t \in Arms : t = This /\ t = This'
    BY <1>b, <2>1 DEF This
  <2>2. /\ bootDoc'[t] = [source |-> Hash(disk[t]), disk |-> None,
                          store |-> "none", selected |-> 0, guest |-> None]
        /\ \A a \in Arms : a # t => bootDoc'[a] = bootDoc[a]
    BY <1>13 DEF HashSource, Inv, TypeOK
  <2>3. HashedArm(t) /\ \A a \in Arms : HashedArm(a)'
    BY <2>1 DEF Matched, HashedArm, InstalledArm, Late
  <2>4. bootDoc'[t] # None
    BY <2>1, <1>c DEF Found
  <2>5. bootDoc'[t].source = Hash(disk[t]) /\ Hash(disk[t])[1] = AddonOf(t)
    BY <2>2, <2>3 DEF Hash, HashedArm, InstalledArm
  <2>6. SourcedArm(t)'
    BY <2>1, <2>3, <2>4, <2>5 DEF SourcedArm, Hash
  <2>7. \A k \in 1..arm-1 : BootedArm(Order[k])'
    BY <1>b, <2>1, <2>2, SameArm DEF Matched
  <2>8. attempt' \in 1..MaxAttempts
    BY <2>1, CanaryAssumption
  <2>. QED
    BY <2>1, <2>3, <2>6, <2>7, <2>8, CanaryAssumption DEF Matched, Early
<1>14. CASE BootArm
  <2>1. /\ step = "boot" /\ canary' = None /\ UNCHANGED <<disk, armDoc>>
        /\ store = "extended" /\ NextArm("source", "enforce")
    BY <1>a, <1>14 DEF BootArm, Inv, Reported, ArmSteps
  <2> PICK t \in Arms : t = This
    BY <1>b
  <2> PICK ok \in BOOLEAN, phase \in Phases :
          /\ bootDoc' = [bootDoc EXCEPT ![This] = Delivered(ok, phase)]
          /\ Delivered(ok, phase) \in BootDocs
          /\ Delivered(ok, phase).guest # None
    BY <1>14, Delivery
  <2>2. /\ bootDoc'[t] = Delivered(ok, phase)
        /\ \A a \in Arms : a # t => bootDoc'[a] = bootDoc[a]
    BY DEF Inv, TypeOK
  <2>3. /\ SourcedArm(t) /\ attempt \in 1..MaxAttempts
        /\ Hash(disk[t]) = bootDoc[t].source
    BY <1>14, <2>1 DEF Matched, BootArm
  <2>4. /\ bootDoc'[t].source = bootDoc[t].source
        /\ bootDoc'[t].disk = bootDoc[t].source
        /\ bootDoc'[t].store = "extended" /\ bootDoc'[t].selected = attempt
        /\ bootDoc'[t].guest # None
    BY <2>1, <2>2, <2>3 DEF Delivered
  <2>5. bootDoc'[t] # None
    BY <2>2, CanaryAssumption
  <2>6. BootedArm(t)'
    BY <2>1, <2>3, <2>4, <2>5
    DEF BootedArm, SourcedArm, HashedArm, InstalledArm, Late
  <2>7. \A a \in Arms : HashedArm(a)'
    BY <2>1 DEF Matched, HashedArm, InstalledArm, Late
  <2>8. \A k \in 1..arm : BootedArm(Order[k])'
    <3>1. \A k \in 1..arm-1 : BootedArm(Order[k])'
      BY <1>b, <2>1, <2>2, SameArm DEF Matched
    <3>2. \A k \in 1..arm : k \in 1..arm-1 \/ Order[k] = t
      BY <1>b DEF This
    <3>. QED
      BY <2>6, <3>1, <3>2
  <2>9. \/ step' = "source" /\ arm' = arm + 1
        \/ step' = "enforce" /\ arm = 4
    BY <1>b, <2>1, OrderFact DEF NextArm
  <2>10. step' = "source" => \A k \in 1..arm'-1 : BootedArm(Order[k])'
    BY <1>b, <2>8, <2>9
  <2>11. step' = "enforce" => \A a \in Arms : BootedArm(a)'
    BY <1>b, <2>8, <2>9
  <2>. QED
    BY <2>1, <2>7, <2>9, <2>10, <2>11, CanaryAssumption DEF Matched, Early
<1>15. CASE BootSilent
  <2>1. /\ step = "boot" /\ canary' = None /\ attempt' = attempt + 1
        /\ attempt < MaxAttempts
        /\ UNCHANGED <<step, arm, disk, armDoc, bootDoc>>
    BY <1>a, <1>15 DEF BootSilent
  <2>2. attempt' \in 1..MaxAttempts
    BY <2>1, CanaryAssumption DEF Matched
  <2> PICK t \in Arms : t = This /\ t = This'
    BY <1>b, <2>1 DEF This
  <2>3. /\ \A a \in Arms : HashedArm(a)'
        /\ \A k \in 1..arm-1 : BootedArm(Order[k])'
        /\ SourcedArm(t)'
    BY <1>b, <2>1, SameArm DEF Matched
  <2>. QED
    BY <2>1, <2>2, <2>3, CanaryAssumption DEF Matched, Early
<1>16. CASE EnforceCanary
  <2>1. /\ step = "enforce" /\ step' = "end" /\ canary' = CanaryPasses
        /\ UNCHANGED <<static, disk, armDoc, bootDoc>>
    BY <1>16 DEF EnforceCanary
  <2>2. \A a \in Arms : BootedArm(a)'
    BY <2>1, SameArm DEF Matched
  <2>3. canary' = FALSE => ~CanaryPasses'
    BY <2>1, SameVerdict
  <2>. QED
    BY <2>1, <2>2, <2>3 DEF Matched, Early
<1>17. CASE UNCHANGED vars
  <2>1. CanaryPasses' <=> CanaryPasses
    BY <1>17, SameVerdict
  <2>2. \A a \in Arms : /\ InstalledArm(a) => InstalledArm(a)'
                        /\ HashedArm(a) => HashedArm(a)'
                        /\ SourcedArm(a) => SourcedArm(a)'
                        /\ BootedArm(a) => BootedArm(a)'
    BY <1>17, SameArm
  <2> PICK t \in Arms : t = This /\ t = This'
    BY <1>b, <1>17 DEF This
  <2>3. /\ step \in {"disconnect", "hash"} => InstalledArm(t)'
        /\ step = "boot" => SourcedArm(t)'
    BY <2>2 DEF Matched
  <2>. QED
    BY <1>b, <1>17, <2>1, <2>2, <2>3 DEF Matched
<1>. QED
  BY <1>1, <1>2, <1>3, <1>4, <1>5, <1>6, <1>7, <1>8, <1>9, <1>10, <1>11,
     <1>12, <1>13, <1>14, <1>15, <1>16, <1>17 DEF Next, Job

(* With the stub the job hopes for, four complete and matching documents and
   guests that agree, every gate holds. *)
LEMMA Explanation ==
  ASSUME Inv, Matched, canary = FALSE
  PROVE  FailureExplained
<1> SUFFICES ASSUME stub.loads = "trusted", stub.measures = "policy",
                    ~stub.disturbs,
                    \A a \in Arms : GuestOf(a).success /\ a \notin Late,
                    \A a, b \in Arms : GuestOf(a).phase = GuestOf(b).phase
             PROVE  FALSE
  BY DEF FailureExplained
<1>1. \A a \in Arms : BootedArm(a) /\ Received(a) /\ Shows(bootDoc[a])
  BY CanaryAssumption
  DEF Inv, Reported, Matched, BootedArm, SourcedArm, Received
<1>2. static
  BY <1>1 DEF Inv, Decided, BootedArm, SourcedArm, HashedArm, InstalledArm,
         Arms
<1>3. \A a \in Arms : ArmJoin(a) /\ BootInputJoin(a) /\ BootAttemptsJoin(a)
  BY <1>1
  DEF ArmJoin, BootInputJoin, BootAttemptsJoin, BootedArm, SourcedArm,
      HashedArm, InstalledArm
<1>4. \A a \in Arms : bootDoc[a].disk[1] = AddonOf(a)
  BY <1>1 DEF BootedArm, SourcedArm
<1>5. \A a \in Arms : /\ GuestAddonJoin(a)
                      /\ GuestOf(a).pcr11 = "uki"
  BY <1>1, <1>4 DEF GuestAddonJoin, GuestOf, Shows
<1>6. /\ ~Effective(None) /\ Effective("signed") /\ ~Effective("tampered")
  BY CanaryAssumption DEF Effective
<1>7. Unaffected("baseline") /\ Unaffected("tampered")
  BY <1>1, <1>4, <1>6 DEF Shows, Unaffected, GuestOf, AddonOf, Signed, Arms
<1>8. \A a \in Signed : SignedApplied(a)
  BY <1>1, <1>4, <1>6 DEF Shows, SignedApplied, GuestOf, AddonOf, Signed, Arms
<1>9. CanaryPasses
  BY <1>2, <1>3, <1>5, <1>7, <1>8 DEF CanaryPasses, SamePcr11
<1>. QED
  BY <1>9 DEF Matched

(* A failed canary is never the validator's own doing: one of the causes its
   documents can name is behind it. *)
THEOREM FailureHasCause == Spec => []FailureExplained
<1>1. Init => Matched
  BY CanaryAssumption DEF Init, Matched
<1>2. Spec => []Matched
  BY <1>1, JobInvariance, MatchedStep, PTL DEF Spec
<1>3. Inv /\ Matched => FailureExplained
  BY Explanation DEF FailureExplained
<1>. QED
  BY <1>2, <1>3, JobInvariance, PTL

=============================================================================
