--------------------------- MODULE BootRetryProofs ---------------------------
(***************************************************************************)
(* What holds of the retry wrapper for every number of polls, attempts and *)
(* invocations, and that it implements BoundedRetry.                        *)
(*                                                                         *)
(* The wrapper sees an attempt only through the runner's exit status and   *)
(* the receipt it extracted.  OneBoot says what the two tell about the     *)
(* machine; Attempts carries that over to the record of each attempt, and  *)
(* Outputs to the evidence and the manifest that survive the wrapper.       *)
(***************************************************************************)
EXTENDS BootRetry, SequenceTheorems, TLAPS

(* The guest runs inside QEMU, QEMU while the host script watches it. *)
Watched ==
  /\ guest # "off" => qemu = "running"
  /\ qemu = "running" => runner \in {"test", "sleep"}
  /\ qemu # "exited" => qemuRc = Ok
  /\ runner \in {"off", "swtpm", "launch"} =>
       /\ qemu = "off" /\ rejected = None /\ evidence = None
       /\ receipt = None /\ probe = "empty"
  /\ runner \in {"test", "sleep", "extract", "check"} => qemu # "off"

(* A receipt is on the probe disk only after the guest composed it, and durable
   when the machine powered itself off. *)
Durable ==
  /\ guest \in {"write", "rename", "sync", "poweroff"} \/ probe # "empty" =>
       receipt \in BOOLEAN
  /\ qemu = "exited" /\ qemuRc = Ok /\ probe = "renamed" =>
       runner = "exited" /\ rc = Rejected

(* What the exit status and the extracted receipt tell. *)
Told ==
  /\ evidence # None =>
       /\ runner \in {"check", "exited"}
       /\ evidence = receipt /\ probe # "empty"
  /\ runner = "check" \/ (runner = "exited" /\ rc = Ok) =>
       evidence # None /\ probe = "synced"
  /\ runner = "exited" /\ rc = TimedOut /\ evidence = None =>
       probe # "synced"

(* A rejection that the last search of the serial log did not see is of the
   current poll; the time limit ends only the last one. *)
Timely ==
  /\ runner \in {"test", "extract"} => rejected \in {None, polls}
  /\ qemuRc = TimedOut => polls = Polls
  /\ runner = "exited" /\ rc = TimedOut => rejected \in {None, Polls}

OneBoot == Watched /\ Durable /\ Told /\ Timely

InFlight == {"copy", "run", "decide", "manifest"}

(* What the k-th record says, and what it says of the boot. *)
Recorded(k) ==
  /\ records[k].attempt = k
  /\ records[k].retry_eligible =
       Eligible(records[k].exit_status, records[k].guest_receipt_present)
  /\ records[k].retry_eligible =>
       truth[k].probe # "synced" /\ truth[k].rejected \in {None, Polls}
  /\ k < attempt => records[k].retry_eligible

Attempts ==
  /\ retry \in InFlight => invocation >= 1 /\ attempt >= 1
  /\ retry \in {"copy", "run"} => Len(records) + 1 = attempt
  /\ retry \in {"decide", "manifest"} => Len(records) = attempt
  /\ \A k \in 1..Len(records) : Recorded(k)
  /\ retry = "decide" =>
       /\ runner = "exited" /\ Last.exit_status = rc
       /\ Last.guest_receipt_present = (evidence # None)

(* The promoted evidence is the durable receipt of that attempt. *)
EvidenceOf(i, a) ==
  /\ promoted # None /\ promoted.invocation = i /\ promoted.attempt = a
  /\ promoted.synced /\ promoted.success = promoted.guest

Outputs ==
  /\ retry \in {"idle"} \union InFlight => manifest = None
  /\ retry \in {"idle", "copy", "run", "decide"} => promoted = None
  /\ retry = "manifest" => Delivered /\ EvidenceOf(invocation, attempt)
  /\ manifest # None =>
       IF manifest.selected = NoSelection
         THEN promoted = None
         ELSE /\ BootAttemptsJoin(manifest)
              /\ EvidenceOf(manifest.of, manifest.selected)
  /\ retry = "exited" /\ exit = Ok =>
       manifest # None /\ manifest.selected # NoSelection

Inv == RetryTypeOK /\ OneBoot /\ Attempts /\ Outputs

-----------------------------------------------------------------------------
(* One boot. *)

(* Every step of a boot keeps its variables in their types... *)
LEMMA RunTypeStep ==
  RunTypeOK /\ OneBoot /\ RunNext => RunTypeOK'
<1> SUFFICES ASSUME RunTypeOK, OneBoot, RunNext PROVE RunTypeOK'
  OBVIOUS
<1> USE PollsAssumption DEF RunTypeOK, OneBoot, Watched, Durable, runVars,
     runnerVars, guestVars, Statuses, Ok, Failed, Rejected, TimedOut, Probes
<1>1. CASE PrepareFails
  BY <1>1 DEF PrepareFails, ExitWith
<1>2. CASE StartTpm
  BY <1>2 DEF StartTpm
<1>3. CASE LaunchQemu
  BY <1>3 DEF LaunchQemu
<1>4. CASE TestAlive
  BY <1>4 DEF TestAlive
<1>5. CASE GrepSerial
  BY <1>5 DEF GrepSerial, ExitWith
<1>6. CASE Extract
  BY <1>6 DEF Extract, ExitWith, Extractable
<1>7. CASE CheckDisk
  BY <1>7 DEF CheckDisk, ExitWith
<1>8. CASE TimeLimit
  BY <1>8 DEF TimeLimit, QemuExits
<1>9. CASE QemuCrashes
  BY <1>9 DEF QemuCrashes, QemuExits
<1>10. CASE FirmwareRejects
  BY <1>10 DEF FirmwareRejects
<1>11. CASE FirmwareBoots
  BY <1>11 DEF FirmwareBoots
<1>12. CASE Collect
  BY <1>12 DEF Collect
<1>13. CASE WriteTemporary
  BY <1>13 DEF WriteTemporary
<1>14. CASE RenameReceipt
  BY <1>14 DEF RenameReceipt
<1>15. CASE SyncReceipt
  BY <1>15 DEF SyncReceipt
<1>16. CASE Poweroff
  BY <1>16 DEF Poweroff, QemuExits
<1>. QED
  BY <1>1, <1>2, <1>3, <1>4, <1>5, <1>6, <1>7, <1>8,
     <1>9, <1>10, <1>11, <1>12, <1>13, <1>14, <1>15, <1>16
     DEF RunNext, Runner, Guest

(* ...and what its status and its receipt tell true. *)
LEMMA OneBootStep ==
  RunTypeOK /\ OneBoot /\ RunNext => OneBoot'
<1> SUFFICES ASSUME RunTypeOK, OneBoot, RunNext PROVE OneBoot'
  OBVIOUS
<1> USE PollsAssumption DEF RunTypeOK, OneBoot, Watched, Durable, Told, Timely,
     runVars, runnerVars, guestVars, Statuses, Ok, Failed, Rejected, TimedOut,
     Probes
<1>1. CASE PrepareFails
  BY <1>1 DEF PrepareFails, ExitWith
<1>2. CASE StartTpm
  BY <1>2 DEF StartTpm
<1>3. CASE LaunchQemu
  BY <1>3 DEF LaunchQemu
<1>4. CASE TestAlive
  BY <1>4 DEF TestAlive
<1>5. CASE GrepSerial
  BY <1>5 DEF GrepSerial, ExitWith
<1>6. CASE Extract
  BY <1>6 DEF Extract, ExitWith, Extractable
<1>7. CASE CheckDisk
  BY <1>7 DEF CheckDisk, ExitWith
<1>8. CASE TimeLimit
  BY <1>8 DEF TimeLimit, QemuExits
<1>9. CASE QemuCrashes
  BY <1>9 DEF QemuCrashes, QemuExits
<1>10. CASE FirmwareRejects
  BY <1>10 DEF FirmwareRejects
<1>11. CASE FirmwareBoots
  BY <1>11 DEF FirmwareBoots
<1>12. CASE Collect
  BY <1>12 DEF Collect
<1>13. CASE WriteTemporary
  BY <1>13 DEF WriteTemporary
<1>14. CASE RenameReceipt
  BY <1>14 DEF RenameReceipt
<1>15. CASE SyncReceipt
  BY <1>15 DEF SyncReceipt
<1>16. CASE Poweroff
  BY <1>16 DEF Poweroff, QemuExits
<1>. QED
  BY <1>1, <1>2, <1>3, <1>4, <1>5, <1>6, <1>7, <1>8,
     <1>9, <1>10, <1>11, <1>12, <1>13, <1>14, <1>15, <1>16
     DEF RunNext, Runner, Guest

(* A boot that has not begun, or was killed, tells nothing. *)
LEMMA FreshBoot ==
  StartRun \/ RunInit' => RunTypeOK' /\ OneBoot'
  BY PollsAssumption
  DEF StartRun, RunInit, RunTypeOK, OneBoot, Watched, Durable, Told, Timely,
      Statuses, Ok, Failed, Rejected, TimedOut, Probes

LEMMA SameBoot ==
  RunTypeOK /\ OneBoot /\ UNCHANGED runVars => RunTypeOK' /\ OneBoot'
  BY DEF runVars, runnerVars, guestVars, RunTypeOK, OneBoot, Watched, Durable,
     Told, Timely

-----------------------------------------------------------------------------
(* The wrapper. *)

(* Every step leaves a boot of which its status and receipt tell true. *)
LEMMA BootStep ==
  Inv /\ [Next]_vars => RunTypeOK' /\ OneBoot'
<1> SUFFICES ASSUME Inv, [Next]_vars PROVE RunTypeOK' /\ OneBoot'
  OBVIOUS
<1>1. CASE RunNext
  BY <1>1, RunTypeStep, OneBootStep DEF Inv, RetryTypeOK
<1>2. CASE StartRun
  BY <1>2, FreshBoot
<1>3. CASE Cancel
  <2>1. RunInit'
    BY <1>3 DEF Cancel, RunInit
  <2>. QED
    BY <2>1, FreshBoot
<1>4. CASE UNCHANGED runVars
  BY <1>4, SameBoot DEF Inv, RetryTypeOK
<1>. QED
  BY <1>1, <1>2, <1>3, <1>4
  DEF Next, Running, Wrapper, Begin, BeginFails, CopyFails, CopyDisk,
      RecordAttempt, Promote, WriteSelected, GiveUp, TryAgain, vars

(* The record that RecordAttempt appends. *)
ThisRecord ==
  [attempt |-> attempt, exit_status |-> rc,
   guest_receipt_present |-> evidence # None,
   retry_eligible |-> Eligible(rc, evidence # None)]
ThisTruth == [probe |-> probe, rejected |-> rejected]

LEMMA Appended ==
  ASSUME Inv, RecordAttempt
  PROVE  /\ records' = Append(records, ThisRecord) /\ ThisRecord \in Record
         /\ truth' = Append(truth, ThisTruth) /\ ThisTruth \in Truth
         /\ records' \in Seq(Record) /\ truth' \in Seq(Truth)
         /\ Len(records') = attempt /\ Len(truth') = attempt
         /\ attempt \in 1..MaxAttempts
         /\ records'[attempt] = ThisRecord /\ truth'[attempt] = ThisTruth
         /\ \A k \in 1..Len(records) :
              records'[k] = records[k] /\ truth'[k] = truth[k]
<1>1. /\ records' = Append(records, ThisRecord)
      /\ truth' = Append(truth, ThisTruth)
      /\ retry = "run"
  BY DEF RecordAttempt, ThisRecord, ThisTruth
<1>2. /\ records \in Seq(Record) /\ truth \in Seq(Truth)
      /\ Len(truth) = Len(records) /\ Len(records) + 1 = attempt
      /\ attempt \in 1..MaxAttempts
  BY <1>1, RetryAssumption DEF Inv, RetryTypeOK, Attempts, InFlight
<1>3. ThisRecord \in Record /\ ThisTruth \in Truth
  BY <1>2
  DEF ThisRecord, ThisTruth, Record, Truth, Eligible, Inv, RetryTypeOK,
      RunTypeOK
<1>. QED
  BY <1>1, <1>2, <1>3, AppendProperties

(* The manifest of this invocation. *)
LEMMA Written ==
  ASSUME Inv, retry \in InFlight, NEW n \in 0..MaxAttempts,
         WriteManifest(n)
  PROVE  /\ manifest' \in Manifest /\ manifest' # None
         /\ manifest'.of = invocation /\ manifest'.selected = n
         /\ manifest'.attempts = records
<1>1. invocation \in 1..MaxInvocations /\ records \in Seq(Record)
  BY RetryAssumption DEF Inv, RetryTypeOK, Attempts
<1>2. manifest' \in Manifest
  BY <1>1 DEF WriteManifest, Manifest
<1>. QED
  BY <1>2, NoFileAssumption DEF WriteManifest

LEMMA Promoted ==
  ASSUME Inv, Promote
  PROVE  promoted' \in Evidence /\ EvidenceOf(invocation, attempt)'
<1>1. /\ retry = "decide" /\ runner = "exited" /\ rc = Ok /\ evidence # None
      /\ invocation \in 1..MaxInvocations /\ attempt \in 1..MaxAttempts
  <2>1. retry = "decide" /\ Delivered
    BY DEF Promote
  <2>2. /\ runner = "exited" /\ Last.exit_status = rc
        /\ Last.guest_receipt_present = (evidence # None)
    BY <2>1 DEF Inv, Attempts
  <2>3. rc = Ok /\ evidence # None
    BY <2>1, <2>2, Zenon DEF Delivered
  <2>. QED
    BY <2>1, <2>2, <2>3, RetryAssumption
    DEF Inv, Attempts, RetryTypeOK, InFlight
<1>2. /\ probe = "synced" /\ evidence = receipt /\ evidence \in BOOLEAN
  BY <1>1 DEF Inv, OneBoot, Told, RetryTypeOK, RunTypeOK
<1>3. promoted' \in Evidence
  BY <1>1, <1>2 DEF Promote, Evidence
<1>. QED
  <2>1. promoted' # None
    BY <1>3, NoFileAssumption
  <2>2. /\ promoted'.synced /\ promoted'.success = promoted'.guest
        /\ promoted'.invocation = invocation' /\ promoted'.attempt = attempt'
    BY <1>2 DEF Promote
  <2>. QED
    BY <1>3, <2>1, <2>2 DEF EvidenceOf

LEMMA RetryTypeStep ==
  Inv /\ [Next]_vars => RetryTypeOK'
<1> SUFFICES ASSUME Inv, [Next]_vars PROVE RetryTypeOK'
  OBVIOUS
<1>0. RunTypeOK'
  BY BootStep
<1> USE <1>0, RetryAssumption DEF RetryTypeOK
<1>1. CASE Begin
  BY <1>1, EmptySeq DEF Begin, Inv, Statuses
<1>2. CASE BeginFails
  BY <1>2, EmptySeq DEF BeginFails, Exits, Inv, Statuses
<1>3. CASE Running
  BY <1>3 DEF Running, retryVars, Inv
<1>4. CASE CopyDisk
  BY <1>4 DEF CopyDisk, Inv
<1>5. CASE CopyFails
  BY <1>5 DEF CopyFails, Exits, Inv, Statuses
<1>6. CASE RecordAttempt
  <2>1. /\ UNCHANGED <<invocation, attempt, promoted, manifest, exit>>
        /\ retry' = "decide"
    BY <1>6 DEF RecordAttempt
  <2>. QED
    BY <1>6, <2>1, Appended DEF Inv
<1>7. CASE Promote
  <2>1. /\ UNCHANGED <<invocation, attempt, records, manifest, exit, truth>>
        /\ retry' = "manifest"
    BY <1>7 DEF Promote
  <2>. QED
    BY <1>7, <2>1, Promoted DEF Inv
<1>8. CASE WriteSelected
  <2>1. /\ UNCHANGED <<invocation, attempt, records, promoted, truth>>
        /\ retry = "manifest" /\ retry' = "exited" /\ exit' = Ok
        /\ WriteManifest(attempt)
    BY <1>8 DEF WriteSelected, Exits
  <2>. QED
    BY <2>1, Written DEF Inv, InFlight, Statuses
<1>9. CASE GiveUp
  <2>1. /\ UNCHANGED <<invocation, attempt, records, promoted, truth>>
        /\ retry = "decide" /\ retry' = "exited"
        /\ exit' = IF Last.exit_status = Ok THEN Failed ELSE Last.exit_status
        /\ WriteManifest(NoSelection)
    BY <1>9 DEF GiveUp, Exits
  <2>2. exit' \in Statuses
    BY <2>1 DEF Inv, Attempts, RunTypeOK, Statuses
  <2>3. NoSelection \in 0..MaxAttempts
    BY DEF NoSelection
  <2>. QED
    BY <2>1, <2>2, <2>3, Written DEF Inv, InFlight
<1>10. CASE TryAgain
  BY <1>10 DEF TryAgain, MayRetry, Inv
<1>11. CASE Cancel
  BY <1>11 DEF Cancel, Exits, Inv, Statuses
<1>12. CASE UNCHANGED vars
  BY <1>12 DEF vars, retryVars, Inv
<1>. QED
  BY <1>1, <1>2, <1>3, <1>4, <1>5, <1>6, <1>7, <1>8, <1>9, <1>10, <1>11,
     <1>12 DEF Next, Wrapper

(* Every record is of the attempt at its place, and a boot that another one
   followed was silent. *)
LEMMA AttemptsStep ==
  Inv /\ [Next]_vars => Attempts'
<1> SUFFICES ASSUME Inv, [Next]_vars PROVE Attempts'
  OBVIOUS
<1>0. /\ RetryTypeOK /\ Attempts /\ Len(records) \in Nat
  BY DEF Inv, RetryTypeOK
<1> USE RetryAssumption DEF Attempts, Recorded, InFlight
<1>1. CASE Begin
  BY <1>0, <1>1, EmptySeq DEF Begin, RetryTypeOK
<1>2. CASE BeginFails
  BY <1>0, <1>2, EmptySeq DEF BeginFails, Exits
<1>3. CASE Running
  BY <1>0, <1>3 DEF Running, retryVars
<1>4. CASE CopyDisk
  BY <1>0, <1>4 DEF CopyDisk
<1>5. CASE CopyFails
  BY <1>0, <1>5 DEF CopyFails, Exits
<1>6. CASE RecordAttempt
  <2>1. /\ UNCHANGED <<invocation, attempt, runVars>>
        /\ retry = "run" /\ runner = "exited" /\ retry' = "decide"
    BY <1>6 DEF RecordAttempt
  <2>2. UNCHANGED <<runner, rc, evidence>>
    BY <2>1 DEF runVars, runnerVars
  <2>3. /\ Len(records') = attempt /\ Len(records) + 1 = attempt
        /\ records'[attempt] = ThisRecord /\ truth'[attempt] = ThisTruth
        /\ \A k \in 1..Len(records) :
             records'[k] = records[k] /\ truth'[k] = truth[k]
        /\ attempt \in Nat
    BY <1>0, <1>6, <2>1, Appended
  <2>4. ASSUME NEW k \in 1..Len(records) PROVE Recorded(k)'
    BY <1>0, <2>1, <2>3
  <2>5. Recorded(attempt)'
    <3>1. Eligible(rc, evidence # None) =>
            probe # "synced" /\ rejected \in {None, Polls}
      BY <2>1 DEF Eligible, Inv, OneBoot, Told, Timely
    <3>. QED
      BY <2>1, <2>3, <3>1 DEF ThisRecord, ThisTruth
  <2>6. \A k \in 1..Len(records') : Recorded(k)'
    <3>1. \A k \in 1..Len(records') : k \in 1..Len(records) \/ k = attempt
      BY <1>0, <2>3
    <3>. QED
      BY <2>1, <2>4, <2>5, <3>1
  <2>7. Last' = ThisRecord
    BY <2>1, <2>3 DEF Last
  <2>8. /\ Last'.exit_status = rc'
        /\ Last'.guest_receipt_present = (evidence' # None)
    BY <2>2, <2>7 DEF ThisRecord
  <2>. QED
    BY <1>0, <2>1, <2>2, <2>3, <2>6, <2>8
<1>7. CASE Promote
  BY <1>0, <1>7 DEF Promote
<1>8. CASE WriteSelected
  BY <1>0, <1>8 DEF WriteSelected, Exits
<1>9. CASE GiveUp
  BY <1>0, <1>9 DEF GiveUp, Exits
<1>10. CASE TryAgain
  <2>1. /\ UNCHANGED <<invocation, records, truth>>
        /\ retry = "decide" /\ retry' = "copy" /\ attempt' = attempt + 1
        /\ Last.retry_eligible
    BY <1>10 DEF TryAgain, MayRetry
  <2>2. \A k \in 1..Len(records) : records[k].retry_eligible
    BY <1>0, <2>1 DEF Last
  <2>. QED
    BY <1>0, <2>1, <2>2 DEF RetryTypeOK
<1>11. CASE Cancel
  BY <1>0, <1>11 DEF Cancel, Exits
<1>12. CASE UNCHANGED vars
  BY <1>0, <1>12 DEF vars, retryVars, runVars, runnerVars, Last
<1>. QED
  BY <1>1, <1>2, <1>3, <1>4, <1>5, <1>6, <1>7, <1>8, <1>9, <1>10, <1>11,
     <1>12 DEF Next, Wrapper

LEMMA SameOutputs ==
  ASSUME Outputs,
         UNCHANGED <<retry, invocation, attempt, records, promoted, manifest,
                     exit>>
  PROVE  Outputs'
  BY DEF Outputs, InFlight, EvidenceOf, Delivered, Last, BootAttemptsJoin

(* The outputs of an invocation that ended stay what they were when the next
   one fails before it removes them. *)
LEMMA KeptOutputs ==
  ASSUME Outputs, retry' = "exited", exit' # Ok,
         UNCHANGED <<promoted, manifest>>
  PROVE  Outputs'
  BY DEF Outputs, InFlight, EvidenceOf, BootAttemptsJoin, Last

(* The manifest and the evidence beside it belong together at every moment. *)
LEMMA OutputsStep ==
  Inv /\ [Next]_vars => Outputs'
<1> SUFFICES ASSUME Inv, [Next]_vars PROVE Outputs'
  OBVIOUS
<1>0. RetryTypeOK /\ Attempts /\ Outputs /\ Failed # Ok
  BY DEF Inv, Failed, Ok
<1>1. CASE Begin
  BY <1>0, <1>1 DEF Begin, Outputs, InFlight
<1>2. CASE BeginFails
  BY <1>0, <1>2, KeptOutputs DEF BeginFails, Exits
<1>3. CASE Running
  BY <1>0, <1>3, SameOutputs DEF Running, retryVars
<1>4. CASE CopyDisk
  BY <1>0, <1>4 DEF CopyDisk, Outputs, InFlight
<1>5. CASE CopyFails
  BY <1>0, <1>5, KeptOutputs DEF CopyFails, Exits
<1>6. CASE RecordAttempt
  BY <1>0, <1>6 DEF RecordAttempt, Outputs, InFlight
<1>7. CASE Promote
  <2>1. /\ retry = "decide" /\ retry' = "manifest" /\ Delivered
        /\ UNCHANGED <<records, manifest>>
    BY <1>7 DEF Promote
  <2>2. Delivered'
    BY <2>1 DEF Delivered, Last
  <2>. QED
    BY <1>0, <1>7, <2>1, <2>2, Promoted DEF Outputs, InFlight
<1>8. CASE WriteSelected
  <2>1. /\ UNCHANGED <<invocation, attempt, records, promoted>>
        /\ retry = "manifest" /\ retry' = "exited" /\ exit' = Ok
        /\ WriteManifest(attempt)
    BY <1>8 DEF WriteSelected, Exits
  <2>2. /\ attempt \in 1..MaxAttempts /\ Len(records) = attempt
        /\ records \in Seq(Record)
    BY <1>0, <2>1, RetryAssumption DEF RetryTypeOK, Attempts, InFlight
  <2>3. /\ manifest' # None /\ manifest'.of = invocation
        /\ manifest'.selected = attempt /\ manifest'.attempts = records
    BY <2>1, <2>2, Written DEF InFlight
  <2>4. Delivered /\ EvidenceOf(invocation, attempt)
    BY <1>0, <2>1 DEF Outputs
  <2>5. BootAttemptsJoin(manifest')
    <3> SUFFICES ASSUME NEW k \in 1..attempt
                 PROVE  /\ records[k].attempt = k
                        /\ IF k = attempt
                             THEN /\ records[k].exit_status = Ok
                                  /\ records[k].guest_receipt_present
                                  /\ ~records[k].retry_eligible
                             ELSE /\ records[k].exit_status = TimedOut
                                  /\ ~records[k].guest_receipt_present
                                  /\ records[k].retry_eligible
      BY <2>2, <2>3 DEF BootAttemptsJoin
    <3>1. Recorded(k) /\ records[k] \in Record
      BY <1>0, <2>2, ElementOfSeq DEF Attempts
    <3>2. CASE k = attempt
      <4>1. records[k].exit_status = Ok /\ records[k].guest_receipt_present
        BY <2>2, <2>4, <3>2 DEF Delivered, Last
      <4>2. ~Eligible(records[k].exit_status, records[k].guest_receipt_present)
        BY <4>1 DEF Eligible, Ok, TimedOut
      <4>. QED
        BY <3>1, <3>2, <4>1, <4>2 DEF Recorded
    <3>3. CASE k # attempt
      <4>1. records[k].retry_eligible
        BY <2>2, <3>1, <3>3 DEF Recorded
      <4>2. Eligible(records[k].exit_status, records[k].guest_receipt_present)
        BY <3>1, <4>1, Zenon DEF Recorded
      <4>. QED
        BY <3>1, <3>3, <4>1, <4>2 DEF Recorded, Eligible
    <3>. QED
      BY <3>2, <3>3
  <2>6. EvidenceOf(manifest.of, manifest.selected)'
    BY <2>1, <2>3, <2>4 DEF EvidenceOf
  <2>7. manifest'.selected # NoSelection
    BY <2>2, <2>3 DEF NoSelection
  <2>. QED
    BY <2>1, <2>3, <2>5, <2>6, <2>7 DEF Outputs, InFlight, BootAttemptsJoin
<1>9. CASE GiveUp
  <2>1. /\ UNCHANGED promoted /\ promoted = None
        /\ retry = "decide" /\ retry' = "exited" /\ exit' # Ok
        /\ WriteManifest(NoSelection)
    BY <1>0, <1>9 DEF GiveUp, Exits, Outputs
  <2>2. manifest' # None /\ manifest'.selected = NoSelection
    BY <2>1, Written, RetryAssumption DEF InFlight, NoSelection
  <2>. QED
    BY <2>1, <2>2 DEF Outputs, InFlight
<1>10. CASE TryAgain
  BY <1>0, <1>10 DEF TryAgain, Outputs, InFlight
<1>11. CASE Cancel
  BY <1>0, <1>11, KeptOutputs DEF Cancel, Exits
<1>12. CASE UNCHANGED vars
  BY <1>0, <1>12, SameOutputs DEF vars, retryVars
<1>. QED
  BY <1>1, <1>2, <1>3, <1>4, <1>5, <1>6, <1>7, <1>8, <1>9, <1>10, <1>11,
     <1>12 DEF Next, Wrapper

-----------------------------------------------------------------------------
(* Inv is an invariant of the wrapper, of whatever it boots and of its files. *)
THEOREM RetryInvariance == Spec => []Inv
<1>1. Init => Inv
  <2> SUFFICES ASSUME Init PROVE Inv
    OBVIOUS
  <2>1. RunInit /\ records = <<>> /\ truth = <<>> /\ retry = "idle"
    BY DEF Init
  <2>2. RetryTypeOK
    BY <2>1, PollsAssumption, RetryAssumption, EmptySeq
    DEF Init, RunInit, RetryTypeOK, RunTypeOK, Probes, Statuses, Ok, Failed
  <2>3. OneBoot
    BY <2>1 DEF RunInit, OneBoot, Watched, Durable, Told, Timely, Ok,
     TimedOut
  <2>4. Attempts
    BY <2>1 DEF Attempts, InFlight
  <2>5. Outputs
    BY DEF Init, Outputs, InFlight
  <2>. QED
    BY <2>2, <2>3, <2>4, <2>5 DEF Inv
<1>2. Inv /\ [Next]_vars => Inv'
  BY BootStep, RetryTypeStep, AttemptsStep, OutputsStep DEF Inv
<1>. QED
  BY <1>1, <1>2, PTL DEF Spec

(* Every variable keeps its type, for every number of polls and attempts; there
   are never more records than attempts allowed. *)
THEOREM RetryTypeCorrect == Spec => []RetryTypeOK
<1>1. Inv => RetryTypeOK
  BY DEF Inv
<1>. QED
  BY <1>1, RetryInvariance, PTL

(* When run_fedora_sealed_retry.sh exits with 0, there is a manifest that
   boot_attempts_join accepts. *)
THEOREM SuccessJoined == Spec => []SuccessIsJoined
<1>1. Inv => SuccessIsJoined
  BY DEF Inv, Outputs, SuccessIsJoined
<1>. QED
  BY <1>1, RetryInvariance, PTL

(* A manifest that boot_attempts_join accepts stands, also after kills and
   failed invocations, beside the durable receipt of the boot it selects. *)
THEOREM AcceptedSelected == Spec => []AcceptedIsSelected
<1>1. ASSUME Inv, manifest # None, BootAttemptsJoin(manifest)
      PROVE  EvidenceOf(manifest.of, manifest.selected)
  <2>1. manifest.selected # NoSelection
    BY <1>1, RetryAssumption DEF BootAttemptsJoin, NoSelection
  <2>. QED
    BY <1>1, <2>1 DEF Inv, Outputs
<1>2. Inv => AcceptedIsSelected
  BY <1>1 DEF AcceptedIsSelected, EvidenceOf
<1>. QED
  BY <1>2, RetryInvariance, PTL

(* A manifest that selects no boot stands beside no evidence. *)
THEOREM NothingStale == Spec => []NoStaleEvidence
<1>1. Inv => NoStaleEvidence
  BY DEF Inv, Outputs, NoStaleEvidence
<1>. QED
  BY <1>1, RetryInvariance, PTL

(* What is known of a boot that was followed by another. *)
LEMMA FollowedBoot ==
  ASSUME Inv, NEW k \in 1..Len(truth), k < attempt
  PROVE  truth[k].probe # "synced" /\ truth[k].rejected \in {None, Polls}
<1>1. Recorded(k)
  BY DEF Inv, Attempts, RetryTypeOK
<1>. QED
  BY <1>1 DEF Recorded

(* No boot whose receipt was durable is followed by another one. *)
THEOREM ReceiptNeverRetried == Spec => []CompletedReceiptNeverRetried
<1>1. Inv => CompletedReceiptNeverRetried
  BY FollowedBoot DEF CompletedReceiptNeverRetried
<1>. QED
  BY <1>1, RetryInvariance, PTL

(* A boot that the firmware rejected is followed by another one only when the
   rejection came during the last poll, whatever the number of polls. *)
THEOREM RejectionRetriedLate == Spec => []RejectionRetriedOnlyLate
<1>1. Inv => RejectionRetriedOnlyLate
  BY FollowedBoot DEF RejectionRetriedOnlyLate
<1>. QED
  BY <1>1, RetryInvariance, PTL

-----------------------------------------------------------------------------
(* The wrapper implements BoundedRetry. *)

Outcomes == [k \in 1..Len(records) |-> OutcomeOf(records[k])]
OutcomeSet == {"receipt", "silent", "failed"}

LEMMA OutcomesType ==
  ASSUME Inv
  PROVE  /\ Outcomes \in Seq(OutcomeSet) /\ Len(Outcomes) = Len(records)
         /\ \A k \in 1..Len(records) : Outcomes[k] = OutcomeOf(records[k])
<1>1. Len(records) \in Nat
  BY DEF Inv, RetryTypeOK
<1>2. \A k \in 1..Len(records) : OutcomeOf(records[k]) \in OutcomeSet
  BY DEF OutcomeOf, OutcomeSet
<1>3. Outcomes \in [1..Len(records) -> OutcomeSet]
  BY <1>2 DEF Outcomes
<1>. QED
  BY <1>1, <1>3 DEF Outcomes

(* A boot that another may follow was silent. *)
LEMMA SilentSoFar ==
  ASSUME Inv, NEW k \in 1..Len(records), k < attempt
  PROVE  Outcomes[k] = "silent"
<1>1. Recorded(k) /\ records[k] \in Record
  BY ElementOfSeq DEF Inv, Attempts, RetryTypeOK
<1>2. Eligible(records[k].exit_status, records[k].guest_receipt_present)
  BY <1>1, Zenon DEF Recorded
<1>3. records[k].exit_status # Ok
  BY <1>2 DEF Eligible, Ok, TimedOut
<1>. QED
  BY <1>2, <1>3, OutcomesType DEF OutcomeOf

(* A step that leaves the records and whether it ended alone is no step. *)
LEMMA Stutters ==
  ASSUME UNCHANGED records, Verdict' = Verdict
  PROVE  UNCHANGED Abstract!retryPromise
  BY DEF Abstract!retryPromise

LEMMA PromiseStep ==
  Inv /\ Inv' /\ [Next]_vars =>
    [Abstract!Step]_(Abstract!retryPromise)
<1> SUFFICES ASSUME Inv, Inv', [Next]_vars
             PROVE  Abstract!Step \/ UNCHANGED Abstract!retryPromise
  OBVIOUS
<1>1. CASE Begin
  <2>1. Outcomes' = <<>> /\ Verdict' = "none"
    BY <1>1 DEF Begin, Outcomes, Verdict
  <2>. QED
    BY <2>1 DEF Outcomes, Abstract!Step, Abstract!Again
<1>2. CASE BeginFails
  <2>1. Outcomes' = <<>> /\ Verdict' = "refused"
    BY <1>2 DEF BeginFails, Exits, Outcomes, Verdict, Failed, Ok
  <2>. QED
    BY <2>1 DEF Outcomes, Abstract!Step, Abstract!Again
<1>3. CASE Running
  BY <1>3, Stutters DEF Running, retryVars, Verdict
<1>4. CASE CopyDisk \/ Promote \/ TryAgain
  BY <1>4, Stutters DEF CopyDisk, Promote, TryAgain, Verdict
<1>5. CASE CopyFails \/ Cancel
  <2>1. UNCHANGED records /\ Verdict = "none" /\ Verdict' = "refused"
    BY <1>5 DEF CopyFails, Cancel, Exits, Verdict, Failed, Ok
  <2>. QED
    BY <2>1 DEF Abstract!Step, Abstract!Refuse
<1>6. CASE RecordAttempt
  <2>1. Verdict = "none" /\ Verdict' = "none" /\ retry = "run"
    BY <1>6 DEF RecordAttempt, Verdict
  <2>2. /\ Len(records) + 1 = attempt /\ attempt \in 1..MaxAttempts
        /\ Len(records) \in Nat /\ Len(records') = attempt
        /\ \A k \in 1..Len(records) : records'[k] = records[k]
    BY <1>6, <2>1, Appended DEF Inv, Attempts, RetryTypeOK
  <2>3. /\ Outcomes \in Seq(OutcomeSet) /\ Len(Outcomes) = Len(records)
        /\ \A k \in 1..Len(records) : Outcomes[k] = OutcomeOf(records[k])
    BY OutcomesType
  <2> DEFINE last == OutcomeOf(records'[attempt])
  <2>4. last \in OutcomeSet
    BY DEF OutcomeOf, OutcomeSet
  <2>5. Outcomes' = Append(Outcomes, last)
    <3>1. /\ Outcomes' \in Seq(OutcomeSet) /\ Len(Outcomes') = attempt
          /\ \A k \in 1..attempt : Outcomes'[k] = OutcomeOf(records'[k])
      <4>1. \A k \in 1..attempt : OutcomeOf(records'[k]) \in OutcomeSet
        BY DEF OutcomeOf, OutcomeSet
      <4>2. Outcomes' = [k \in 1..attempt |-> OutcomeOf(records'[k])]
        BY <2>2 DEF Outcomes, OutcomeOf
      <4>. QED
        BY <2>2, <4>1, <4>2
    <3>2. /\ Append(Outcomes, last) \in Seq(OutcomeSet)
          /\ Len(Append(Outcomes, last)) = attempt
          /\ \A k \in 1..Len(Outcomes) :
               Append(Outcomes, last)[k] = Outcomes[k]
          /\ Append(Outcomes, last)[attempt] = last
      BY <2>2, <2>3, <2>4, AppendProperties
    <3>3. \A k \in 1..attempt : Outcomes'[k] = Append(Outcomes, last)[k]
      BY <2>2, <2>3, <3>1, <3>2
    <3>. QED
      BY <3>1, <3>2, <3>3, SeqEqual
  <2>6. \A k \in 1..Len(Outcomes) : Outcomes[k] = "silent"
    BY <2>2, <2>3, SilentSoFar
  <2>7. Len(Outcomes) < MaxAttempts
    <3> HIDE DEF last
    <3>. QED
      BY <2>2, <2>3, RetryAssumption
  <2>8. Abstract!MayBoot
    BY <2>6, <2>7 DEF Outcomes, Abstract!MayBoot
  <2>9. \E o \in OutcomeSet : Outcomes' = Append(Outcomes, o)
    BY <2>4, <2>5, Zenon
  <2>10. Abstract!Boot
    BY <2>1, <2>8, <2>9 DEF Outcomes, OutcomeSet, Abstract!Boot
  <2>. QED
    BY <2>10 DEF Abstract!Step
<1>7. CASE WriteSelected
  <2>1. /\ UNCHANGED records /\ Verdict = "none" /\ Verdict' = "accepted"
        /\ retry = "manifest"
    BY <1>7 DEF WriteSelected, Exits, Verdict
  <2>2. Len(records) = attempt /\ attempt \in 1..MaxAttempts /\ Delivered
    BY <2>1, RetryAssumption
    DEF Inv, Attempts, Outputs, RetryTypeOK, InFlight
  <2>3. /\ Outcomes[Len(Outcomes)] = "receipt" /\ Outcomes # <<>>
        /\ Outcomes' = Outcomes
    BY <2>1, <2>2, OutcomesType DEF Delivered, Last, OutcomeOf, Outcomes
  <2>. QED
    BY <2>1, <2>3 DEF Outcomes, Abstract!Step, Abstract!Accept
<1>8. CASE GiveUp
  <2>1. UNCHANGED records /\ Verdict = "none" /\ Verdict' = "refused"
    BY <1>8 DEF GiveUp, Exits, Verdict, Failed, Ok
  <2>. QED
    BY <2>1 DEF Abstract!Step, Abstract!Refuse
<1>9. CASE UNCHANGED vars
  BY <1>9, Stutters DEF vars, retryVars, Verdict
<1>. QED
  BY <1>1, <1>2, <1>3, <1>4, <1>5, <1>6, <1>7, <1>8, <1>9 DEF Next, Wrapper

(* The wrapper is a bounded retry: it boots again only after silent boots, at
   most MaxAttempts times, and accepts only a boot that delivered a receipt;
   what the machine does in between are steps the promise does not see. *)
THEOREM Refinement == Spec => KeepsPromise
<1>1. Init => Abstract!Start
  <2> SUFFICES ASSUME Init PROVE Abstract!Start
    OBVIOUS
  <2>1. Outcomes = <<>> /\ Verdict = "none"
    BY DEF Init, Outcomes, Verdict
  <2>. QED
    BY <2>1 DEF Outcomes, Abstract!Start
<1>. QED
  BY <1>1, PromiseStep, RetryInvariance, PTL
  DEF Spec, KeepsPromise, Abstract!Promise

=============================================================================
