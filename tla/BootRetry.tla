------------------------------ MODULE BootRetry ------------------------------
(***************************************************************************)
(* run_fedora_sealed_retry.sh around BootRun: it boots a disposable copy   *)
(* of the disk, boots a second one when the first timed out and left no    *)
(* receipt, keeps a record of every attempt, promotes the evidence of the  *)
(* attempt it selects and writes a manifest that                            *)
(* validate_fedora_pcr12_addon.py's boot_attempts_join reads.              *)
(* The script may be killed at any point and started again on the same     *)
(* output directory.                                                       *)
(***************************************************************************)
EXTENDS BootRun, Sequences

CONSTANTS
  MaxAttempts,    (* max_attempts, 2 in the script                         *)
  MaxInvocations  (* bound: invocations on one output directory            *)

ASSUME RetryAssumption ==
  MaxAttempts \in Nat \ {0} /\ MaxInvocations \in Nat

VARIABLES
  retry,       (* where the wrapper is                                     *)
  invocation,  (* how often it was started                                 *)
  attempt,     (* the loop variable                                        *)
  records,     (* $records: one line per attempt that ended                *)
  promoted,    (* $output/guest-evidence.json: its `success`, and, for the *)
               (* properties only, whose it is and what the guest had      *)
  manifest,    (* $output/boot-attempts.json                               *)
  exit,        (* exit status of the last invocation                       *)
  truth        (* what really happened in each recorded attempt            *)

retryVars == <<retry, invocation, attempt, records, promoted, manifest, exit,
               truth>>
vars == <<runVars, retryVars>>

NoSelection == 0

Record == [attempt : 1..MaxAttempts, exit_status : Statuses,
           guest_receipt_present : BOOLEAN, retry_eligible : BOOLEAN]
Evidence == [invocation : 1..MaxInvocations, attempt : 1..MaxAttempts,
             success : BOOLEAN, guest : BOOLEAN \union {None},
             synced : BOOLEAN]
Manifest == [of : 1..MaxInvocations, selected : 0..MaxAttempts,
             attempts : Seq(Record)]
Truth == [probe : Probes, rejected : 0..Polls \union {None}]

ASSUME NoFileAssumption == None \notin Evidence \union Manifest

RetryTypeOK ==
  /\ RunTypeOK
  /\ retry \in {"idle", "copy", "run", "decide", "manifest", "exited"}
  /\ invocation \in 0..MaxInvocations
  /\ attempt \in 0..MaxAttempts
  /\ records \in Seq(Record) /\ Len(records) <= MaxAttempts
  /\ promoted \in Evidence \union {None}
  /\ manifest \in Manifest \union {None}
  /\ exit \in Statuses
  /\ truth \in Seq(Truth) /\ Len(truth) = Len(records)

Init ==
  /\ RunInit
  /\ retry = "idle" /\ invocation = 0 /\ attempt = 0
  /\ records = <<>> /\ promoted = None /\ manifest = None
  /\ exit = Failed /\ truth = <<>>

(* Mutant: the manifest of the earlier invocation is not removed. *)
BeginKeepingManifest ==
  /\ retry \in {"idle", "exited"} /\ invocation < MaxInvocations
  /\ invocation' = invocation + 1
  /\ attempt' = 1
  /\ records' = <<>> /\ truth' = <<>>
  /\ promoted' = None
  /\ exit' = Failed
  /\ retry' = "copy"
  /\ UNCHANGED <<runVars, manifest>>

(* Mutant: the receipt of the earlier invocation is not removed. *)
BeginKeepingReceipt ==
  /\ retry \in {"idle", "exited"} /\ invocation < MaxInvocations
  /\ invocation' = invocation + 1
  /\ attempt' = 1
  /\ records' = <<>> /\ truth' = <<>>
  /\ manifest' = None
  /\ exit' = Failed
  /\ retry' = "copy"
  /\ UNCHANGED <<runVars, promoted>>

(* The outputs of an earlier invocation are removed. *)
Begin ==
  /\ retry \in {"idle", "exited"} /\ invocation < MaxInvocations
  /\ invocation' = invocation + 1
  /\ attempt' = 1
  /\ records' = <<>> /\ truth' = <<>>
  /\ promoted' = None /\ manifest' = None
  /\ exit' = Failed
  /\ retry' = "copy"
  /\ UNCHANGED runVars

Exits(status) == retry' = "exited" /\ exit' = status

(* Hashing the disk comes before the clean-up: when it fails, the outputs of
   the earlier invocation are still there. *)
BeginFails ==
  /\ retry \in {"idle", "exited"} /\ invocation < MaxInvocations
  /\ invocation' = invocation + 1
  /\ attempt' = 0
  /\ records' = <<>> /\ truth' = <<>>
  /\ Exits(Failed)
  /\ UNCHANGED <<runVars, promoted, manifest>>

(* The copy fails or differs from the disk that was hashed: no manifest. *)
CopyFails ==
  /\ retry = "copy"
  /\ Exits(Failed)
  /\ UNCHANGED <<runVars, invocation, attempt, records, promoted, manifest,
                 truth>>

CopyDisk ==
  /\ retry = "copy"
  /\ StartRun
  /\ retry' = "run"
  /\ UNCHANGED <<invocation, attempt, records, promoted, manifest, exit,
                 truth>>

Running == retry = "run" /\ RunNext /\ UNCHANGED retryVars

(* Mutant: a time-out is retried whether or not it left a receipt. *)
EligibleOnTimeOut(status, present) == status = TimedOut

Eligible(status, present) == status = TimedOut /\ ~present

(* Mutant: `>` for `>>`, each record replaces the one before. *)
RecordLastAttempt ==
  /\ retry = "run" /\ runner = "exited"
  /\ LET present == evidence # None IN
       records' = <<[attempt |-> attempt, exit_status |-> rc,
                     guest_receipt_present |-> present,
                     retry_eligible |-> Eligible(rc, present)]>>
  /\ truth' = <<[probe |-> probe, rejected |-> rejected]>>
  /\ retry' = "decide"
  /\ UNCHANGED <<runVars, invocation, attempt, promoted, manifest, exit>>

RecordAttempt ==
  /\ retry = "run" /\ runner = "exited"
  /\ LET present == evidence # None IN
       records' = Append(records,
                    [attempt |-> attempt, exit_status |-> rc,
                     guest_receipt_present |-> present,
                     retry_eligible |-> Eligible(rc, present)])
  /\ truth' = Append(truth, [probe |-> probe, rejected |-> rejected])
  /\ retry' = "decide"
  /\ UNCHANGED <<runVars, invocation, attempt, promoted, manifest, exit>>

Last == records[Len(records)]

Delivered == Last.exit_status = Ok /\ Last.guest_receipt_present

Promote ==
  /\ retry = "decide" /\ Delivered
  /\ promoted' = [invocation |-> invocation, attempt |-> attempt,
                  success |-> evidence, guest |-> receipt,
                  synced |-> probe = "synced"]
  /\ retry' = "manifest"
  /\ UNCHANGED <<runVars, invocation, attempt, records, manifest, exit, truth>>

WriteManifest(selected) ==
  manifest' = [of |-> invocation, selected |-> selected, attempts |-> records]

WriteSelected ==
  /\ retry = "manifest"
  /\ WriteManifest(attempt)
  /\ Exits(Ok)
  /\ UNCHANGED <<runVars, invocation, attempt, records, promoted, truth>>

(* Mutant: the bound is not looked at. *)
MayRetryForEver == Last.retry_eligible

(* Mutant: every failure is retried. *)
MayRetryAnything == attempt < MaxAttempts

MayRetry == Last.retry_eligible /\ attempt < MaxAttempts

GiveUp ==
  /\ retry = "decide" /\ ~Delivered /\ ~MayRetry
  /\ WriteManifest(NoSelection)
  /\ Exits(IF Last.exit_status = Ok THEN Failed ELSE Last.exit_status)
  /\ UNCHANGED <<runVars, invocation, attempt, records, promoted, truth>>

TryAgain ==
  /\ retry = "decide" /\ ~Delivered /\ MayRetry
  /\ attempt' = attempt + 1
  /\ retry' = "copy"
  /\ UNCHANGED <<runVars, invocation, records, promoted, manifest, exit,
                 truth>>

(* The job is cancelled: the wrapper, the runner and QEMU are killed. *)
Cancel ==
  /\ retry \in {"copy", "run", "decide", "manifest"}
  /\ Exits(Failed)
  /\ runner' = "off" /\ rc' = Ok /\ polls' = 0
  /\ qemu' = "off" /\ qemuRc' = Ok
  /\ guest' = "off" /\ rejected' = None
  /\ receipt' = None /\ probe' = "empty" /\ evidence' = None
  /\ UNCHANGED <<invocation, attempt, records, promoted, manifest, truth>>

Wrapper == CopyDisk \/ CopyFails \/ RecordAttempt \/ Promote \/ WriteSelected
           \/ GiveUp \/ TryAgain

Next == Begin \/ BeginFails \/ Running \/ Wrapper \/ Cancel

Spec == Init /\ [][Next]_vars

(* Fairness: the two scripts run their next command, timeout(1) ends QEMU. *)
FairSpec ==
  /\ Spec
  /\ WF_vars(Wrapper)
  /\ WF_vars(Running /\ Runner)
  /\ WF_vars(Running /\ TimeLimit)

-----------------------------------------------------------------------------
(* boot_attempts_join of validate_fedora_pcr12_addon.py; the hashes it also
   compares are those CopyFails stands for. *)
BootAttemptsJoin(m) ==
  /\ m.selected \in 1..MaxAttempts
  /\ Len(m.attempts) = m.selected
  /\ \A k \in 1..m.selected :
       LET a == m.attempts[k] IN
       /\ a.attempt = k
       /\ IF k = m.selected
            THEN /\ a.exit_status = Ok
                 /\ a.guest_receipt_present /\ ~a.retry_eligible
            ELSE /\ a.exit_status = TimedOut
                 /\ ~a.guest_receipt_present /\ a.retry_eligible

-----------------------------------------------------------------------------
(* Properties. *)

(* A zero exit leaves a manifest that the validator's join accepts. *)
SuccessIsJoined ==
  retry = "exited" /\ exit = Ok =>
    manifest # None /\ BootAttemptsJoin(manifest)

(* A manifest the join accepts stands beside the evidence of the very attempt
   and invocation it selects, whatever was killed in between, and that evidence
   is the receipt the guest had made durable. *)
AcceptedIsSelected ==
  manifest # None /\ BootAttemptsJoin(manifest) =>
    /\ promoted # None
    /\ promoted.invocation = manifest.of
    /\ promoted.attempt = manifest.selected
    /\ promoted.synced /\ promoted.success = promoted.guest

(* A manifest that selects nothing stands beside no evidence. *)
NoStaleEvidence ==
  manifest # None /\ manifest.selected = NoSelection => promoted = None

(* No completed receipt is discarded in favour of another boot. *)
CompletedReceiptNeverRetried ==
  \A k \in 1..Len(truth) : k < attempt => truth[k].probe # "synced"

(* A boot that the firmware rejected is followed by another one at most when
   the rejection came after the last look at the serial log. *)
RejectionRetriedOnlyLate ==
  \A k \in 1..Len(truth) : k < attempt => truth[k].rejected \in {None, Polls}

(* FEDORA_PCR12_ADDON_CANARY.md: a firmware rejection is never retried. *)
RejectionNeverRetried ==
  \A k \in 1..Len(truth) : k < attempt => truth[k].rejected = None

(* The outcome of each attempt as the abstract specification names it. *)
OutcomeOf(r) ==
  IF r.exit_status = Ok /\ r.guest_receipt_present THEN "receipt"
  ELSE IF Eligible(r.exit_status, r.guest_receipt_present) THEN "silent"
  ELSE "failed"

Verdict ==
  IF retry # "exited" THEN "none"
  ELSE IF exit = Ok THEN "accepted" ELSE "refused"

Abstract == INSTANCE BoundedRetry WITH
              outcomes <- [k \in 1..Len(records) |-> OutcomeOf(records[k])],
              verdict <- Verdict

(* The wrapper keeps the promise of BoundedRetry. *)
KeepsPromise == Abstract!Promise

(* An invocation ends, whatever the guest does. *)
InvocationEnds ==
  retry \in {"copy", "run", "decide", "manifest"} ~> retry = "exited"

=============================================================================
