------------------------------- MODULE BootRun -------------------------------
(***************************************************************************)
(* One boot of an image under QEMU: run_fedora_sealed_positive_control.sh  *)
(* on the host, QEMU under timeout(1), the firmware that may refuse a      *)
(* binary on the serial console, and the probe that the booted guest runs. *)
(*                                                                         *)
(* The host looks at the serial log once per poll and learns of the guest  *)
(* only from QEMU's exit status and from the receipt it finds on the probe *)
(* disk afterwards.  Polls stands for the 108 polls of ten seconds that    *)
(* fit in the 18 minutes of `timeout`.                                     *)
(***************************************************************************)
EXTENDS Naturals

CONSTANTS
  Polls,  (* the poll during which the time limit expires                  *)
  None    (* no file                                                       *)

ASSUME PollsAssumption == Polls \in Nat \ {0} /\ None \notin BOOLEAN

VARIABLES
  runner,    (* where the host script is                                   *)
  rc,        (* its exit status                                            *)
  polls,     (* polls begun                                                *)
  qemu,      (* "off", "running" or "exited"                               *)
  qemuRc,    (* the status `wait` will return                              *)
  guest,     (* what the machine executes                                  *)
  rejected,  (* the poll during which the firmware wrote a rejection line, *)
             (* or None                                                    *)
  receipt,   (* `success` of the receipt the guest has composed            *)
  probe,     (* how far the receipt has got on the probe disk              *)
  evidence   (* $output/guest-evidence.json: the receipt extracted         *)

runnerVars == <<runner, rc, polls, evidence>>
guestVars == <<guest, rejected, receipt, probe>>
runVars == <<runnerVars, qemu, qemuRc, guestVars>>

(* The exit statuses the scripts tell apart. *)
Ok == 0
Failed == 1
Rejected == 80
TimedOut == 124
Statuses == {Ok, Failed, Rejected, TimedOut}

Probes == {"empty", "renamed", "synced"}

RunTypeOK ==
  /\ runner \in {"off", "swtpm", "launch", "test", "sleep", "extract",
                 "check", "exited"}
  /\ rc \in Statuses
  /\ polls \in 0..Polls
  /\ qemu \in {"off", "running", "exited"}
  /\ qemuRc \in {Ok, Failed, TimedOut}
  /\ guest \in {"off", "firmware", "collect", "write", "rename", "sync",
                "poweroff"}
  /\ rejected \in 0..Polls \union {None}
  /\ receipt \in BOOLEAN \union {None}
  /\ probe \in Probes
  /\ evidence \in BOOLEAN \union {None}

(* A run starts in a directory of its own. *)
RunInit ==
  /\ runner = "off" /\ rc = Ok /\ polls = 0
  /\ qemu = "off" /\ qemuRc = Ok
  /\ guest = "off" /\ rejected = None
  /\ receipt = None /\ probe = "empty" /\ evidence = None

StartRun ==
  /\ runner' = "swtpm" /\ rc' = Ok /\ polls' = 0
  /\ qemu' = "off" /\ qemuRc' = Ok
  /\ guest' = "off" /\ rejected' = None
  /\ receipt' = None /\ probe' = "empty" /\ evidence' = None

-----------------------------------------------------------------------------
(* The host. *)

ExitWith(status) == runner' = "exited" /\ rc' = status

(* A missing tool, a failed copy, or a socket that 50 looks did not find. *)
PrepareFails ==
  /\ runner = "swtpm"
  /\ ExitWith(Failed)
  /\ UNCHANGED <<polls, evidence, qemu, qemuRc, guestVars>>

StartTpm ==
  /\ runner = "swtpm"
  /\ runner' = "launch"
  /\ UNCHANGED <<rc, polls, evidence, qemu, qemuRc, guestVars>>

LaunchQemu ==
  /\ runner = "launch"
  /\ qemu' = "running" /\ guest' = "firmware"
  /\ runner' = "test"
  /\ UNCHANGED <<rc, polls, evidence, qemuRc, rejected, receipt, probe>>

(* Mutant: QEMU has exited, is not reaped and still answers `kill -0`. *)
TestLaunched ==
  /\ runner = "test"
  /\ IF qemu # "off"
       THEN /\ runner' = "sleep"
            /\ polls' = IF polls < Polls THEN polls + 1 ELSE polls
       ELSE runner' = "extract" /\ UNCHANGED polls
  /\ UNCHANGED <<rc, evidence, qemu, qemuRc, guestVars>>

(* `while kill -0 "$qemu_pid"`: one more poll, or wait for the status. *)
TestAlive ==
  /\ runner = "test"
  /\ IF qemu = "running"
       THEN /\ runner' = "sleep"
            /\ polls' = IF polls < Polls THEN polls + 1 ELSE polls
       ELSE runner' = "extract" /\ UNCHANGED polls
  /\ UNCHANGED <<rc, evidence, qemu, qemuRc, guestVars>>

(* Mutant: the serial log is only read when QEMU has gone. *)
SleepOnly ==
  /\ runner = "sleep"
  /\ runner' = "test"
  /\ UNCHANGED <<rc, qemu, guest, polls, evidence, qemuRc, rejected, receipt,
                 probe>>

(* The sleep is over and the serial log is searched; a rejection ends the run
   and QEMU with it. *)
GrepSerial ==
  /\ runner = "sleep"
  /\ IF rejected # None
       THEN ExitWith(Rejected) /\ qemu' = "exited" /\ guest' = "off"
       ELSE runner' = "test" /\ UNCHANGED <<rc, qemu, guest>>
  /\ UNCHANGED <<polls, evidence, qemuRc, rejected, receipt, probe>>

(* debugfs finds what a sync has put in place; of a rename that was not synced
   it finds the old or the new directory. *)
Extractable ==
  CASE probe = "synced"  -> {receipt}
    [] probe = "renamed" -> {receipt, None}
    [] probe = "empty"   -> {None}

Extract ==
  /\ runner = "extract"
  /\ evidence' \in Extractable
  /\ IF qemuRc # Ok         THEN ExitWith(qemuRc)
     ELSE IF evidence' = None THEN ExitWith(Failed)
     ELSE runner' = "check" /\ UNCHANGED rc
  /\ UNCHANGED <<polls, qemu, qemuRc, guestVars>>

(* qemu-img check gives the script its status. *)
CheckDisk ==
  /\ runner = "check"
  /\ \E status \in {Ok, Failed} : ExitWith(status)
  /\ UNCHANGED <<polls, evidence, qemu, qemuRc, guestVars>>

Runner == PrepareFails \/ StartTpm \/ LaunchQemu \/ TestAlive \/ GrepSerial
          \/ Extract \/ CheckDisk

-----------------------------------------------------------------------------
(* QEMU and timeout(1). *)

QemuExits(status) ==
  /\ qemu = "running"
  /\ qemu' = "exited" /\ qemuRc' = status /\ guest' = "off"
  /\ UNCHANGED <<runnerVars, rejected, receipt>>

TimeLimit == polls = Polls /\ QemuExits(TimedOut) /\ UNCHANGED probe

QemuCrashes == QemuExits(Failed) /\ UNCHANGED probe

-----------------------------------------------------------------------------
(* The machine: firmware, then the probe's write_result and its poweroff. *)

(* The firmware goes on with its next boot entry after a rejection. *)
FirmwareRejects ==
  /\ guest = "firmware" /\ rejected = None
  /\ rejected' = polls
  /\ UNCHANGED <<runnerVars, qemu, qemuRc, guest, receipt, probe>>

FirmwareBoots ==
  /\ guest = "firmware"
  /\ guest' = "collect"
  /\ UNCHANGED <<runnerVars, qemu, qemuRc, rejected, receipt, probe>>

(* An exception while collecting becomes a receipt with success = FALSE. *)
Collect ==
  /\ guest = "collect"
  /\ receipt' \in BOOLEAN
  /\ guest' = "write"
  /\ UNCHANGED <<runnerVars, qemu, qemuRc, rejected, probe>>

(* The temporary file is written and synced before it gets its name. *)
WriteTemporary ==
  /\ guest = "write"
  /\ guest' = "rename"
  /\ UNCHANGED <<runnerVars, qemu, qemuRc, rejected, receipt, probe>>

RenameReceipt ==
  /\ guest = "rename"
  /\ probe' = "renamed" /\ guest' = "sync"
  /\ UNCHANGED <<runnerVars, qemu, qemuRc, rejected, receipt>>

SyncReceipt ==
  /\ guest = "sync"
  /\ probe' = "synced" /\ guest' = "poweroff"
  /\ UNCHANGED <<runnerVars, qemu, qemuRc, rejected, receipt>>

(* `finally`: the machine is powered off also when no receipt could be written.
   An orderly poweroff unmounts the probe disk. *)
Poweroff ==
  /\ guest \in {"write", "rename", "sync", "poweroff"}
  /\ QemuExits(Ok)
  /\ probe' = IF probe = "empty" THEN "empty" ELSE "synced"

Guest == FirmwareRejects \/ FirmwareBoots \/ Collect \/ WriteTemporary
         \/ RenameReceipt \/ SyncReceipt \/ Poweroff

RunNext == Runner \/ TimeLimit \/ QemuCrashes \/ Guest

(* Fairness: the script runs its next command, and timeout(1) ends QEMU. *)
RunFairness == WF_runVars(Runner) /\ WF_runVars(TimeLimit)

=============================================================================
