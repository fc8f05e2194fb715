----------------------------- MODULE BootCanary -----------------------------
(***************************************************************************)
(* The booted-image canary: attestos-boot-evidence-canary and its unit in  *)
(* the guest, run_booted_image_canary.sh and                               *)
(* validate_booted_image_receipt.py on the host.                           *)
(*                                                                         *)
(* The guest's only way to the host is a line on the serial port, which    *)
(* the kernel writes to as well.  Two time limits run that know nothing of *)
(* each other: the unit's TimeoutStartSec= and timeout(1) around QEMU.     *)
(* Time is counted in units of 30 seconds: a call takes any number of them *)
(* up to its limit, and what lies between the calls takes none.            *)
(***************************************************************************)
EXTENDS Naturals, Sequences

CONSTANTS
  Machines,   (* the guests considered                        *)
  UnitLimit,  (* TimeoutStartSec=5min                         *)
  MaxResets,  (* bound: resets of the machine during the run  *)
  None        (* no receipt, no verdict                       *)

(* The guest: when its TPM device appears; whether the provisioner succeeds,
   the agent's quote verifies, there is a firmware log and EFI; what bootc says;
   whether the serial port can be written, and whether it is the console. *)
Guests ==
  [tpm : {"early", "late", "never"}, provisions : BOOLEAN, quotes : BOOLEAN,
   log : BOOLEAN, efi : BOOLEAN, bootc : {"booted", "unbooted", "fails"},
   port : BOOLEAN, console : BOOLEAN]

(* collect, in order, and the time limit of each step. *)
Calls == <<"tpm", "active", "ek", "ak", "identity", "quote", "checkquote",
           "bootc", "write">>
Limit == [tpm |-> 3, active |-> 1, ek |-> 1, ak |-> 1, identity |-> 2,
          quote |-> 2, checkquote |-> 1, bootc |-> 1]

(* `success` is FALSE for the receipt of an unhandled error, whatever the other
   fields say. *)
Receipts ==
  [boot : Nat, device : BOOLEAN, active : BOOLEAN, ek : BOOLEAN, ak : BOOLEAN,
   quote : BOOLEAN, log : BOOLEAN, deployment : BOOLEAN, efi : BOOLEAN,
   unhandled : BOOLEAN, success : BOOLEAN]

ASSUME BootCanaryAssumption ==
  /\ Machines \subseteq Guests
  /\ UnitLimit \in Nat \ {0} /\ MaxResets \in Nat
  /\ None \notin Receipts /\ None \notin {"accepted", "rejected"}

VARIABLES
  machine,   (* the guest: never changes                                   *)
  boots,     (* the provisioner's outcome in each boot so far              *)
  keys,      (* the keys are in the TPM and the files on the disk          *)
  unit,      (* of the canary: "waiting", "running", "done", "killed" or   *)
             (* "dependency": its requirement failed                       *)
  call,      (* the position in Calls it is at                             *)
  spent,     (* the time it has used                                       *)
  seen,      (* what it found: a receipt in the making                     *)
  serial,    (* the lines with a marker: a receipt, or None if garbled     *)
  qemu,      (* "running", "off" (status 0), "limit" (124) or "failed"     *)
  verdict,   (* of the host script: None, "accepted" or "rejected"         *)
  troubled   (* history: a step was slow or failed, a line was garbled, the *)
             (* guest reset                                                *)

guestVars == <<boots, keys, unit, call, spent, seen, serial>>
vars == <<machine, guestVars, qemu, verdict, troubled>>

Nothing ==
  [boot |-> Len(boots), device |-> FALSE, active |-> FALSE, ek |-> FALSE,
   ak |-> FALSE, quote |-> FALSE, log |-> FALSE, deployment |-> FALSE,
   efi |-> FALSE, unhandled |-> FALSE, success |-> FALSE]

TypeOK ==
  /\ machine \in Machines
  /\ boots \in Seq({"active", "skipped", "failed"}) /\ keys \in BOOLEAN
  /\ unit \in {"waiting", "running", "done", "killed", "dependency"}
  /\ call \in 1 .. Len(Calls) /\ spent \in 0 .. UnitLimit
  /\ seen \in Receipts \union {None}
  /\ serial \in Seq(Receipts \union {None})
  /\ qemu \in {"running", "off", "limit", "failed"}
  /\ verdict \in {None, "accepted", "rejected"} /\ troubled \in BOOLEAN

Init ==
  /\ machine \in Machines
  /\ boots = <<>> /\ keys = FALSE
  /\ unit = "waiting" /\ call = 1 /\ spent = 0 /\ seen = None /\ serial = <<>>
  /\ qemu = "running" /\ verdict = None /\ troubled = FALSE

Running == qemu = "running" /\ unit = "running"
At(name) == Running /\ Calls[call] = name

-----------------------------------------------------------------------------
(* The guest. *)

(* attestos-provision.service: skipped without a device, which satisfies
   Requires= as success does.  A failure keeps the canary from running. *)
Provision ==
  /\ qemu = "running" /\ unit = "waiting" /\ Len(boots) <= MaxResets
  /\ \/ /\ machine.tpm = "early" /\ machine.provisions
        /\ boots' = Append(boots, "active") /\ keys' = TRUE
        /\ unit' = "running"
     \/ /\ machine.tpm = "early" /\ ~machine.provisions
        /\ boots' = Append(boots, "failed") /\ unit' = "dependency"
        /\ UNCHANGED keys
     \/ /\ machine.tpm # "early"
        /\ boots' = Append(boots, "skipped") /\ unit' = "running"
        /\ UNCHANGED keys
  /\ call' = 1 /\ spent' = 0
  /\ seen' = [Nothing EXCEPT !.boot = Len(boots')]
  /\ UNCHANGED <<machine, serial, qemu, verdict, troubled>>

(* The call takes d of its limit, at the end of which it may be cut off; it may
   also fail before, on any guest. *)
Takes(d, fails) ==
  /\ d <= Limit[Calls[call]]
  /\ spent + d <= UnitLimit /\ spent' = spent + d
  /\ troubled' = (troubled \/ fails \/ d = Limit[Calls[call]])

Goes(next) == call' = CHOOSE n \in 1 .. Len(Calls) : Calls[n] = next

(* The device node is there, appears while the canary polls, or never does. *)
WaitForTpm ==
  /\ At("tpm")
  /\ \E d \in 0 .. 3, cut \in BOOLEAN :
       /\ Takes(d, cut) /\ (cut => d = 3)
       /\ machine.tpm = "never" => cut
       /\ machine.tpm = "early" => d = 0 /\ ~cut
       /\ seen' = [seen EXCEPT !.device = ~cut]
  /\ Goes("active")
  /\ UNCHANGED <<machine, boots, keys, unit, serial, qemu, verdict>>

(* subprocess.run raises at the limit, or when the command cannot be started;
   where nothing catches it, main makes a receipt of failure of it. *)
Unhandled(d) ==
  /\ Takes(d, TRUE)
  /\ seen' = [seen EXCEPT !.unhandled = TRUE]
  /\ Goes("write")

(* systemctl is-active and tpm2_readpublic run with check=False: a status that
   is not 0 reads as `not active` and `not there`, whatever the reason. *)
IsActive ==
  /\ At("active")
  /\ \E d \in 0 .. 1, fails \in BOOLEAN :
       \/ Unhandled(d)
       \/ /\ Takes(d, fails)
          /\ seen' = [seen EXCEPT !.active =
                        boots[Len(boots)] = "active" /\ ~fails]
          /\ Goes(IF seen.device THEN "ek" ELSE "bootc")
  /\ UNCHANGED <<machine, boots, keys, unit, serial, qemu, verdict>>

HandleEk ==
  /\ At("ek")
  /\ \E d \in 0 .. 1, fails \in BOOLEAN :
       \/ Unhandled(d)
       \/ /\ Takes(d, fails) /\ seen' = [seen EXCEPT !.ek = keys /\ ~fails]
          /\ Goes("ak")
  /\ UNCHANGED <<machine, boots, keys, unit, serial, qemu, verdict>>

(* Mutant: the quote is tried without the provisioner and the keys. *)
HandleAkAlways ==
  /\ At("ak")
  /\ \E d \in 0 .. 1, fails \in BOOLEAN :
       \/ Unhandled(d)
       \/ /\ Takes(d, fails) /\ seen' = [seen EXCEPT !.ak = keys /\ ~fails]
          /\ Goes("identity")
  /\ UNCHANGED <<machine, boots, keys, unit, serial, qemu, verdict>>

(* The quote is tried only if everything so far is there. *)
HandleAk ==
  /\ At("ak")
  /\ \E d \in 0 .. 1, fails \in BOOLEAN :
       \/ Unhandled(d)
       \/ /\ Takes(d, fails) /\ seen' = [seen EXCEPT !.ak = keys /\ ~fails]
          /\ Goes(IF seen.active /\ seen.ek /\ seen'.ak THEN "identity"
                  ELSE "bootc")
  /\ UNCHANGED <<machine, boots, keys, unit, serial, qemu, verdict>>

(* quote_self_check: two runs of the agent and tpm2_checkquote.  Whatever goes
   wrong is caught and noted. *)
QuoteSelfCheck ==
  /\ \/ At("identity") \/ At("quote") \/ At("checkquote")
  /\ \E d \in 0 .. 2, fails \in BOOLEAN :
       /\ Takes(d, fails)
       /\ IF fails \/ ~machine.quotes
            THEN Goes("bootc") /\ UNCHANGED seen
            ELSE /\ call' = call + 1
                 /\ seen' = [seen EXCEPT !.quote = At("checkquote")]
  /\ UNCHANGED <<machine, boots, keys, unit, serial, qemu, verdict>>

(* The keys' files are the required state. *)
Success(r) ==
  r.device /\ r.active /\ r.ek /\ r.ak /\ keys /\ r.quote /\ r.log /\ r.deployment

(* The files under /sys, and bootc status: a status that names no booted
   deployment is as available as one that does.  The log may be unreadable, and
   bootc may fail. *)
BootcClaim ==
  /\ At("bootc")
  /\ \E d \in 0 .. 1, fails \in SUBSET {"log", "bootc"} :
       \/ Unhandled(d)
       \/ /\ Takes(d, fails # {})
          /\ LET found == [seen EXCEPT
                !.log = machine.log /\ "log" \notin fails, !.efi = machine.efi,
                !.deployment = machine.bootc # "fails" /\ "bootc" \notin fails]
             IN seen' = [found EXCEPT !.success = Success(found)]
          /\ Goes("write")
  /\ UNCHANGED <<machine, boots, keys, unit, serial, qemu, verdict>>

(* What reaches the log of a line: all of it; the marker and something else
   behind it; or no whole marker. *)
Lines == {<<seen>>, <<None>>, <<>>}

(* Mutant: the receipt is printed in any case. *)
WriteReceiptTwice ==
  /\ At("write")
  /\ \E line \in IF machine.port THEN Lines ELSE {<<None>>, <<>>},
        printed \in IF machine.console THEN Lines ELSE {<<>>} :
       /\ serial' = serial \o line \o printed
       /\ troubled' = (troubled \/ line # <<seen>>)
  /\ unit' = "done"
  /\ UNCHANGED <<machine, boots, keys, call, spent, seen, qemu, verdict>>

(* One line to the port, or, if that fails, to standard output, which is the
   console.  Then the machine is told to power off. *)
WriteReceipt ==
  /\ At("write")
  /\ \/ /\ machine.port
        /\ \E line \in Lines :
             /\ serial' = serial \o line
             /\ troubled' = (troubled \/ line # <<seen>>)
     \/ /\ ~machine.port
        /\ \E written \in {<<None>>, <<>>},
              printed \in IF machine.console THEN Lines ELSE {<<>>} :
             /\ serial' = serial \o written \o printed
             /\ troubled' = (troubled \/ written \o printed # <<seen>>)
  /\ unit' = "done"
  /\ UNCHANGED <<machine, boots, keys, call, spent, seen, qemu, verdict>>

(* TimeoutStartSec= is over while a call has some of its own limit left.  The
   unit fails, and nothing powers the machine off. *)
UnitTimeout ==
  /\ Running
  /\ IF At("write") THEN spent = UnitLimit
     ELSE spent + Limit[Calls[call]] >= UnitLimit
  /\ unit' = "killed" /\ troubled' = TRUE
  /\ UNCHANGED <<machine, boots, keys, call, spent, seen, serial, qemu, verdict>>

(* The machine is reset, by its firmware or a panic: another boot. *)
Reset ==
  /\ qemu = "running" /\ unit # "waiting" /\ Len(boots) <= MaxResets
  /\ unit' = "waiting" /\ troubled' = TRUE
  /\ UNCHANGED <<machine, boots, keys, call, spent, seen, serial, qemu, verdict>>

PowerOff ==
  /\ qemu = "running" /\ unit = "done"
  /\ qemu' = "off"
  /\ UNCHANGED <<machine, guestVars, verdict, troubled>>

-----------------------------------------------------------------------------
(* The host. *)

(* Mutant: QEMU runs without a time limit. *)
Unlimited == FALSE /\ UNCHANGED vars

(* timeout 25m: emulation is as slow as it likes to be. *)
HostTimeout ==
  /\ qemu = "running"
  /\ qemu' = "limit" /\ troubled' = TRUE
  /\ UNCHANGED <<machine, guestVars, verdict>>

QemuFails ==
  /\ qemu = "running"
  /\ qemu' = "failed" /\ troubled' = TRUE
  /\ UNCHANGED <<machine, guestVars, verdict>>

(* Mutant: `success` stands for all that a receipt must show. *)
ValidIfSuccess(r) == r.success

(* validate_guest: what success stands for is demanded again, and EFI. *)
ValidGuest(r) ==
  /\ r.success
  /\ r.device /\ r.active /\ r.ek /\ r.ak /\ r.quote
  /\ r.log /\ r.deployment /\ r.efi

(* Status 0, and exactly one marker, with a valid receipt behind it. *)
Judge ==
  /\ qemu # "running" /\ verdict = None
  /\ verdict' = IF /\ qemu = "off" /\ Len(serial) = 1
                   /\ serial[1] # None /\ ValidGuest(serial[1])
                THEN "accepted" ELSE "rejected"
  /\ UNCHANGED <<machine, guestVars, qemu, troubled>>

Guest ==
  \/ Provision \/ WaitForTpm \/ IsActive \/ HandleEk \/ HandleAk
  \/ QuoteSelfCheck \/ BootcClaim \/ WriteReceipt \/ UnitTimeout \/ PowerOff

Next == Guest \/ Reset \/ HostTimeout \/ QemuFails \/ Judge

Spec == Init /\ [][Next]_vars

(* Fairness: timeout(1) fires, and the script goes on when QEMU is gone.  None
   is assumed of the guest. *)
FairSpec == Spec /\ WF_vars(HostTimeout) /\ WF_vars(Judge)

-----------------------------------------------------------------------------
(* Properties. *)

(* What an accepted receipt says was so: the boot that wrote it found its TPM
   in time, provisioned it, made a quote that verified, and had a firmware log
   and EFI. *)
AcceptedIsTrue ==
  verdict = "accepted" =>
    /\ boots[serial[1].boot] = "active" /\ keys
    /\ machine.tpm = "early" /\ machine.quotes /\ machine.log /\ machine.efi
    /\ machine.bootc # "fails"

(* BOOTED_IMAGE_CANARY.md: the canary passes only when `bootc status --json`
   identifies a booted deployment. *)
AcceptedNamesDeployment ==
  verdict = "accepted" => machine.bootc = "booted"

(* TimeoutStartSec= never takes the receipt with it although the limits of the
   calls add up to more: the canary waits for a TPM only where the provisioner
   was skipped, and then it does not try the quote. *)
LimitsSuffice == unit # "killed"

Sound(m) ==
  /\ m.tpm = "early" /\ m.provisions /\ m.quotes /\ m.log /\ m.efi
  /\ m.bootc # "fails" /\ (m.port \/ m.console)

(* A failed canary has a cause: a guest that lacks something, a command that
   failed or used up its time, a garbled line, a reset, or the time limit of the
   host.  The order of the calls and the two time limits are none. *)
FailureExplained == verdict = "rejected" => ~Sound(machine) \/ troubled

(* The host gives its verdict, whatever the guest does. *)
VerdictGiven == <>(verdict # None)

=============================================================================
