------------------------------ MODULE Provision ------------------------------
(***************************************************************************)
(* attestos-provision, the unit that runs it, the TPM it writes keys into, *)
(* the files under /var/lib/attestos it publishes them through, and the    *)
(* agent instances whose `identity` handler reads those files back.        *)
(*                                                                         *)
(* The provisioner is a `set -e` shell script: `pc` names the command it   *)
(* executes next, any command may fail (Fail) or never return (Hang), and  *)
(* power may be lost between any two commands or half way through a copy.  *)
(* A command whose status decides a branch, or that runs in a process      *)
(* substitution, does not end the script when it fails.  Socket            *)
(* activation starts one agent instance per connection; each of them       *)
(* Requires= and is ordered After= the provisioner.                        *)
(***************************************************************************)
EXTENDS Naturals, FiniteSets

CONSTANTS
  Seeds,      (* endorsement seeds a TPM of this machine may carry; an EK  *)
              (* and its certificate are named by the seed they belong to  *)
  Instances,  (* attestos-agent@ instances                                 *)
  Slots,      (* transient object slots of the TPM                         *)
  MaxAk,      (* bound: how many AKs createak may ever make                *)
  None,       (* an empty handle, an absent file, an absent certificate    *)
  Torn        (* a file that does not hold what was last installed: half   *)
              (* written, or an earlier version that resurfaced            *)

ASSUME BoundsAssumption ==
  /\ MaxAk \in Nat
  /\ IsFiniteSet(Slots)
  /\ None \notin Seeds \union Nat
  /\ Torn \notin Seeds \union Nat \union {None}

VARIABLES
  on,        (* the machine is powered                                     *)
  dev,       (* /dev/tpmrm0 exists                                         *)
  seed,      (* the endorsement seed of the TPM                            *)
  ekHandle,  (* what 0x81010001 holds                                      *)
  akHandle,  (* what 0x81010002 holds                                      *)
  nvCert,    (* what NV index 0x01c00002 holds                             *)
  made,      (* AKs made so far: key n is the n-th one                     *)
  managed,   (* commands go through the kernel resource manager            *)
  slot,      (* who loaded each transient object                           *)
  disk,      (* the files under $STATE                                     *)
  written,   (* files installed since power on: nothing calls fsync        *)
  svc,       (* ActiveState of attestos-provision.service                  *)
  pc,        (* the command the provisioner executes next                  *)
  opened,    (* install has unlinked and re-created its destination        *)
  work,      (* the files under $work                                      *)
  before,    (* $work/transient.before                                     *)
  new,       (* new_handles                                                *)
  released,  (* another TPM user released an object since `before`         *)
  unlisted,  (* history: since power on, a new handle was not recognised   *)
             (* because a listing or its comparison failed                 *)
  failed,    (* a provisioning attempt has failed since power on           *)
  inst,      (* where each agent instance is                               *)
  got,       (* what each instance has read so far                         *)
  vouched    (* the instance was started with the provisioner active       *)

keys == <<ekHandle, akHandle, made>>
store == <<disk, written>>
window == <<before, new, released>>
tpmVars == <<seed, ekHandle, akHandle, nvCert, made, managed>>
scriptVars == <<pc, opened, work, before, new>>
instVars == <<inst, got, vouched>>
vars == <<on, dev, tpmVars, slot, disk, written, svc, scriptVars, released,
          unlisted, failed, instVars>>

Files == {"ek.pem", "ak.pem", "ak.name", "ek.crt"}
Aks == 1..MaxAk
Owners == {"free", "prov", "other"}
Content == Seeds \union Aks \union {None, Torn}
NoFiles == [f \in Files |-> None]

ScriptPoints == {"idle", "ekProbe", "ekMake", "ekRead", "akProbe", "before",
                 "akMake", "after", "evict", "recheck", "flush", "akRead",
                 "cert", "ready", "hung"} \union Files

(* The transient objects `tpm2_getcap handles-transient` reports.  Behind
   the resource manager every connection has a space of its own, emptied when
   the command that opened it ends. *)
Listed == IF managed THEN {} ELSE {h \in Slots : slot[h] # "free"}

TypeOK ==
  /\ on \in BOOLEAN /\ dev \in BOOLEAN /\ managed \in BOOLEAN
  /\ seed \in Seeds
  /\ ekHandle \in Seeds \union {None}
  /\ akHandle \in Aks \union {None}
  /\ nvCert \in Seeds \union {None}
  /\ made \in 0..MaxAk
  /\ slot \in [Slots -> Owners]
  /\ disk \in [Files -> Content] /\ written \subseteq Files
  /\ svc \in {"inactive", "activating", "active", "failed"}
  /\ pc \in ScriptPoints /\ opened \in BOOLEAN
  /\ work \in [Files -> Content]
  /\ before \subseteq Slots /\ new \subseteq Slots
  /\ released \in BOOLEAN /\ unlisted \in BOOLEAN /\ failed \in BOOLEAN
  /\ inst \in [Instances -> {"idle", "waiting", "answered"} \union Files]
  /\ got \in [Instances -> [Files -> Content]]
  /\ vouched \in [Instances -> BOOLEAN]

Init ==
  /\ on = FALSE /\ dev = FALSE
  /\ seed \in Seeds /\ nvCert \in {None, seed}
  /\ ekHandle = None /\ akHandle = None /\ made = 0
  /\ managed \in BOOLEAN
  /\ slot = [h \in Slots |-> "free"]
  /\ disk = NoFiles /\ written = {}
  /\ svc = "inactive" /\ pc = "idle" /\ opened = FALSE
  /\ work = NoFiles /\ before = {} /\ new = {}
  /\ released = FALSE /\ unlisted = FALSE /\ failed = FALSE
  /\ inst = [i \in Instances |-> "idle"]
  /\ got = [i \in Instances |-> NoFiles]
  /\ vouched = [i \in Instances |-> FALSE]

-----------------------------------------------------------------------------
(* The machine and its TPM. *)

PowerOn ==
  /\ ~on
  /\ on' = TRUE /\ dev' \in BOOLEAN
  /\ UNCHANGED <<tpmVars, slot, disk, written, svc, scriptVars, released,
                 unlisted, failed, instVars>>

(* The TPM driver is loaded after the units of the boot were started. *)
DeviceAppears ==
  /\ on /\ ~dev
  /\ dev' = TRUE
  /\ UNCHANGED <<on, tpmVars, slot, disk, written, svc, scriptVars, released,
                 unlisted, failed, instVars>>

(* The machine stops at any moment.  Nothing calls fsync: a file installed
   since power on may be found half written or as it was before. *)
PowerLoss ==
  /\ on
  /\ on' = FALSE /\ dev' = FALSE
  /\ \E torn \in SUBSET written :
       disk' = [f \in Files |-> IF f \in torn THEN Torn ELSE disk[f]]
  /\ written' = {}
  /\ slot' = [h \in Slots |-> "free"]
  /\ svc' = "inactive" /\ pc' = "idle" /\ opened' = FALSE
  /\ work' = NoFiles /\ before' = {} /\ new' = {}
  /\ released' = FALSE /\ unlisted' = FALSE /\ failed' = FALSE
  /\ inst' = [i \in Instances |-> "idle"]
  /\ got' = [i \in Instances |-> NoFiles]
  /\ vouched' = [i \in Instances |-> FALSE]
  /\ UNCHANGED tpmVars

(* TPM2_Clear from the firmware menu: the persistent objects are gone, the
   endorsement seed and the manufacturer's NV index stay. *)
ClearTpm ==
  /\ ~on
  /\ ekHandle' = None /\ akHandle' = None
  /\ UNCHANGED <<on, dev, seed, nvCert, made, managed, slot, disk, written,
                 svc, scriptVars, released, unlisted, failed, instVars>>

(* The disk is moved to a machine with another TPM. *)
ReplaceTpm ==
  /\ ~on
  /\ seed' \in Seeds \ {seed} /\ nvCert' \in {None, seed'}
  /\ ekHandle' = None /\ akHandle' = None
  /\ UNCHANGED <<on, dev, made, managed, slot, disk, written, svc, scriptVars,
                 released, unlisted, failed, instVars>>

(* Another TPM user loads or releases an object of its own. *)
OtherLoad ==
  /\ on /\ ~managed
  /\ \E h \in Slots : slot[h] = "free" /\ slot' = [slot EXCEPT ![h] = "other"]
  /\ UNCHANGED <<on, dev, tpmVars, disk, written, svc, scriptVars, released,
                 unlisted, failed, instVars>>

OtherRelease ==
  /\ on /\ ~managed
  /\ \E h \in Slots : slot[h] = "other" /\ slot' = [slot EXCEPT ![h] = "free"]
  /\ released' = TRUE
  /\ UNCHANGED <<on, dev, tpmVars, disk, written, svc, scriptVars, unlisted,
                 failed, instVars>>

-----------------------------------------------------------------------------
(* The service manager. *)

(* What a start job of the unit does when the unit is not running. *)
StartJob ==
  /\ on /\ dev
  /\ svc \in {"inactive", "failed"}
  /\ svc' = "activating" /\ pc' = "ekProbe"
  /\ UNCHANGED <<opened, work, before, new>>

(* multi-user.target wants the unit. *)
BootStart ==
  /\ StartJob
  /\ svc = "inactive"
  /\ UNCHANGED <<on, dev, tpmVars, slot, disk, written, released, unlisted,
                 failed, instVars>>

(* Mutant: the instances that require the unit are not stopped with it. *)
RestartAlone ==
  /\ on /\ dev /\ svc = "active"
  /\ svc' = "activating" /\ pc' = "ekProbe"
  /\ UNCHANGED <<on, dev, tpmVars, slot, disk, written, opened, work, before,
                 new, released, unlisted, failed, instVars>>

(* An operator restarts the unit: the instances that require it are stopped
   before it is. *)
RestartProvision ==
  /\ on /\ dev /\ svc = "active"
  /\ svc' = "activating" /\ pc' = "ekProbe"
  /\ inst' = [i \in Instances |-> "idle"]
  /\ got' = [i \in Instances |-> NoFiles]
  /\ vouched' = [i \in Instances |-> FALSE]
  /\ UNCHANGED <<on, dev, tpmVars, slot, disk, written, opened, work, before,
                 new, released, unlisted, failed>>

(* A connection starts an instance, which waits for the job of the unit it
   requires.  A start job whose ConditionPathExists= does not hold is skipped
   and satisfies the requirement. *)
Connect(i) ==
  /\ on /\ inst[i] = "idle"
  /\ \/ StartJob /\ inst' = [inst EXCEPT ![i] = "waiting"]
     \/ /\ svc = "activating"
        /\ inst' = [inst EXCEPT ![i] = "waiting"]
        /\ UNCHANGED <<svc, scriptVars>>
     \/ /\ svc = "active" \/ ~dev
        /\ svc # "activating"
        /\ inst' = [inst EXCEPT ![i] = "ek.crt"]
        /\ UNCHANGED <<svc, scriptVars>>
  /\ vouched' = [vouched EXCEPT ![i] = svc = "active"]
  /\ UNCHANGED <<on, dev, tpmVars, slot, disk, written, released, unlisted,
                 failed, got>>

-----------------------------------------------------------------------------
(* attestos-provision.  External TPM commands keep the handles they use. *)

listingSame == UNCHANGED <<on, dev, managed, seed, nvCert, failed>>
machineSame == listingSame /\ UNCHANGED unlisted

(* tpm2_readpublic of the EK handle decides whether an EK is made.  It also
   fails when the TPM does not answer. *)
ProbeEk ==
  /\ pc = "ekProbe"
  /\ \/ ekHandle # None /\ pc' = "ekRead"
     \/ pc' = "ekMake"
  /\ machineSame
  /\ UNCHANGED <<keys, slot, store, svc, opened, work, window, instVars>>

CreateEk ==
  /\ pc = "ekMake" /\ ekHandle = None
  /\ ekHandle' = seed
  /\ work' = [work EXCEPT !["ek.pem"] = seed]
  /\ pc' = "ekRead"
  /\ machineSame
  /\ UNCHANGED <<akHandle, made, slot, store, svc, opened, window, instVars>>

ReadEk ==
  /\ pc = "ekRead"
  /\ work' = [work EXCEPT !["ek.pem"] = ekHandle]
  /\ pc' = "ek.pem"
  /\ machineSame
  /\ UNCHANGED <<keys, slot, store, svc, opened, window, instVars>>

ProbeAk ==
  /\ pc = "akProbe"
  /\ \/ akHandle # None /\ pc' = "akRead"
     \/ pc' = "before"
  /\ machineSame
  /\ UNCHANGED <<keys, slot, store, svc, opened, work, window, instVars>>

ListBefore ==
  /\ pc = "before"
  /\ before' = Listed
  /\ released' = FALSE
  /\ pc' = "akMake"
  /\ machineSame
  /\ UNCHANGED <<keys, slot, store, svc, opened, work, new, instVars>>

(* tpm2_createak leaves the key loaded in a slot the TPM picks; the resource
   manager takes it away again when the command ends. *)
CreateAk ==
  /\ pc = "akMake" /\ made < MaxAk
  /\ made' = made + 1
  /\ \/ managed /\ UNCHANGED slot
     \/ /\ ~managed
        /\ \E h \in Slots : slot[h] = "free"
                            /\ slot' = [slot EXCEPT ![h] = "prov"]
  /\ work' = [work EXCEPT !["ak.pem"] = made', !["ak.name"] = made']
  /\ pc' = "after"
  /\ machineSame
  /\ UNCHANGED <<ekHandle, akHandle, store, svc, opened, window, instVars>>

(* More than one new handle is an exit: Abandon.  The two listings are compared
   in a process substitution: when that fails, no handle is new. *)
ListAfter ==
  /\ pc = "after"
  /\ \/ new' = Listed \ before /\ Cardinality(new') <= 1 /\ UNCHANGED unlisted
     \/ new' = {} /\ unlisted' = TRUE
  /\ pc' = "evict"
  /\ listingSame
  /\ UNCHANGED <<keys, slot, store, svc, opened, work, before, released,
                 instVars>>

(* Mutant: the EK is made persistent once more, under the AK's handle. *)
EvictEk ==
  /\ pc = "evict" /\ akHandle = None
  /\ akHandle' = work["ek.pem"]
  /\ pc' = "recheck"
  /\ machineSame
  /\ UNCHANGED <<ekHandle, made, slot, store, svc, opened, work, window,
                 instVars>>

(* Mutant: the handle is cleared first when something is there. *)
EvictAkAnew ==
  /\ pc = "evict"
  /\ akHandle' = work["ak.pem"]
  /\ pc' = "recheck"
  /\ machineSame
  /\ UNCHANGED <<ekHandle, made, slot, store, svc, opened, work, window,
                 instVars>>

(* evictcontrol refuses a handle that is taken. *)
EvictAk ==
  /\ pc = "evict" /\ akHandle = None
  /\ akHandle' = work["ak.pem"]
  /\ pc' = "recheck"
  /\ machineSame
  /\ UNCHANGED <<ekHandle, made, slot, store, svc, opened, work, window,
                 instVars>>

(* Mutant: without the resource manager in mind, nothing is ever flushed. *)
RecheckNothing ==
  /\ pc = "recheck"
  /\ pc' = "akRead"
  /\ machineSame
  /\ UNCHANGED <<keys, slot, store, svc, opened, work, window, instVars>>

(* One new handle that is still listed is flushed.  This listing is part of a
   condition: when it fails, nothing is flushed and the script goes on. *)
Recheck ==
  /\ pc = "recheck"
  /\ \/ /\ pc' = IF new # {} /\ new \subseteq Listed THEN "flush" ELSE "akRead"
        /\ UNCHANGED unlisted
     \/ new # {} /\ pc' = "akRead" /\ unlisted' = TRUE
  /\ listingSame
  /\ UNCHANGED <<keys, slot, store, svc, opened, work, window, instVars>>

(* Mutant: `tpm2_flushcontext -t`, every transient object. *)
FlushAll ==
  /\ pc = "flush"
  /\ slot' = [h \in Slots |-> "free"]
  /\ pc' = "akRead"
  /\ machineSame
  /\ UNCHANGED <<keys, store, svc, opened, work, window, instVars>>

FlushNew ==
  /\ pc = "flush"
  /\ \A h \in new : slot[h] # "free"
  /\ slot' = [h \in Slots |-> IF h \in new THEN "free" ELSE slot[h]]
  /\ pc' = "akRead"
  /\ machineSame
  /\ UNCHANGED <<keys, store, svc, opened, work, window, instVars>>

(* Mutant: the name is taken from createak and not read from the TPM again. *)
ReadAkKeepingName ==
  /\ pc = "akRead"
  /\ work' = [work EXCEPT !["ak.pem"] = akHandle]
  /\ pc' = "ak.pem"
  /\ machineSame
  /\ UNCHANGED <<keys, slot, store, svc, opened, window, instVars>>

ReadAk ==
  /\ pc = "akRead"
  /\ work' = [work EXCEPT !["ak.pem"] = akHandle, !["ak.name"] = akHandle]
  /\ pc' = "ak.pem"
  /\ machineSame
  /\ UNCHANGED <<keys, slot, store, svc, opened, window, instVars>>

(* The command that follows the installation of each file. *)
Following == [f \in Files |-> CASE f = "ek.pem"  -> "akProbe"
                                [] f = "ak.pem"  -> "ak.name"
                                [] f = "ak.name" -> "cert"
                                [] f = "ek.crt"  -> "ready"]

(* install(1) replaces its destination in two steps, neither of them a rename:
   the old file is unlinked and a new one created, then it is written. *)
OpenDestination ==
  /\ pc \in Files /\ ~opened
  /\ disk' = [disk EXCEPT ![pc] = Torn]
  /\ written' = written \union {pc}
  /\ opened' = TRUE
  /\ machineSame
  /\ UNCHANGED <<keys, slot, svc, pc, work, window, instVars>>

WriteDestination ==
  /\ pc \in Files /\ opened
  /\ disk' = [disk EXCEPT ![pc] = work[pc]]
  /\ opened' = FALSE
  /\ pc' = Following[pc]
  /\ machineSame
  /\ UNCHANGED <<keys, slot, written, svc, work, window, instVars>>

(* The certificate is installed when the NV index can be read, else the file
   is removed. *)
ReadCert ==
  /\ pc = "cert"
  /\ \/ /\ nvCert # None
        /\ work' = [work EXCEPT !["ek.crt"] = nvCert]
        /\ pc' = "ek.crt" /\ UNCHANGED <<disk, written>>
     \/ /\ disk' = [disk EXCEPT !["ek.crt"] = None]
        /\ written' = written \union {"ek.crt"}
        /\ pc' = "ready" /\ UNCHANGED work
  /\ machineSame
  /\ UNCHANGED <<keys, slot, svc, opened, window, instVars>>

(* The script ends, $work is removed; RemainAfterExit= keeps the unit active
   and the instances that waited for it run. *)
Finish ==
  /\ pc = "ready"
  /\ pc' = "idle" /\ svc' = "active"
  /\ work' = NoFiles /\ before' = {} /\ new' = {}
  /\ inst' = [i \in Instances |->
                IF inst[i] = "waiting" THEN "ek.crt" ELSE inst[i]]
  /\ vouched' = [i \in Instances |-> inst[i] = "waiting" \/ vouched[i]]
  /\ machineSame
  /\ UNCHANGED <<keys, slot, store, opened, released, got>>

(* The exit of `set -e`: the unit fails and with it the instances waiting for
   it, and whatever the script had loaded stays loaded. *)
Exit ==
  /\ svc = "activating"
  /\ svc' = "failed" /\ pc' = "idle" /\ opened' = FALSE
  /\ work' = NoFiles /\ before' = {} /\ new' = {}
  /\ failed' = TRUE
  /\ inst' = [i \in Instances |->
                IF inst[i] = "waiting" THEN "idle" ELSE inst[i]]
  /\ UNCHANGED <<on, dev, tpmVars, slot, store, released, unlisted, got,
                 vouched>>

(* The commands that cannot succeed. *)
Refused ==
  \/ pc = "ekMake" /\ ekHandle # None
  \/ pc = "akMake" /\ (made = MaxAk \/ \A h \in Slots : slot[h] # "free")
  \/ pc = "after" /\ Cardinality(Listed \ before) > 1
  \/ pc = "evict" /\ akHandle # None
  \/ pc = "flush" /\ \E h \in new : slot[h] = "free"

(* Mutant: an attempt that is refused begins anew, as long as it takes. *)
StartOver ==
  /\ Refused
  /\ pc' = "ekProbe"
  /\ machineSame
  /\ UNCHANGED <<keys, slot, store, svc, opened, work, window, instVars>>

Abandon == Refused /\ Exit

(* Any command may fail, also one that hangs; the status of the AK's probe and
   of the last listing is a condition and ends nothing. *)
Fail ==
  /\ pc \notin {"idle", "akProbe", "recheck"}
  /\ Exit

(* Any command may never return: nothing in the script or in the unit, a oneshot
   without a start time-out, bounds one. *)
Hang ==
  /\ pc \notin {"idle", "hung"}
  /\ pc' = "hung" /\ opened' = FALSE
  /\ machineSame
  /\ UNCHANGED <<keys, slot, store, svc, work, window, instVars>>

Script ==
  \/ ProbeEk \/ CreateEk \/ ReadEk
  \/ ProbeAk \/ ListBefore \/ CreateAk \/ ListAfter \/ EvictAk \/ Recheck
  \/ FlushNew \/ ReadAk
  \/ OpenDestination \/ WriteDestination \/ ReadCert \/ Finish \/ Abandon

-----------------------------------------------------------------------------
(* The agent's identity handler reads the four files one after the other. *)

NextRead == [f \in Files |-> CASE f = "ek.crt"  -> "ak.pem"
                               [] f = "ak.pem"  -> "ak.name"
                               [] f = "ak.name" -> "ek.pem"
                               [] f = "ek.pem"  -> "answered"]

instanceSame == UNCHANGED <<on, dev, tpmVars, slot, disk, written, svc,
                            scriptVars, released, unlisted, failed>>

(* A file that is there is read as it is, torn or not; no certificate is not
   an error. *)
Read(i) ==
  /\ inst[i] \in Files
  /\ disk[inst[i]] # None \/ inst[i] = "ek.crt"
  /\ got' = [got EXCEPT ![i][inst[i]] = disk[inst[i]]]
  /\ inst' = [inst EXCEPT ![i] = NextRead[inst[i]]]
  /\ instanceSame /\ UNCHANGED vouched

(* Required evidence that is absent or empty is an error, an empty certificate
   is none. *)
ReadNothing(i) ==
  /\ inst[i] \in Files /\ disk[inst[i]] \in {None, Torn}
  /\ IF inst[i] = "ek.crt"
       THEN /\ inst' = [inst EXCEPT ![i] = "ak.pem"]
            /\ UNCHANGED <<got, vouched>>
       ELSE /\ inst' = [inst EXCEPT ![i] = "idle"]
            /\ got' = [got EXCEPT ![i] = NoFiles]
            /\ vouched' = [vouched EXCEPT ![i] = FALSE]
  /\ instanceSame

Close(i) ==
  /\ inst[i] = "answered"
  /\ inst' = [inst EXCEPT ![i] = "idle"]
  /\ got' = [got EXCEPT ![i] = NoFiles]
  /\ vouched' = [vouched EXCEPT ![i] = FALSE]
  /\ instanceSame

Machine == PowerOn \/ DeviceAppears \/ PowerLoss \/ ClearTpm \/ ReplaceTpm
           \/ OtherLoad \/ OtherRelease \/ BootStart \/ RestartProvision

Next ==
  \/ Machine \/ Script \/ Fail \/ Hang
  \/ \E i \in Instances : Connect(i) \/ Read(i) \/ ReadNothing(i) \/ Close(i)

Spec == Init /\ [][Next]_vars

(* Fairness: a shell runs its next command when the last one returned.  That a
   command returns is not assumed: Hang is enabled at every one. *)
FairSpec == Spec /\ WF_vars(Script)

-----------------------------------------------------------------------------
(* Properties. *)

(* What the agent would answer from the files is what the TPM can use now. *)
Coherent(files) ==
  /\ ekHandle # None /\ files["ek.pem"] = ekHandle
  /\ akHandle # None /\ files["ak.pem"] = akHandle
  /\ files["ak.name"] = akHandle
  /\ files["ek.crt"] \in {None, nvCert}

(* While the unit is active the published files name the keys the TPM holds,
   whatever a crash, a TPM clear, a replaced TPM or an earlier failed attempt
   left behind, and none of them is half written. *)
ActiveMeansCoherent == svc = "active" => Coherent(disk)

(* An identity answered by an instance that ran because the provisioner
   succeeded mixes no two provisionings: EK, AK, AK name and certificate are
   those of the TPM at the moment of the answer. *)
IdentityCoherent ==
  \A i \in Instances : vouched[i] /\ inst[i] = "answered" => Coherent(got[i])

(* The flush that follows evictcontrol hits an object of another TPM user only
   if some other user released one while the handles were being compared. *)
FlushSparesOthers ==
  [][pc = "flush" /\ pc' = "akRead" =>
       released \/ \A h \in Slots : slot[h] = "other" => slot'[h] = "other"
    ]_vars

(* Attempts that go through leave no object of the script's loaded, unless
   another user released one in between or a listing failed unnoticed; and even
   then not more than one is left in a boot without a failed attempt: restarts
   and further connections do not fill the TPM's slots. *)
LeakBounded ==
  svc = "active" /\ ~failed =>
    /\ \A g, h \in Slots : slot[g] = "prov" /\ slot[h] = "prov" => g = h
    /\ ~released /\ ~unlisted => \A h \in Slots : slot[h] # "prov"

(* The identity a set of files names. *)
Named(files) == [ek |-> files["ek.pem"], ak |-> files["ak.pem"],
                 name |-> files["ak.name"], cert |-> files["ek.crt"]]
NoIdentity == Named(NoFiles)

Stable == INSTANCE StableIdentity WITH
  ek <- ekHandle, ak <- akHandle, cert <- nvCert,
  identity <- IF svc = "active" THEN Named(disk) ELSE NoIdentity,
  answers <- [i \in Instances |->
                IF vouched[i] /\ inst[i] = "answered"
                  THEN Named(got[i]) ELSE NoIdentity]

(* Provisioner, unit and agent keep the promise of StableIdentity: while the
   unit is active every answer of an instance it vouched for is the same
   identity, however many instances answer; a key is made only where the TPM has
   none, and a key that is there survives a probe that fails, a restart, a
   failed attempt and a power loss. *)
IdentityIsStable == Stable!Promise

(* A connection that waits for the provisioner is let through or refused, and
   the one thing that keeps it waiting is a command that does not return: no
   refusal of the TPM, no full slot and no other instance does. *)
WaitEnds ==
  \A i \in Instances :
    inst[i] = "waiting" ~> (inst[i] # "waiting" \/ pc = "hung")

=============================================================================
