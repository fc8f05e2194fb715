# A TLA+ model of attestos

This directory holds TLA+ specifications of the parts of attestos in which
something can go wrong that a unit test would hardly reach: steps of several
processes in an unexpected order, power losses and killed jobs between two
commands, time limits that race late answers, and evidence that no longer
belongs to what it is said to describe. TLC checks them on small instances;
TLAPS proves every safety property the runs check, and the refinement, for every
value of the constants.
`PROJECT.json` says, definition by definition, which lines each one models.

## The system

attestos is an image for a gaming PC that can prove to a remote verifier what
it booted. On the machine, a unit provisions TPM keys and a socket-activated
agent answers three requests of protocol `attestos.tpm/v1`. Around the image, a
CI job boots a sealed Fedora image under QEMU with a software TPM to find out
what firmware and systemd-stub do with signed and tampered command-line add-ons.

| Component | State it keeps | Operations | Model |
|---|---|---|---|
| `attestos-provision` (shell, `set -e`) | persistent TPM handles 0x81010001/2, transient objects, files `ek.pem ak.pem ak.name ek.crt` under `/var/lib/attestos` | find or make the EK and AK, persist the AK, flush what `createak` loaded, publish the files | `Provision`, abstractly `StableIdentity` |
| its unit, the agent's socket and template unit | unit states, waiting instances | start, skip (no TPM device), fail, restart; one instance per connection | `Provision`, `Agent` |
| `attestos-agent` (Python) | TPM sessions, temporary files | `identity`, `activate`, `quote` | `Provision` (identity), `Agent` |
| boot runner `run_fedora_sealed_positive_control.sh` | QEMU and swtpm processes, serial log, probe disk | boot, poll the serial log, extract the receipt | `BootRun` |
| retry wrapper `run_fedora_sealed_retry.sh` | disposable disk copies, attempt records, manifest, promoted evidence | boot, retry a silent boot once, promote | `BootRetry`, abstractly `BoundedRetry` |
| guest probe `fedora_sealed_guest_probe.py` | receipt on the probe disk | collect, write, sync, rename, power off | `GuestProbe` (what it reads), `BootRun` (how it is written), `AddonCanary`, `ControlEvidence` |
| the sealed-image job (workflow) and `build_`, `tamper_`, `prepare_`, `install_` scripts | base disk, overlays, variable store, documents | build, tampered boot, control boot, four arms | `AddonCanary` |
| `validate_fedora_pcr12_addon.py` | none | gates over the documents of the four arms | `AddonCanary`, `BootRetry` |
| `inspect_fedora_sealed_disk.py`, `prepare_fedora_sealed_compat_control.sh`, `validate_fedora_sealed_positive_control.py` | the UKI on the disk, the documents | inspect, strip and sign again, replace, join | `ControlEvidence` |
| PE tools `mutate_pe_cmdline.py`, `strip_pe_certificate_table.py` | none (a file in, a file out) | mutate the command line, remove the certificates | `PeImage` (operators), `PeTools` |
| boot evidence canary and its unit, `run_booted_image_canary.sh`, `validate_booted_image_receipt.py` | the receipt in the making, the serial log | collect with time limits, one line, power off; run, judge | `BootCanary` |
| console driver, image build, protocol schema, trust keys | | | not modelled, see below |

How they interact:

* The agent's template unit `Requires=` and is ordered `After=` the provisioner.
  A connection starts an instance, which waits for the provisioner's job. A job
  skipped by `ConditionPathExists=/dev/tpmrm0` satisfies the requirement; a
  failed one fails the instance; restarting the provisioner stops the instances.
* Provisioner and agent share the TPM and the published files and nothing else.
  Without the kernel's resource manager they also share its transient slots with
  every other user of the TPM.
* The retry wrapper calls the runner, the runner starts QEMU under `timeout`,
  and the guest's probe speaks to the host only through the probe disk. The
  firmware speaks to it only through the serial log.
* The boot evidence canary has only a line on the serial port, which the kernel
  shares. Its unit's `TimeoutStartSec=` and the `timeout` around QEMU know nothing
  of its own time limits or of each other.
* `tamper_`, `prepare_fedora_pcr12_addon` and `prepare_fedora_sealed_compat_control`
  call the PE tools; firmware and `sbverify` judge what they wrote.
* The job passes documents between steps as files. The validators join them by
  hash. An overlay's hash does not cover the base disk it depends on.

The hard behaviours are listed one by one, each at its line, under "hazards" in
`PROJECT.json`, with the properties that cover them.

## What makes each component correct

* Provisioner: while its unit is active, the files describe the keys that the
  TPM can use now, whatever history led there; the flush hits nobody else's
  object; successful attempts leave at most one object loaded, and none unless a
  listing failed or another user released one; a waiting connection is settled
  unless a command hangs.
* Agent: identities are never a mixture of two provisionings; each TPM session
  is given back on every path on which the process still runs code; a log in an
  answer covers the quote in it; every request ends.
* Runner and wrapper: only a boot that left no receipt and ran into the time
  limit is retried, and at most once; manifest and evidence belong to the same
  invocation and attempt at all times; a zero exit means the validator's join
  accepts the manifest.
* PE tools: every sound image is taken and every damaged one refused; what is
  written differs from what was read in what the tool owns and in nothing else.
* Positive control: a passed verdict is about one UKI that comes from the verified
  references, that firmware admitted, and whose tampered copy it had rejected.
* Boot evidence canary: an accepted receipt is true of the boot that wrote it; the
  receipt is written before the unit's limit; a rejection has a cause.
* Job: overlays never outlive their base; the stop rules are enforced in order;
  a passed verdict is possible with one kind of stub only; a failed one has a
  cause; the job ends.

## Modules

Read in this order.

### `Provision`, `StableIdentity`

`pc` is the command the script executes next, and each action is one command:
`ProbeEk` ... `ReadCert`, `Finish`. `Fail` is the exit of `set -e` at a command that
fails, `Abandon` the exits that are certain (`Refused`: no free slot, a taken handle,
more than one new handle) and `Hang` a command that never returns: the unit is a
oneshot, which has no start limit by default, and the script sets none. Three
failures end nothing, and are part of the actions instead: the probe of the AK
(line 26) then makes a key, the comparison in a process substitution (line 33)
finds no new handle, and the listing in the condition of line 40 skips the flush.
The last two are remembered in `unlisted`, a history variable. `install(1)` unlinks and re-creates its destination and then writes
it: `OpenDestination` and `WriteDestination`. Nothing calls `fsync`, so
`PowerLoss` may leave each file written since power on in another state, `Torn`,
which equals no key. A key is named by the seed it belongs to (EK, certificate) or
by the number of its creation (AK), and a file's content by the key it describes.

`managed` says whether `tpm2` commands run behind the resource manager, which
takes a transient object away when its command ends; then the listings are empty
and `CreateAk` leaves nothing behind. Otherwise `slot` says who loaded what.

The machine (`PowerOn`, `PowerLoss`, `ClearTpm`, `ReplaceTpm`, `DeviceAppears`)
and the other TPM users (`OtherLoad`, `OtherRelease`) are the environment.
`Connect`, `Read`, `ReadNothing` and `Close` are the agent instances that serve
`identity`: they read the four files in the order of the code, one per step. An
instance is `vouched` for when it ran because the provisioner succeeded and not
because its start was skipped.

`StableIdentity` is the abstract specification: the machine has at most one
published identity, every answer is that identity, `MakeEk` and `MakeAk` only fill
an empty handle while nothing is published, and only a cleared or exchanged TPM
forgets keys. `IdentityIsStable` maps the published identity to the four files
while the unit is active, and an answer to what a vouched instance has read. Unlike
`IdentityCoherent` it relates answers to each other and to earlier keys: a
probe that fails although the AK is there (`attestos-provision:26`) must not end in
another AK.

### `Agent`

`activate` opens a session, uses it in two more commands and gives it back in
`finally`; `quote` has `tpm2_quote` sign and then read PCR values, and reads the
event logs afterwards. `file[i]` is the session named in an instance's
`policy.session`, `loaded` the TPM's own table. A command may fail at each point,
answering (`AgentError`) or not (an exception `main` does not catch). A log that
cannot be read is left out by `read_optional_log`, like an empty one, and the quote
is answered without it: `answered` is 0 then and the history variable `unread` says
why. `StartKilled`
is the command killed between opening the session and writing its file, `Kill`
the service manager's kill, after which no `finally` runs. `Extend` and `Append`
are systemd's measurements: PCR first, log second, one writer at a time.

### `BootRun`, `BootRetry`, `BoundedRetry`

`BootRun` composes the host script, `timeout`, QEMU, the firmware and the guest's
probe; they share the serial log (`rejected`: the poll in which the firmware
wrote its refusal) and the probe disk (`probe`). `Polls` stands for the looks at
the serial log that fit in the time limit, which expires only in the last one.
A receipt renamed but not synced may or may not be found by `debugfs`.

`BootRetry` EXTENDS it with the wrapper: `Running` is a step of the runner,
`RecordAttempt`, `Promote`, `WriteSelected`, `GiveUp` and `TryAgain` follow it.
`Cancel` kills everything at any point, and `Begin` starts again on the same
output directory; `BeginFails` is a failure before the clean-up.
`BootAttemptsJoin` is the validator's function, over the records written here.
`promoted` carries, for the properties only, whose evidence it is, and `truth`
what happened in each boot whatever the host knew.

`BoundedRetry` is the abstract specification: a sequence of boots in which only a
silent one is followed by another, with a verdict given once. `BootRetry` refines
it under the mapping `Abstract` (`KeepsPromise`).

### `AddonCanary`, `MCAddonCanary`

One action per step of the job, or per command of a step where an interleaving
matters. `base` counts the writes to the installed disk, and an overlay is a
record of the base it was made `on`, its `addon` and its own `writes`; `Hash` does
not see `on`. `Disconnect` puts an overlay into `closing`, and `NbdCloses` is
qemu-nbd letting go of it, perhaps with a last write, at any later time;
`HashDisk` does not wait for it. The script that tampers with the UKI does wait, so
it is one action. `stub` is the unknown the job is about: whether a changed UKI is
refused, which add-ons are loaded, what is measured, whether PCR 11 is disturbed,
and whether the stub declares in `StubPcrKernelParameters` that it measured
something, which the two unaffected arms must not show. `CanaryPasses` is the
validator over the documents recorded. `MCAddonCanary` names the eight behaviours
checked: the one the job hopes for, declaring or not, and those that differ from it
in one respect (the one that loads every add-on declares it).

In this module a boot that delivers a receipt is one step and a silent one
another: their insides are `BootRetry`'s. PCR 11 is what the stub measured and
the boot `phase` systemd had reached: the probe's unit waits for `local-fs.target`
and its disk only, so its read and the measurement of `ready` are in no order, and
`SamePcr11` may fail between two arms for no other reason. `FailureExplained` lists
that as a cause of its own.

### `PeImage`, `PeTools`, `MCPeTools`

`PeImage` has both tools as operators on a file, which is a sequence of cells: one
for each header field the tools read, one for each byte of data. Its offsets are
computed as in the code, scaled down as its head describes; `Mutable` and
`Strippable` are the conjunction of all checks in their order, `MutateFile` and
`StripFile` the edit. `PeTools` lets an image live: built by `ukify` (`WellFormed`),
signed (`Sign`), inspected, padded or cut by a copy, stripped, mutated, in any
order. `Verifies` is what `sbverify` and firmware conclude from the bytes;
`stale`, `tampered` and `cut` remember what was done to them. `Rewritten` is the
effect of objcopy on its input, which the inspection avoids by a disposable copy.
`WellFormed` asks for a zero directory entry, as `ukify` leaves it: stripping
zeroes both fields, so an unsigned image with one field set would come back from
signing and stripping with another entry than it was built with.

### `GuestProbe`, `ControlEvidence`, `MCControlEvidence`

`GuestProbe` has the probe's `collect` as an operator from a machine to a receipt,
with the parser of `TPM2_PCR_Read` as a function of the answer's true length and of
what it says about itself.

`ControlEvidence` runs jobs one after the other in one output directory, direct or
with the compatibility control. Each step writes its document; a job may be
stopped at any step and the next starts from the first (`StartJob`). In the
workflow each job has a fresh runner, so that documents of several jobs meet is
more than the code does: what holds here holds for one job's documents as well, and
rests on the validator's joins alone. `Passed` is
the validator on whatever documents are there, at any time, and the properties
compare its verdict with `boots`, what really happened. A digest is what it
is the digest of; a UKI is its image, its form and the key it was signed with.
The firmware `enforces` what it reports or not. One step of the validator is
without effect and left out: the number of UKIs, of which the inspection raises
when it is not one. An installed UKI that equals the source's can never pass the
compatibility control (`compat.installed # compat.original`), which
`CompletedJobPasses` states as it is.

### `BootCanary`, `MCBootCanary`

`call` walks through `collect`, in units of 30 seconds: a call takes any time up to
its limit and may be cut off there, or fail before (`Takes`). A failing
`tpm2_readpublic` reads as an absent key and a failing `systemctl is-active` as a unit
that is not active; each step of the quote, the log and `bootc status` may fail on a
guest that has all they need. `troubled` remembers that a command failed or used up
its time, that the line was garbled, a reset, or the host's limit. Where nothing catches `TimeoutExpired`, `main`
makes a receipt of failure of it (`Unhandled`); inside `quote_self_check` it is
noted and the collection goes on. `serial` holds the lines with a marker, whole or
garbled; one whose marker did not survive is not there. `UnitTimeout` is the
service manager's limit, `HostTimeout` that of `timeout(1)`. `Judge` is the end of
the host script with `extract_guest` and `validate_guest`. A guest is one of
`Guests`, which lists what it may lack. The 90 seconds of `wait_for_tpm` turn out
never to help: where the device is late the provisioner was skipped, so the
receipt cannot be one of success.

## The runs

| Run | Instance | What it asks |
|---|---|---|
| `provision` | 2 seeds, 1 instance, 1 slot, at most 2 AKs, no fairness | do files and identities agree with the TPM, through clears, a replaced TPM, failures and torn files; is `StableIdentity` implemented |
| `provision_slots` | 1 seed, 1 instance, 2 slots, 2 AKs, fair | do flush and leak behave among other TPM users; are waiting connections settled |
| `agent` | 2 instances, 2 sessions, 3 events, a log limit of 2 | sessions, logs and ends of requests |
| `boot_retry` | 3 polls, 2 attempts, 2 invocations | evidence, manifest, retry policy, its refinement, ends of invocations |
| `boot_retry_rejection` | the same, 1 invocation | expected to be violated: see the finding |
| `addon_canary` | 2 attempts, 4 arms, 8 stubs, 1 late write | frozen base, stop rules, meaning of verdicts, end of the job |
| `pe_tools` | 24 images, 2 signatures, alignment 2, padding up to 2 | which images the tools take, what they change, whether signature and static receipt follow the bytes |
| `control_evidence` | 3 references, 2 jobs, 18 machines | what a passed verdict means among documents of two jobs; that a completed job passes |
| `boot_canary` | 1 sound guest and all with one or two defects, unit limit 10 (5 min), 1 reset | true receipts, enough time, explained rejections |
| `boot_canary_short` | a sound guest and those with one defect, unit limit 4 (2 min), 1 reset, fair | a verdict in every run, also when the unit can be killed (that its rejections have a cause is proved for every limit) |
| `boot_canary_deployment` | as `boot_canary` | expected to be violated: see the findings |

Why the bounds suffice. Two seeds and two AKs are enough to tell a current from a
stale file, and no property compares more than two versions. Two slots allow an
object of the script's beside one of another user, or a second one of the script's,
and two AKs an attempt after one that left something. Two sessions and
two instances allow a mix-up and an exhaustion; three events with a limit of two
reach the log's limit with an event still to come. Three polls give a rejection
a first, a middle and a last look. Two invocations are one that leaves outputs and
one that finds them; the number of attempts is the code's. One late write is
enough to tell hash and disk apart in one arm while the others are right.
`provision` and `boot_canary` ask only for safety, so they carry no fairness.
The 24 images have the command line alone, before and behind another section, with
and without room for suffix and NUL, with a NUL inside, of odd and even length, in
both kinds of optional header; alignment 2 makes them need alignment or not, and a
padding of 2 has a value below, at and above the limit. Two jobs are one that leaves documents
and one that finds them; three references differ in image or installer. The 18
machines differ from a genuine one in one respect, ten of them in the TPM's
answer. Two defects of a guest may hide each other; one reset gives a second boot
and a second line.

Each property has a mutant: an operator just before the definition it replaces,
headed by a comment "Mutant:", with a plausible bug in that code. Under it
the property is violated in the same run. The mutants are in no action
of the specifications.

Deadlock is checked in `provision`, `provision_slots`, `agent` and `pe_tools`, which never
stop. In the others the job or the last invocation ends, so the check is off.

## The findings

`FEDORA_PCR12_ADDON_CANARY.md:92` says that a firmware rejection is never retried.
The runner looks for one in the serial log once after each sleep of ten seconds, and
not again when the next `kill -0` finds QEMU gone
(`run_fedora_sealed_positive_control.sh:109`). A rejection between the last look and
that test, while the time limit ends QEMU, gives 124 without a receipt, which
the wrapper retries (`run_fedora_sealed_retry.sh:74`). `boot_retry_rejection`
shows it; `RejectionRetriedOnlyLate` shows that this window is the only one. The
second boot starts from an identical copy and decides the same question again, so
no wrong verdict follows; the record of the first attempt names the wrong cause.

`BOOTED_IMAGE_CANARY.md:39` says that the canary passes only when `bootc status
--json` identifies a booted deployment. `bootc_claim` answers `available: true` for
any status it can parse (`attestos-boot-evidence-canary:148`), also with `booted`
null, and `validate_guest` looks at `available` alone
(`validate_booted_image_receipt.py:81`). `boot_canary_deployment` shows a guest
without a booted deployment that is accepted.

## Fairness

* `Provision`: weak fairness of the script's own steps: the shell goes on when a
  command has returned. That commands return is not assumed: nothing in the unit
  or the script bounds them, so `Hang` may happen at any of them, and `WaitEnds` says
  that nothing else keeps a connection waiting.
* `Agent`: weak fairness of each instance's handler. `run` gives each command 20
  seconds; the flush in `finally` has no limit and is assumed to return. Nothing
  is assumed of the clients or of the measurements.
* `BootRetry`: weak fairness of the two scripts and of `timeout`, not of the
  guest, the firmware or QEMU.
* `AddonCanary`: weak fairness of the job, which GitHub cancels after 75 minutes
  (`StepFails` at any step). Nothing is assumed of qemu-nbd.
* `BootCanary`: weak fairness of `HostTimeout` (`timeout 25m` fires unless QEMU is
  gone first) and of `Judge` (the script goes on). Nothing is assumed of the guest.

## What is proved

`ProvisionProofs`, `BootRetryProofs`, `AgentProofs`, `AddonProofs`, `PeProofs`,
`ControlProofs` and `BootCanaryProofs` hold the theorems; they are about the same
definitions the runs check, for every value of the constants that satisfies the
named assumptions:

| Assumption | What it asks |
|---|---|
| `BoundsAssumption` | a natural bound, finitely many slots, markers that are no keys |
| `AgentAssumption` | likewise |
| `PollsAssumption`, `RetryAssumption`, `NoFileAssumption` | at least one poll and one attempt, and a `None` that is no file's content |
| `CanaryAssumption` | at least one attempt, stubs among `StubBehaviours`, a `None` that is no document |
| `ImageAssumption`, `ToolsAssumption` | an alignment of 2 or more, well-formed images, a `None` that is no receipt |
| `ControlAssumption`, `ProbeAssumption`, `BootCanaryAssumption` | likewise bounds, and a `None` apart from everything else |

Each safety property of a run has its theorem. The inductive invariants were
checked by TLC on the runs' instances before they were proved.

*Provision.* `ActiveMeansCoherent` is not inductive: it speaks only of the end of
the script. `Inv` adds `Progress` (the script runs exactly while its unit is
activating), `Installed` (at each `pc`, which handles exist, and which files in
`$work` and which published ones already describe the current keys) and `Reading`
(an instance whose start was vouched for reads only while the unit is active, and
what it has read so far is coherent). A power loss or a restart returns to a state in which these promise
nothing; every command re-establishes one more file. `Slotted` is about the slots instead of
the files: `Window` bounds what can be in them between the two listings,
`Listing` says that a listing in hand shows what was there, up to what other users
loaded or released since, and `Leftover` what is left behind: nothing, unless an
attempt failed, a listing failed unnoticed or another user released an object, and
one object at most, once the AK is persistent, unless an attempt failed. One lemma per part, one step
per action: `TypeStep`, `ProgressStep`, `InstalledStep`, `ReadingStep`,
`ListingStep`, `LeftoverStep`. From `Invariance` follow `TypeCorrect`, `Published`,
`IdentitySafe`, `LeaksBounded` and, as an action property, `FlushIsSparing`.
`KeepsIdentity` shows that `Provision` implements `StableIdentity`: `CreateEk` and
`EvictAk` are its `MakeEk` and `MakeAk`, `Finish` publishes, a restart or a power
loss withdraws, the last of an instance's four reads answers, and everything else
stutters. `KeysStep`, `ActiveStep` and `FreshStep` say which steps move which part of
the mapped state.

*Boot retry.* The wrapper sees a boot only through the runner's exit status and the
receipt it extracted. `OneBoot` says what these tell about the machine: who can run
while whom (`Watched`), when a receipt is durable (`Durable`), what a status
implies (`Told`), and that a rejection not yet seen is of the current poll
(`Timely`). `Attempts` carries this over to the record of each attempt when it is
written, and `Outputs` says what the evidence and the manifest mean at every
point of the wrapper, a kill and a new invocation included. From `RetryInvariance`
follow the six safety properties. `Refinement` shows that `BootRetry` implements
`BoundedRetry`: `Begin` is its first step or a stutter, a retry is its step after a
silent boot, the exits are its verdicts, and all that runner, firmware and guest
do are stutters. `RejectionRetriedLate` proves that the window of the finding is the
only one, for any number of polls.

*Agent.* The inductive invariant adds to `SessionsReturned` that an instance has a
session file exactly at the points between `startauthsession` and the end of
`finally` (`Holding`), and to `LogCoversQuote` that log and PCRs differ by one
event at most and that a quote not yet answered is covered by the log as it is
now (`Covered`); an answer without a log is the one whose log was not read. From `Invariance` follow `AgentTypeCorrect`, `SessionsAreReturned`,
`SessionsStayApart` and `QuotesAreCovered`.

*Sealed-image job.* `Inv` adds to `OverlaysOnFrozenBase` which disks and documents
each step finds (`Found`: no overlay before the base is written for the last time),
to `StopRules` what has been decided when a step runs (`Decided`), and for
`Conclusive` that every receipt shows what the stub does with the add-on on the disk
it booted, that the boots were made with the extended variable store and that the
verdict is about four receipts (`Reported`). One lemma per part, one step per
action; from `JobInvariance` follow `JobTypeCorrect`, `OverlaysValid`,
`StopRulesHold` and `CanaryConclusive`. The run checks eight stubs; the theorem is
about all 72 behaviours at once, and about any subset of them. For
`FailureHasCause`, `Matched` says of each arm that its documents, as far as they are
written, are those of an arm on which nothing went wrong, or a cause is on record
(`InstalledArm`, `HashedArm`, `SourcedArm`, `BootedArm`): with all four of them the
validator has nothing to refuse.

*PE tools.* `Inv` says what an image is from what was done to it. One that was not
cut is `Content` (as built, or mutated once) alone or aligned (`Unsigned`), or it is
`Signed`: all its headers are its body's but for the directory entry, stripping it
gives the aligned `Content`, and the cell the firmware looks at names a signature
made before, of `Content` while nothing was edited and of the original once it was
mutated (`InTable`). `Entries` describes the certificates and the zeros behind them.
One that was cut declares more than it has (`Broken`), also when the cut fell into
the headers: what both tools read before the directory entry decides where it is
(`SameHeaders`), so a prefix with readable headers has the entry of the whole. The
lemmas follow the layout: `HeaderPlaces`, `SameHeaders`, `SameTable` for headers and
section table; `TextPlaces`, `SameText`, `MutatedCells`, `MutatedImage` for
the command line; `SignsPlain`, `StaysSigned`, `MutateSigned` for what the steps do
to a signed image; `WalkOn` and `EntriesFilled` for the walk over the
certificates. One step per action. From `PeInvariance` follow all six properties of
the run, for any images `ukify` may build, any alignment and any padding limit.
`WalkOn` gives the recursive function of `EntriesFill` its equation without
induction: a set of cursors closed under the walk and ending at the table's end is a
solution.

*Positive control.* What makes a verdict mean something is that no document can
say what no job did. `Documents` states that for each of them on its own: an
inspection names the source's UKI or one that does not verify; a strip receipt
is of a source's UKI; a confirmed rejection has a boot in `boots` that was not
admitted, by the job that then booted the original; and so on. `Progress` adds
what a running job finds: the documents of the steps behind it are its own. The
gates then only have to join documents of the right kind. From
`ControlInvariance` follow `VerdictOfAdmittedUki`, `VerdictOfRejectedCopy`,
`VerdictOfOneSource` and `CompletedVerdict`, for any references, machines and
number of jobs. The lemma `ParserExact` says that the parser takes exactly the one
canonical answer.

*Booted-image canary.* `Inv` has three parts besides the types: `Booted` (a boot
whose provisioner was active had its TPM in time), `Truthful` (what a receipt in
the making, and each line on the serial port, says with `success` is so, and stays
so through later boots) and `Smooth` (on a sound guest, at each call everything
found so far is there unless something failed or went wrong). Each call has a lemma that
says what it changes (`WaitFact` ... `WriteFact`), and each part of `Inv` a lemma
with one step per action. For `LimitsAreEnough`, `Punctual` bounds the time that is
gone at each call, separately for a guest whose TPM was there at once and for one
that waits: 9 units and 7, which is why 10 are enough although the limits
of the calls add up to 12. This counts the time inside the calls: none is assumed to
pass between them, and the property ends with the receipt, before `systemctl
poweroff`.

## What is only model-checked

Liveness (`WaitEnds`, `RequestsEnd`, `InvocationEnds`, `JobEnds`, `VerdictGiven`):
neither fairness nor ENABLED is in the prover's reach. RECURSIVE operators, which
are out of reach too, are not used. Of the library's induction theorems only those
without an operator parameter can be used; `LeastElement` takes the least element
of a set of numbers from the well-foundedness of `<`, and `MaxIsGreatest` the
greatest, on which the end of a command line's text rests.

The two expected violations stay with TLC: a theorem would only say that the
property fails.

## What is not modelled, and why

* The fields of the JSON messages and documents, base64, hashes, and TPM and EFI
  encodings: a request is accepted or refused, a document is what its reader tells
  apart. `deployment_claim` reads and cannot fail a quote.
* Network, container and package steps of the workflows before the disk build, the
  image build and its workflows: they fetch and pin inputs.
* The console driver, which takes screenshots: no decision depends on it.
* In the PE tools: the bytes nobody reads, the diagnostic text of a refused table,
  and the digests in the receipts. The suffix is one cell, so a command line cannot
  hold a part of it. A read outside the file, which raises `struct.error`, counts as
  a refusal.
* In the positive-control validator: formats, key sizes, trust flags and other
  literals that a writer always writes.
* The verifier of the protocol, which is another repository's.
* swtpm's state directory is taken as new for each boot, as every caller has it.

## Plan

1. *Done:* `Provision`, `Agent`, `BootRun`, `BootRetry`, `BoundedRetry`,
   `AddonCanary`, `PeImage`, `PeTools`, `GuestProbe`, `ControlEvidence`,
   `BootCanary`; the proofs of all their safety properties, and that `BootRetry`
   implements `BoundedRetry`.
2. *Done:* `StableIdentity`, refined by `Provision`, and its proof.
3. An abstract specification of the positive control (a verdict about one admitted
   UKI), refined by `ControlEvidence`.
