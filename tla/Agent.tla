-------------------------------- MODULE Agent --------------------------------
(***************************************************************************)
(* attestos-agent: the `activate` and `quote` handlers of concurrent       *)
(* instances (Accept=yes: one process per connection) over the TPM they    *)
(* share, the event log that is written while they read it, and the        *)
(* service manager that may kill them.  `identity` reads only the files    *)
(* the provisioner publishes: it is in Provision.                          *)
(*                                                                         *)
(* The TPM holds a few sessions.  An activation takes one, keeps it over   *)
(* three commands, each a process of its own with 20 seconds to run, and   *)
(* gives it back in a `finally`.  A quote covers the PCRs at one moment    *)
(* and is answered with a log read later, or without one when the log is   *)
(* empty or cannot be read.  A measurement extends the PCR first and       *)
(* appends its record to the log afterwards.                               *)
(***************************************************************************)
EXTENDS Naturals, FiniteSets

CONSTANTS
  Instances,  (* connections served at once                                *)
  Sessions,   (* session slots of the TPM                                  *)
  MaxEvents,  (* bound: measurements made since the log was empty          *)
  LogLimit,   (* the number of records that fit in MAX_LOG_BYTES           *)
  None        (* no session, no value                                      *)

ASSUME AgentAssumption ==
  /\ IsFiniteSet(Sessions)
  /\ MaxEvents \in Nat /\ LogLimit \in Nat
  /\ None \notin Instances \union Sessions \union Nat

VARIABLES
  pc,        (* what each instance executes next                           *)
  loaded,    (* the TPM's sessions: which instance opened each, or None    *)
  file,      (* the session named in an instance's policy.session, or None *)
  outcome,   (* how the request ended                                      *)
  lost,      (* sessions nobody will give back: the command that opened    *)
             (* one timed out, its flush failed, its instance was killed   *)
  pcr,       (* events extended into the quoted PCRs                       *)
  log,       (* records in the event log: the first `log` events           *)
  quoted,    (* the events covered by an instance's signed quote           *)
  values,    (* the events covered by the PCR values beside it             *)
  pending,   (* an event was extended and not yet logged at the quote      *)
  answered,  (* the records sent with the quote; 0: it was sent without log *)
  unread     (* history: the log could not be read                         *)

quoteVars == <<quoted, values, pending, answered, unread>>
tpmVars == <<loaded, pcr, log>>
vars == <<pc, loaded, file, outcome, lost, pcr, log, quoteVars>>

ActivatePoints == {"startauthsession", "policysecret", "activatecredential",
                   "read_secret", "finally"}
QuotePoints == {"sign", "read_pcrs", "read_logs"}
Resting == {"idle", "done"}
Outcomes == {"none", "answer", "error", "silent"}

TypeOK ==
  /\ pc \in [Instances -> ActivatePoints \union QuotePoints \union Resting]
  /\ loaded \in [Sessions -> Instances \union {None}]
  /\ file \in [Instances -> Sessions \union {None}]
  /\ outcome \in [Instances -> Outcomes]
  /\ lost \subseteq Sessions
  /\ pcr \in 0..MaxEvents /\ log \in 0..MaxEvents
  /\ quoted \in [Instances -> 0..MaxEvents]
  /\ values \in [Instances -> 0..MaxEvents]
  /\ pending \in [Instances -> BOOLEAN]
  /\ answered \in [Instances -> 0..MaxEvents \union {None}]
  /\ unread \in [Instances -> BOOLEAN]

Init ==
  /\ pc = [i \in Instances |-> "idle"]
  /\ loaded = [s \in Sessions |-> None]
  /\ file = [i \in Instances |-> None]
  /\ outcome = [i \in Instances |-> "none"]
  /\ lost = {}
  /\ pcr = 0 /\ log = 0
  /\ quoted = [i \in Instances |-> 0] /\ values = [i \in Instances |-> 0]
  /\ pending = [i \in Instances |-> FALSE]
  /\ answered = [i \in Instances |-> None]
  /\ unread = [i \in Instances |-> FALSE]

Goto(i, point) == pc' = [pc EXCEPT ![i] = point]

(* The process ends: an answer, an AgentError, or an exception that main does
   not catch and that leaves the client without a line. *)
Ends(i, how) ==
  /\ Goto(i, "done")
  /\ outcome' = [outcome EXCEPT ![i] = how]

-----------------------------------------------------------------------------
(* Mutant: the table of handlers has none for the kind, and nobody looks. *)
AcceptUnknown(i) ==
  /\ pc[i] = "idle"
  /\ \/ \E point \in {"startauthsession", "sign", None} :
          Goto(i, point) /\ UNCHANGED outcome
     \/ \E how \in {"error", "silent"} : Ends(i, how)
  /\ UNCHANGED <<tpmVars, file, lost, quoteVars>>

(* A connection is accepted, its request read, and refused or dispatched. *)
Accept(i) ==
  /\ pc[i] = "idle"
  /\ \/ \E point \in {"startauthsession", "sign"} :
          Goto(i, point) /\ UNCHANGED outcome
     \/ \E how \in {"error", "silent"} : Ends(i, how)
  /\ UNCHANGED <<tpmVars, file, lost, quoteVars>>

(* The connection is closed and another one may use the slot. *)
Close(i) ==
  /\ pc[i] = "done"
  /\ Goto(i, "idle")
  /\ outcome' = [outcome EXCEPT ![i] = "none"]
  /\ quoted' = [quoted EXCEPT ![i] = 0] /\ values' = [values EXCEPT ![i] = 0]
  /\ pending' = [pending EXCEPT ![i] = FALSE]
  /\ answered' = [answered EXCEPT ![i] = None]
  /\ unread' = [unread EXCEPT ![i] = FALSE]
  /\ UNCHANGED <<tpmVars, file, lost>>

(* The service manager kills the process (its unit requires the provisioner,
   which is being restarted): no `finally` runs. *)
Kill(i) ==
  /\ pc[i] \notin Resting
  /\ Ends(i, "silent")
  /\ file' = [file EXCEPT ![i] = None]
  /\ lost' = lost \union ({file[i]} \ {None})
  /\ UNCHANGED <<tpmVars, quoteVars>>

-----------------------------------------------------------------------------
(* activate *)

Open(i, s) ==
  /\ loaded[s] = None
  /\ loaded' = [loaded EXCEPT ![s] = i]

StartAuthSession(i) ==
  /\ pc[i] = "startauthsession"
  /\ \E s \in Sessions : Open(i, s) /\ file' = [file EXCEPT ![i] = s]
  /\ Goto(i, "policysecret")
  /\ UNCHANGED <<outcome, lost, pcr, log, quoteVars>>

(* Mutant: an activation waits for a session to become free. *)
StartWaits(i) ==
  /\ pc[i] = "startauthsession"
  /\ \E s \in Sessions : loaded[s] = None
  /\ \E how \in {"error", "silent"} : Ends(i, how)
  /\ UNCHANGED <<tpmVars, file, lost, quoteVars>>

(* No session is left, or the command fails for another reason. *)
StartFails(i) ==
  /\ pc[i] = "startauthsession"
  /\ \E how \in {"error", "silent"} : Ends(i, how)
  /\ UNCHANGED <<tpmVars, file, lost, quoteVars>>

(* The command is killed, after 20 seconds or with its instance, when the
   session is open and the file that names it not yet written: `finally` finds
   nothing to flush. *)
StartKilled(i) ==
  /\ pc[i] = "startauthsession"
  /\ \E s \in Sessions : Open(i, s) /\ lost' = lost \union {s}
  /\ \E how \in {"error", "silent"} : Ends(i, how)
  /\ UNCHANGED <<file, pcr, log, quoteVars>>

Following == [policysecret |-> "activatecredential",
              activatecredential |-> "read_secret"]

SessionCommand(i) ==
  /\ pc[i] \in DOMAIN Following
  /\ Goto(i, Following[pc[i]])
  /\ UNCHANGED <<tpmVars, file, outcome, lost, quoteVars>>

(* Mutant: no `finally`, the error is raised at once. *)
CommandFailsAtOnce(i) ==
  /\ pc[i] \in DOMAIN Following \union {"read_secret"}
  /\ \E how \in {"error", "silent"} : Ends(i, how)
  /\ UNCHANGED <<tpmVars, file, lost, quoteVars>>

(* A command fails or times out: `finally` runs, then the error is raised. *)
CommandFails(i) ==
  /\ pc[i] \in DOMAIN Following \union {"read_secret"}
  /\ \E how \in {"error", "silent"} : outcome' = [outcome EXCEPT ![i] = how]
  /\ Goto(i, "finally")
  /\ UNCHANGED <<tpmVars, file, lost, quoteVars>>

(* The secret is read; one that is not 32 bytes long is an error after the
   session was given back. *)
ReadSecret(i) ==
  /\ pc[i] = "read_secret"
  /\ \E how \in {"answer", "error"} : outcome' = [outcome EXCEPT ![i] = how]
  /\ Goto(i, "finally")
  /\ UNCHANGED <<tpmVars, file, lost, quoteVars>>

(* Mutant: `tpm2_flushcontext -l`, every loaded session. *)
FinallyFlushesAll(i) ==
  /\ pc[i] = "finally"
  /\ loaded' = [s \in Sessions |-> None]
  /\ UNCHANGED lost
  /\ file' = [file EXCEPT ![i] = None]
  /\ Goto(i, "done")
  /\ UNCHANGED <<outcome, pcr, log, quoteVars>>

(* tpm2_flushcontext, whose status nobody looks at. *)
Finally(i) ==
  /\ pc[i] = "finally"
  /\ \/ loaded' = [s \in Sessions |-> IF s = file[i] THEN None ELSE loaded[s]]
        /\ UNCHANGED lost
     \/ UNCHANGED loaded /\ lost' = lost \union {file[i]}
  /\ file' = [file EXCEPT ![i] = None]
  /\ Goto(i, "done")
  /\ UNCHANGED <<outcome, pcr, log, quoteVars>>

-----------------------------------------------------------------------------
(* quote *)

(* One tpm2_quote signs the PCRs and then reads their values ... *)
Sign(i) ==
  /\ pc[i] = "sign"
  /\ quoted' = [quoted EXCEPT ![i] = pcr]
  /\ pending' = [pending EXCEPT ![i] = log < pcr]
  /\ Goto(i, "read_pcrs")
  /\ UNCHANGED <<tpmVars, file, outcome, lost, values, answered, unread>>

(* ... and fails when they do not match what it signed. *)
ReadPcrs(i) ==
  /\ pc[i] = "read_pcrs"
  /\ values' = [values EXCEPT ![i] = pcr]
  /\ IF pcr = quoted[i] THEN Goto(i, "read_logs") /\ UNCHANGED outcome
                        ELSE Ends(i, "error")
  /\ UNCHANGED <<tpmVars, file, lost, quoted, pending, answered, unread>>

QuoteFails(i) ==
  /\ pc[i] \in QuotePoints
  /\ \E how \in {"error", "silent"} : Ends(i, how)
  /\ UNCHANGED <<tpmVars, file, lost, quoteVars>>

(* Mutant: a log beyond the limit is cut off and not refused. *)
ReadLogsTruncated(i) ==
  /\ pc[i] = "read_logs"
  /\ answered' = [answered EXCEPT ![i] = IF log <= LogLimit THEN log
                                                           ELSE LogLimit]
  /\ Ends(i, "answer")
  /\ UNCHANGED <<tpmVars, file, lost, quoted, values, pending, unread>>

(* read_optional_log after the quote: a log beyond the limit is an error, one
   that cannot be read is left out like an empty one.  The AK file and the
   deployment claim that follow do not depend on it. *)
ReadLogs(i) ==
  /\ pc[i] = "read_logs"
  /\ \/ /\ log <= LogLimit
        /\ answered' = [answered EXCEPT ![i] = log] /\ UNCHANGED unread
        /\ Ends(i, "answer")
     \/ /\ answered' = [answered EXCEPT ![i] = 0]
        /\ unread' = [unread EXCEPT ![i] = TRUE]
        /\ Ends(i, "answer")
     \/ /\ log > LogLimit
        /\ UNCHANGED <<answered, unread>>
        /\ Ends(i, "error")
  /\ UNCHANGED <<tpmVars, file, lost, quoted, values, pending>>

-----------------------------------------------------------------------------
(* systemd measures: one writer at a time, the PCR before the log. *)
Extend ==
  /\ pcr = log /\ pcr < MaxEvents
  /\ pcr' = pcr + 1
  /\ UNCHANGED <<pc, loaded, file, outcome, lost, log, quoteVars>>

Append ==
  /\ log < pcr
  /\ log' = log + 1
  /\ UNCHANGED <<pc, loaded, file, outcome, lost, pcr, quoteVars>>

Handler(i) ==
  \/ StartAuthSession(i) \/ StartFails(i) \/ SessionCommand(i)
  \/ CommandFails(i) \/ ReadSecret(i) \/ Finally(i)
  \/ Sign(i) \/ ReadPcrs(i) \/ QuoteFails(i) \/ ReadLogs(i)

Next ==
  \/ Extend \/ Append
  \/ \E i \in Instances : Accept(i) \/ Close(i) \/ Kill(i) \/ StartKilled(i)
                          \/ Handler(i)

Spec == Init /\ [][Next]_vars

(* Fairness: `run` gives each command 20 seconds; the flush in `finally` has no
   limit and is assumed to return. *)
FairSpec == Spec /\ \A i \in Instances : WF_vars(Handler(i))

-----------------------------------------------------------------------------
(* Properties. *)

(* A session of the TPM belongs to an activation that is still running and will
   flush it, unless it was lost in one of the three ways `finally` cannot mend:
   error paths, refused secrets and other instances never leak one. *)
SessionsReturned ==
  \A s \in Sessions \ lost : loaded[s] # None =>
    file[loaded[s]] = s /\ pc[loaded[s]] \in ActivatePoints

(* No instance flushes, or holds a file that names, the session of another. *)
SessionsApart ==
  \A i \in Instances : file[i] # None => loaded[file[i]] = i

(* The values sent are the quoted ones, and the log sent with a quote covers it:
   it holds a record of every event in the quoted PCRs, but for the one that was
   being measured when the quote was made and was not logged yet.  It is never a
   part of the log; where the log could not be read, none is sent at all. *)
LogCoversQuote ==
  \A i \in Instances : answered[i] # None =>
    /\ values[i] = quoted[i]
    /\ \/ quoted[i] <= answered[i] + (IF pending[i] THEN 1 ELSE 0)
       \/ unread[i] /\ answered[i] = 0

(* Every accepted request comes to an end. *)
RequestsEnd ==
  \A i \in Instances : pc[i] \notin Resting ~> pc[i] \in Resting

=============================================================================
