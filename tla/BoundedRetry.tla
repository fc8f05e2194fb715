---------------------------- MODULE BoundedRetry -----------------------------
(***************************************************************************)
(* What the retry wrapper promises: a sequence of at most MaxAttempts      *)
(* boots in which only a silent one (a time-out that left no receipt) is   *)
(* followed by another, and a verdict given once, that accepts only the    *)
(* last boot and only when it delivered a receipt.                         *)
(***************************************************************************)
EXTENDS Naturals, Sequences

CONSTANT MaxAttempts

VARIABLES
  outcomes,  (* of the boots so far: "receipt", "silent" or "failed"       *)
  verdict    (* "none", "accepted" or "refused"                            *)

retryPromise == <<outcomes, verdict>>

Start == outcomes = <<>> /\ verdict = "none"

MayBoot ==
  /\ Len(outcomes) < MaxAttempts
  /\ \A k \in 1..Len(outcomes) : outcomes[k] = "silent"

Boot ==
  /\ verdict = "none" /\ MayBoot
  /\ \E o \in {"receipt", "silent", "failed"} : outcomes' = Append(outcomes, o)
  /\ UNCHANGED verdict

Accept ==
  /\ verdict = "none"
  /\ outcomes # <<>> /\ outcomes[Len(outcomes)] = "receipt"
  /\ verdict' = "accepted"
  /\ UNCHANGED outcomes

(* The wrapper may refuse at any time: it has failed, or no boot is left. *)
Refuse ==
  /\ verdict = "none"
  /\ verdict' = "refused"
  /\ UNCHANGED outcomes

(* A new invocation, which may fail before its first boot. *)
Again == outcomes' = <<>> /\ verdict' \in {"none", "refused"}

Step == Boot \/ Accept \/ Refuse \/ Again

Promise == Start /\ [][Step]_retryPromise

=============================================================================
