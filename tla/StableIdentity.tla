--------------------------- MODULE StableIdentity ----------------------------
(***************************************************************************)
(* What the provisioner, its unit and the agent promise a verifier         *)
(* together: the machine has one identity at a time, every answer is that  *)
(* identity, and a key that is in use is never replaced.  An EK or an AK   *)
(* is made only where there is none, and never beside an identity that is  *)
(* still being answered; only the TPM itself, cleared or exchanged,        *)
(* forgets keys.                                                           *)
(***************************************************************************)
CONSTANTS
  Instances,  (* who answers                                               *)
  None        (* no key, no certificate                                    *)

VARIABLES
  ek, ak,    (* the persistent keys of the TPM                             *)
  cert,      (* the manufacturer's certificate in it                       *)
  identity,  (* what is published                                          *)
  answers    (* the answer each instance has given and not yet closed      *)

identityPromise == <<ek, ak, cert, identity, answers>>

Nobody == [ek |-> None, ak |-> None, name |-> None, cert |-> None]
NoAnswers == [i \in Instances |-> Nobody]

Start ==
  /\ ek = None /\ ak = None
  /\ identity = Nobody /\ answers = NoAnswers

(* What only happens while no identity is published. *)
Unpublished == identity = Nobody /\ UNCHANGED <<identity, answers>>

MakeEk ==
  /\ Unpublished
  /\ ek = None /\ ek' # None
  /\ UNCHANGED <<ak, cert>>

MakeAk ==
  /\ Unpublished
  /\ ak = None /\ ak' # None
  /\ UNCHANGED <<ek, cert>>

(* The TPM is cleared, or it is another one, with a certificate of its own. *)
Forget ==
  /\ Unpublished
  /\ ek' = None /\ ak' = None

(* The AK's name is published with the AK it is the name of. *)
Publish ==
  /\ identity = Nobody /\ ek # None /\ ak # None
  /\ \E c \in {None, cert} :
       identity' = [ek |-> ek, ak |-> ak, name |-> ak, cert |-> c]
  /\ UNCHANGED <<ek, ak, cert, answers>>

(* A restart or a power loss takes the answers back with the identity. *)
Withdraw ==
  /\ identity # Nobody
  /\ identity' = Nobody /\ answers' = NoAnswers
  /\ UNCHANGED <<ek, ak, cert>>

Answer(i) ==
  /\ identity # Nobody /\ answers[i] = Nobody
  /\ answers' = [answers EXCEPT ![i] = identity]
  /\ UNCHANGED <<ek, ak, cert, identity>>

Leave(i) ==
  /\ answers[i] # Nobody
  /\ answers' = [answers EXCEPT ![i] = Nobody]
  /\ UNCHANGED <<ek, ak, cert, identity>>

Step ==
  \/ MakeEk \/ MakeAk \/ Forget \/ Publish \/ Withdraw
  \/ \E i \in Instances : Answer(i) \/ Leave(i)

Promise == Start /\ [][Step]_identityPromise

=============================================================================
