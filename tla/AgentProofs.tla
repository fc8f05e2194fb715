----------------------------- MODULE AgentProofs -----------------------------
(***************************************************************************)
(* What holds of Agent for any number of instances, sessions and events.   *)
(* Holding says which points of an activation own a session, Covered what  *)
(* a quote in the making owes to the order of its two reads; with the type *)
(* invariant they are inductive and imply the three properties.            *)
(***************************************************************************)
EXTENDS Agent, TLAPS

Owning == ActivatePoints \ {"startauthsession"}

(* An activation past its first command owns the session its file names, and
   every session not lost is owned that way. *)
Holding ==
  /\ \A i \in Instances : file[i] # None <=> pc[i] \in Owning
  /\ SessionsApart
  /\ SessionsReturned

(* The log is at most one record behind the PCRs, and never behind a quote by
   more than the record that was pending when it was made. *)
Covered ==
  /\ log <= pcr /\ pcr <= log + 1
  /\ \A i \in Instances :
       /\ pc[i] \in {"read_pcrs", "read_logs"} =>
            quoted[i] <= log + (IF pending[i] THEN 1 ELSE 0)
       /\ pc[i] = "read_logs" => values[i] = quoted[i]
       /\ pc[i] # "done" => answered[i] = None
  /\ LogCoversQuote

Inv == TypeOK /\ Holding /\ Covered

-----------------------------------------------------------------------------
(* Every step keeps every variable in its type. *)
LEMMA TypeStep ==
  Inv /\ [Next]_vars => TypeOK'
<1> SUFFICES ASSUME Inv, [Next]_vars PROVE TypeOK'
  OBVIOUS
<1> USE AgentAssumption DEF Inv, TypeOK, Holding, Owning, Outcomes, vars,
     tpmVars, quoteVars, ActivatePoints, QuotePoints, Resting
<1>1. CASE Extend
  BY <1>1 DEF Extend
<1>2. CASE Append
  BY <1>2 DEF Append
<1>3. ASSUME NEW i \in Instances, Accept(i) PROVE TypeOK'
  BY <1>3 DEF Accept, Goto, Ends
<1>4. ASSUME NEW i \in Instances, Close(i) PROVE TypeOK'
  BY <1>4 DEF Close, Goto
<1>5. ASSUME NEW i \in Instances, Kill(i) PROVE TypeOK'
  BY <1>5 DEF Kill, Goto, Ends
<1>6. ASSUME NEW i \in Instances, StartKilled(i) PROVE TypeOK'
  BY <1>6 DEF StartKilled, Goto, Open, Ends
<1>7. ASSUME NEW i \in Instances, StartAuthSession(i) PROVE TypeOK'
  BY <1>7 DEF StartAuthSession, Goto, Open
<1>8. ASSUME NEW i \in Instances, StartFails(i) PROVE TypeOK'
  BY <1>8 DEF StartFails, Goto, Ends
<1>9. ASSUME NEW i \in Instances, SessionCommand(i) PROVE TypeOK'
  BY <1>9 DEF SessionCommand, Goto, Following
<1>10. ASSUME NEW i \in Instances, CommandFails(i) PROVE TypeOK'
  BY <1>10 DEF CommandFails, Goto, Following
<1>11. ASSUME NEW i \in Instances, ReadSecret(i) PROVE TypeOK'
  BY <1>11 DEF ReadSecret, Goto
<1>12. ASSUME NEW i \in Instances, Finally(i) PROVE TypeOK'
  BY <1>12 DEF Finally, Goto
<1>13. ASSUME NEW i \in Instances, Sign(i) PROVE TypeOK'
  BY <1>13 DEF Sign, Goto
<1>14. ASSUME NEW i \in Instances, ReadPcrs(i) PROVE TypeOK'
  BY <1>14 DEF ReadPcrs, Goto, Ends
<1>15. ASSUME NEW i \in Instances, QuoteFails(i) PROVE TypeOK'
  BY <1>15 DEF QuoteFails, Goto, Ends
<1>16. ASSUME NEW i \in Instances, ReadLogs(i) PROVE TypeOK'
  <2>1. /\ answered' \in [Instances -> 0..MaxEvents \union {None}]
        /\ unread' \in [Instances -> BOOLEAN]
    <3>1. unread' \in [Instances -> BOOLEAN]
      BY <1>16 DEF ReadLogs
    <3>2. 0 \in 0..MaxEvents /\ log \in 0..MaxEvents
      OBVIOUS
    <3>3. \/ answered' = answered
          \/ \E n \in 0..MaxEvents : answered' = [answered EXCEPT ![i] = n]
      BY <1>16, <3>2 DEF ReadLogs
    <3>. QED
      BY <3>1, <3>3
  <2>2. /\ pc' = [pc EXCEPT ![i] = "done"]
        /\ \E how \in {"answer", "error"} : outcome' = [outcome EXCEPT ![i] = how]
        /\ UNCHANGED <<tpmVars, file, lost, quoted, values, pending>>
    BY <1>16 DEF ReadLogs, Goto, Ends
  <2>. QED
    BY <2>1, <2>2
<1>17. CASE UNCHANGED vars
  BY <1>17
<1>. QED
  BY <1>1, <1>2, <1>3, <1>4, <1>5, <1>6, <1>7, <1>8, <1>9, <1>10, <1>11,
     <1>12, <1>13, <1>14, <1>15, <1>16, <1>17 DEF Next, Handler

(* Every step keeps each session with the activation that opened it. *)
LEMMA HoldingStep ==
  Inv /\ [Next]_vars => Holding'
<1> SUFFICES ASSUME Inv, [Next]_vars PROVE Holding'
  OBVIOUS
<1> USE AgentAssumption DEF Inv, TypeOK, Holding, Owning, SessionsApart,
     SessionsReturned, vars, tpmVars, quoteVars, ActivatePoints, QuotePoints,
     Resting
<1>1. CASE Extend
  BY <1>1 DEF Extend
<1>2. CASE Append
  BY <1>2 DEF Append
<1>3. ASSUME NEW i \in Instances, Accept(i) PROVE Holding'
  BY <1>3 DEF Accept, Goto, Ends
<1>4. ASSUME NEW i \in Instances, Close(i) PROVE Holding'
  BY <1>4 DEF Close, Goto
<1>5. ASSUME NEW i \in Instances, Kill(i) PROVE Holding'
  BY <1>5 DEF Kill, Goto, Ends
<1>6. ASSUME NEW i \in Instances, StartKilled(i) PROVE Holding'
  <2>1. PICK s \in Sessions : Open(i, s) /\ lost' = lost \union {s}
    BY <1>6 DEF StartKilled
  <2>2. file' = file /\ pc' = [pc EXCEPT ![i] = "done"]
    BY <1>6 DEF StartKilled, Goto, Ends
  <2>3. \A r \in Sessions \ lost' : loaded'[r] = loaded[r]
    BY <2>1 DEF Open
  <2>4. \A j \in Instances : file[j] # None => loaded'[file[j]] = j
    BY <2>1 DEF Open
  <2>5. file[i] = None
    BY <1>6 DEF StartKilled
  <2>6. \A j \in Instances : file'[j] # None <=> pc'[j] \in Owning
    BY <2>2, <2>5
  <2>7. SessionsApart'
    BY <2>2, <2>4
  <2>8. SessionsReturned'
    BY <2>1, <2>2, <2>3, <2>5, <2>6
  <2>. QED
    BY <2>6, <2>7, <2>8
<1>7. ASSUME NEW i \in Instances, StartAuthSession(i) PROVE Holding'
  <2>1. PICK s \in Sessions :
          Open(i, s) /\ file' = [file EXCEPT ![i] = s]
    BY <1>7 DEF StartAuthSession
  <2>2. /\ pc[i] = "startauthsession" /\ lost' = lost
        /\ pc' = [pc EXCEPT ![i] = "policysecret"]
    BY <1>7 DEF StartAuthSession, Goto
  <2>3. /\ loaded[s] = None /\ loaded'[s] = i /\ file'[i] = s /\ s # None
        /\ \A r \in Sessions : r # s => loaded'[r] = loaded[r]
        /\ \A j \in Instances : j # i => file'[j] = file[j]
    BY <2>1 DEF Open
  <2>4. \A j \in Instances : file'[j] # None <=> pc'[j] \in Owning
    BY <2>2, <2>3
  <2>5. SessionsApart'
    <3>1. \A j \in Instances : j # i /\ file[j] # None => file[j] # s
      BY <2>3
    <3>. QED
      BY <2>3, <3>1
  <2>6. SessionsReturned'
    <3> SUFFICES ASSUME NEW r \in Sessions \ lost, loaded'[r] # None
                 PROVE  file'[loaded'[r]] = r
      BY <2>2, <2>3, <2>4
    <3>1. CASE r = s
      BY <2>3, <3>1
    <3>2. CASE r # s
      <4>1. loaded[r] # i
        BY <2>2, <2>3, <3>2
      <4>. QED
        BY <2>3, <3>2, <4>1
    <3>. QED
      BY <3>1, <3>2
  <2>. QED
    BY <2>4, <2>5, <2>6
<1>8. ASSUME NEW i \in Instances, StartFails(i) PROVE Holding'
  BY <1>8 DEF StartFails, Goto, Ends
<1>9. ASSUME NEW i \in Instances, SessionCommand(i) PROVE Holding'
  BY <1>9 DEF SessionCommand, Goto, Following
<1>10. ASSUME NEW i \in Instances, CommandFails(i) PROVE Holding'
  BY <1>10 DEF CommandFails, Goto, Following
<1>11. ASSUME NEW i \in Instances, ReadSecret(i) PROVE Holding'
  BY <1>11 DEF ReadSecret, Goto
<1>12. ASSUME NEW i \in Instances, Finally(i) PROVE Holding'
  BY <1>12 DEF Finally, Goto
<1>13. ASSUME NEW i \in Instances, Sign(i) PROVE Holding'
  BY <1>13 DEF Sign, Goto
<1>14. ASSUME NEW i \in Instances, ReadPcrs(i) PROVE Holding'
  BY <1>14 DEF ReadPcrs, Goto, Ends
<1>15. ASSUME NEW i \in Instances, QuoteFails(i) PROVE Holding'
  BY <1>15 DEF QuoteFails, Goto, Ends
<1>16. ASSUME NEW i \in Instances, ReadLogs(i) PROVE Holding'
  BY <1>16 DEF ReadLogs, Goto, Ends
<1>17. CASE UNCHANGED vars
  BY <1>17
<1>. QED
  BY <1>1, <1>2, <1>3, <1>4, <1>5, <1>6, <1>7, <1>8, <1>9, <1>10, <1>11,
     <1>12, <1>13, <1>14, <1>15, <1>16, <1>17 DEF Next, Handler

(* Every step keeps the log abreast of the quotes. *)
LEMMA CoveredStep ==
  Inv /\ [Next]_vars => Covered'
<1> SUFFICES ASSUME Inv, [Next]_vars PROVE Covered'
  OBVIOUS
<1> USE AgentAssumption DEF Inv, TypeOK, Covered, LogCoversQuote, vars,
     tpmVars, quoteVars, ActivatePoints, QuotePoints, Resting
<1>1. CASE Extend
  BY <1>1 DEF Extend
<1>2. CASE Append
  BY <1>2 DEF Append
<1>3. ASSUME NEW i \in Instances, Accept(i) PROVE Covered'
  BY <1>3 DEF Accept, Goto, Ends
<1>4. ASSUME NEW i \in Instances, Close(i) PROVE Covered'
  BY <1>4 DEF Close, Goto
<1>5. ASSUME NEW i \in Instances, Kill(i) PROVE Covered'
  BY <1>5 DEF Kill, Goto, Ends
<1>6. ASSUME NEW i \in Instances, StartKilled(i) PROVE Covered'
  BY <1>6 DEF StartKilled, Goto, Open, Ends
<1>7. ASSUME NEW i \in Instances, StartAuthSession(i) PROVE Covered'
  BY <1>7 DEF StartAuthSession, Goto, Open
<1>8. ASSUME NEW i \in Instances, StartFails(i) PROVE Covered'
  BY <1>8 DEF StartFails, Goto, Ends
<1>9. ASSUME NEW i \in Instances, SessionCommand(i) PROVE Covered'
  BY <1>9 DEF SessionCommand, Goto, Following
<1>10. ASSUME NEW i \in Instances, CommandFails(i) PROVE Covered'
  BY <1>10 DEF CommandFails, Goto, Following
<1>11. ASSUME NEW i \in Instances, ReadSecret(i) PROVE Covered'
  BY <1>11 DEF ReadSecret, Goto
<1>12. ASSUME NEW i \in Instances, Finally(i) PROVE Covered'
  BY <1>12 DEF Finally, Goto
<1>13. ASSUME NEW i \in Instances, Sign(i) PROVE Covered'
  <2>1. /\ pc' = [pc EXCEPT ![i] = "read_pcrs"]
        /\ quoted'[i] = pcr /\ pending'[i] = (log < pcr)
        /\ \A j \in Instances :
             j # i => quoted'[j] = quoted[j] /\ pending'[j] = pending[j]
        /\ UNCHANGED <<pcr, log, values, answered, unread>>
    BY <1>13 DEF Sign, Goto
  <2>2. pc[i] = "sign" /\ answered[i] = None
    BY <1>13 DEF Sign
  <2>3. quoted'[i] <= log + (IF pending'[i] THEN 1 ELSE 0)
    <3>1. CASE log < pcr
      BY <2>1, <3>1
    <3>2. CASE ~(log < pcr)
      BY <2>1, <3>2
    <3>. QED
      BY <3>1, <3>2
  <2>. QED
    BY <2>1, <2>2, <2>3
<1>14. ASSUME NEW i \in Instances, ReadPcrs(i) PROVE Covered'
  BY <1>14 DEF ReadPcrs, Goto, Ends
<1>15. ASSUME NEW i \in Instances, QuoteFails(i) PROVE Covered'
  BY <1>15 DEF QuoteFails, Goto, Ends
<1>16. ASSUME NEW i \in Instances, ReadLogs(i) PROVE Covered'
  BY <1>16 DEF ReadLogs, Goto, Ends
<1>17. CASE UNCHANGED vars
  BY <1>17
<1>. QED
  BY <1>1, <1>2, <1>3, <1>4, <1>5, <1>6, <1>7, <1>8, <1>9, <1>10, <1>11,
     <1>12, <1>13, <1>14, <1>15, <1>16, <1>17 DEF Next, Handler

-----------------------------------------------------------------------------
LEMMA InitInv == Init => Inv
  BY AgentAssumption DEF Init, Inv, TypeOK, Holding, Owning, Covered,
     SessionsApart, SessionsReturned, LogCoversQuote, ActivatePoints,
     QuotePoints, Resting, Outcomes

(* Inv is an invariant of the agent. *)
THEOREM Invariance == Spec => []Inv
<1>1. Inv /\ [Next]_vars => Inv'
  BY TypeStep, HoldingStep, CoveredStep DEF Inv
<1>. QED
  BY <1>1, InitInv, PTL DEF Spec

(* Every variable keeps its type, for every set of instances and any number of
   events and session slots. *)
THEOREM AgentTypeCorrect == Spec => []TypeOK
<1>1. Inv => TypeOK
  BY DEF Inv
<1>. QED
  BY <1>1, Invariance, PTL

(* For any number of concurrent activations, a TPM session is leaked only by a
   command killed while it opened one, a failed flush or a killed instance. *)
THEOREM SessionsAreReturned == Spec => []SessionsReturned
<1>1. Inv => SessionsReturned
  BY DEF Inv, Holding
<1>. QED
  BY <1>1, Invariance, PTL

(* No activation ever holds the session of another. *)
THEOREM SessionsStayApart == Spec => []SessionsApart
<1>1. Inv => SessionsApart
  BY DEF Inv, Holding
<1>. QED
  BY <1>1, Invariance, PTL

(* The log sent with a quote covers it but for one event in the making, and a
   quote of logged events goes without a log only where it could not be read. *)
THEOREM QuotesAreCovered == Spec => []LogCoversQuote
<1>1. Inv => LogCoversQuote
  BY DEF Inv, Covered
<1>. QED
  BY <1>1, Invariance, PTL

=============================================================================
