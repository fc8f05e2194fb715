--------------------------- MODULE ProvisionProofs ---------------------------
(***************************************************************************)
(* What holds of Provision for every set of seeds, instances and slots and *)
(* for every bound on the number of AKs.                                   *)
(*                                                                         *)
(* ActiveMeansCoherent is not inductive: that the script ends with files   *)
(* that match the TPM depends on what each finished command has already    *)
(* established, and that an answer matches depends on the unit having      *)
(* stayed active since the instance began to read.  Progress, Installed    *)
(* and Reading say so.  Slotted follows the handle of a new AK from one    *)
(* listing of the TPM's transient objects to the next.                      *)
(***************************************************************************)
EXTENDS Provision, FiniteSetTheorems, TLAPS

(* The script runs exactly while its unit is activating, and only while the
   machine is on. *)
Progress ==
  /\ svc = "activating" <=> pc # "idle"
  /\ opened => pc \in Files
  /\ ~on => svc = "inactive"

BeforeEk == {"idle", "ekProbe", "ekMake", "ekRead", "ek.pem", "hung"}
HasAk == {"recheck", "flush", "akRead", "ak.pem", "ak.name", "cert", "ek.crt",
          "ready"}

(* What each command of the script leaves for the next ones. *)
Installed ==
  /\ pc = "ekRead" => ekHandle # None
  /\ pc = "ek.pem" => ekHandle # None /\ work["ek.pem"] = ekHandle
  /\ pc \notin BeforeEk \/ svc = "active" =>
       ekHandle # None /\ disk["ek.pem"] = ekHandle
  /\ pc \in {"after", "evict"} => work["ak.pem"] \in Aks
  /\ pc \in HasAk \/ svc = "active" => akHandle # None
  /\ pc = "ak.pem" => work["ak.pem"] = akHandle
  /\ pc \in {"ak.pem", "ak.name"} => work["ak.name"] = akHandle
  /\ pc \in {"ak.name", "cert", "ek.crt", "ready"} \/ svc = "active" =>
       disk["ak.pem"] = akHandle
  /\ pc \in {"cert", "ek.crt", "ready"} \/ svc = "active" =>
       disk["ak.name"] = akHandle
  /\ pc = "ek.crt" => work["ek.crt"] = nvCert
  /\ pc = "ready" \/ svc = "active" => disk["ek.crt"] \in {None, nvCert}

(* What a vouched instance has read. *)
Reading(i) ==
  /\ inst[i] = "waiting" => svc = "activating"
  /\ inst[i] \in {"idle", "waiting", "ek.crt"} => got[i] = NoFiles
  /\ vouched[i] => svc = "active" /\ got[i]["ek.crt"] \in {None, nvCert}
  /\ vouched[i] /\ inst[i] \in {"ak.name", "ek.pem", "answered"} =>
       got[i]["ak.pem"] = akHandle
  /\ vouched[i] /\ inst[i] \in {"ek.pem", "answered"} =>
       got[i]["ak.name"] = akHandle
  /\ vouched[i] /\ inst[i] = "answered" => got[i]["ek.pem"] = ekHandle
  /\ vouched[i] /\ inst[i] \in {"ak.pem", "ak.name", "ek.pem", "answered"} =>
       got[i]["ek.crt"] = disk["ek.crt"]

(* Between the first listing and the flush. *)
Window == {"akMake", "after", "evict", "recheck", "flush"}

(* While no other user released an object, the handles listed before stay
   taken, and a handle listed as new is the script's own. *)
Listing ==
  /\ managed \/ ~on => \A h \in Slots : slot[h] = "free"
  /\ pc \in Window /\ ~released => \A h \in before : slot[h] # "free"
  /\ pc = "after" /\ ~released /\ ~managed =>
       \E h \in Slots \ before : slot[h] = "prov"
  /\ pc \in {"evict", "recheck", "flush"} /\ ~released =>
       \A h \in new : slot[h] = "prov"

(* An object of the script's is left in the TPM only on the way from createak to
   the flush, after a failure, or beside an AK that is already persistent; and
   beside that AK not more than one. *)
Leftover ==
  /\ ~failed /\ akHandle = None /\ pc \notin {"after", "evict", "hung"} =>
       \A h \in Slots : slot[h] # "prov"
  /\ ~failed /\ (akHandle = None \/ pc \notin {"after", "evict", "hung"}) =>
       \A g, h \in Slots : slot[g] = "prov" /\ slot[h] = "prov" => g = h
  /\ ~failed /\ ~released /\ ~unlisted /\ pc \notin Window \union {"hung"} =>
       \A h \in Slots : slot[h] # "prov"
  /\ ~failed /\ ~released /\ akHandle = None /\ pc = "after" =>
       \A h \in before : slot[h] # "prov"
  /\ ~failed /\ ~released /\ ~unlisted /\ akHandle = None /\ pc = "evict" =>
       \A h \in Slots : slot[h] = "prov" => h \in new
  /\ ~failed /\ ~released /\ ~unlisted /\ pc \in {"recheck", "flush"} =>
       \A h \in Slots : slot[h] = "prov" => h \in new

Slotted == Listing /\ Leftover

Inv ==
  /\ TypeOK /\ Progress /\ Installed /\ Slotted
  /\ \A i \in Instances : Reading(i)

-----------------------------------------------------------------------------
(* Every step keeps every variable in its type. *)
LEMMA TypeStep ==
  TypeOK /\ Progress /\ Installed /\ [Next]_vars => TypeOK'
<1> SUFFICES ASSUME TypeOK, Progress, Installed, [Next]_vars PROVE TypeOK'
  OBVIOUS
<1> USE BoundsAssumption DEF TypeOK, Progress, Content, Aks, Owners, Files,
     NoFiles, ScriptPoints, Listed, vars, keys, store, window, tpmVars,
     scriptVars, instVars
<1>1. CASE PowerOn
  BY <1>1 DEF PowerOn
<1>2. CASE DeviceAppears
  BY <1>2 DEF DeviceAppears
<1>3. CASE PowerLoss
  <2>1. PICK torn \in SUBSET written :
          disk' = [f \in Files |-> IF f \in torn THEN Torn ELSE disk[f]]
    BY <1>3 DEF PowerLoss
  <2>2. disk' \in [Files -> Content]
    BY <2>1
  <2>. QED
    BY <1>3, <2>2 DEF PowerLoss
<1>4. CASE ClearTpm
  BY <1>4 DEF ClearTpm
<1>5. CASE ReplaceTpm
  BY <1>5 DEF ReplaceTpm
<1>6. CASE OtherLoad
  BY <1>6 DEF OtherLoad
<1>7. CASE OtherRelease
  BY <1>7 DEF OtherRelease
<1>8. CASE BootStart
  BY <1>8 DEF BootStart, StartJob
<1>9. CASE RestartProvision
  BY <1>9 DEF RestartProvision
<1>10. CASE ProbeEk
  BY <1>10 DEF ProbeEk, machineSame, listingSame
<1>11. CASE CreateEk
  BY <1>11 DEF CreateEk, machineSame, listingSame
<1>12. CASE ReadEk
  BY <1>12 DEF ReadEk, machineSame, listingSame
<1>13. CASE ProbeAk
  BY <1>13 DEF ProbeAk, machineSame, listingSame
<1>14. CASE ListBefore
  BY <1>14 DEF ListBefore, machineSame, listingSame
<1>15. CASE CreateAk
  BY <1>15 DEF CreateAk, machineSame, listingSame
<1>16. CASE ListAfter
  BY <1>16 DEF ListAfter, machineSame, listingSame
<1>17. CASE EvictAk
  BY <1>17 DEF EvictAk, machineSame, listingSame, Installed
<1>18. CASE Recheck
  BY <1>18 DEF Recheck, machineSame, listingSame
<1>19. CASE FlushNew
  BY <1>19 DEF FlushNew, machineSame, listingSame
<1>20. CASE ReadAk
  BY <1>20 DEF ReadAk, machineSame, listingSame
<1>21. CASE OpenDestination
  BY <1>21 DEF OpenDestination, machineSame, listingSame
<1>22. CASE WriteDestination
  BY <1>22 DEF WriteDestination, Following, machineSame, listingSame
<1>23. CASE ReadCert
  <2>1. disk' \in [Files -> Content] /\ work' \in [Files -> Content]
    BY <1>23 DEF ReadCert
  <2>2. pc' \in ScriptPoints /\ written' \subseteq Files
    BY <1>23 DEF ReadCert
  <2>. QED
    BY <1>23, <2>1, <2>2 DEF ReadCert, machineSame, listingSame
<1>24. CASE Finish
  BY <1>24 DEF Finish, machineSame, listingSame
<1>25. CASE Abandon
  BY <1>25 DEF Abandon, Refused, Exit
<1>26. CASE Fail
  BY <1>26 DEF Fail, Exit
<1>27. ASSUME NEW i \in Instances, Connect(i) PROVE TypeOK'
  BY <1>27 DEF Connect, StartJob
<1>28. ASSUME NEW i \in Instances, Read(i) PROVE TypeOK'
  BY <1>28 DEF Read, NextRead, instanceSame
<1>29. ASSUME NEW i \in Instances, ReadNothing(i) PROVE TypeOK'
  <2>1. /\ inst' \in [Instances ->
                        {"idle", "waiting", "answered"} \union Files]
        /\ got' \in [Instances -> [Files -> Content]]
        /\ vouched' \in [Instances -> BOOLEAN]
    <3>1. CASE inst[i] = "ek.crt"
      BY <1>29, <3>1 DEF ReadNothing
    <3>2. CASE inst[i] # "ek.crt"
      <4>1. NoFiles \in [Files -> Content]
        OBVIOUS
      <4>2. got' = [got EXCEPT ![i] = NoFiles]
        BY <1>29, <3>2 DEF ReadNothing
      <4>3. got' \in [Instances -> [Files -> Content]]
        <5> HIDE DEF NoFiles, Content, Files
        <5>. QED
          BY <4>1, <4>2
      <4>4. /\ inst' = [inst EXCEPT ![i] = "idle"]
            /\ vouched' = [vouched EXCEPT ![i] = FALSE]
        BY <1>29, <3>2 DEF ReadNothing
      <4>5. inst' \in [Instances ->
                        {"idle", "waiting", "answered"} \union Files]
        BY <4>4
      <4>6. vouched' \in [Instances -> BOOLEAN]
        BY <4>4
      <4>. QED
        BY <4>3, <4>5, <4>6
    <3>. QED
      BY <3>1, <3>2
  <2>. QED
    BY <1>29, <2>1 DEF ReadNothing, instanceSame
<1>30. ASSUME NEW i \in Instances, Close(i) PROVE TypeOK'
  BY <1>30 DEF Close, instanceSame
<1>31. CASE UNCHANGED vars
  BY <1>31
<1>32. CASE Hang
  BY <1>32 DEF Hang, machineSame, listingSame
<1>. QED
  BY <1>1, <1>2, <1>3, <1>4, <1>5, <1>6, <1>7, <1>8, <1>9, <1>10, <1>11,
     <1>12, <1>13, <1>14, <1>15, <1>16, <1>17, <1>18, <1>19, <1>20, <1>21,
     <1>22, <1>23, <1>24, <1>25, <1>26, <1>27, <1>28, <1>29, <1>30, <1>31,
     <1>32
     DEF Next, Machine, Script

(* The unit is activating exactly while the script runs. *)
LEMMA ProgressStep ==
  TypeOK /\ Progress /\ [Next]_vars => Progress'
<1> SUFFICES ASSUME TypeOK, Progress, [Next]_vars PROVE Progress'
  OBVIOUS
<1> USE DEF TypeOK, Progress, ScriptPoints, Files, vars, keys, store, window,
     tpmVars, scriptVars, instVars
<1>1. CASE PowerOn
  BY <1>1 DEF PowerOn
<1>2. CASE DeviceAppears
  BY <1>2 DEF DeviceAppears
<1>3. CASE PowerLoss
  BY <1>3 DEF PowerLoss
<1>4. CASE ClearTpm
  BY <1>4 DEF ClearTpm
<1>5. CASE ReplaceTpm
  BY <1>5 DEF ReplaceTpm
<1>6. CASE OtherLoad
  BY <1>6 DEF OtherLoad
<1>7. CASE OtherRelease
  BY <1>7 DEF OtherRelease
<1>8. CASE BootStart
  BY <1>8 DEF BootStart, StartJob
<1>9. CASE RestartProvision
  BY <1>9 DEF RestartProvision
<1>10. CASE ProbeEk
  BY <1>10 DEF ProbeEk, machineSame, listingSame
<1>11. CASE CreateEk
  BY <1>11 DEF CreateEk, machineSame, listingSame
<1>12. CASE ReadEk
  BY <1>12 DEF ReadEk, machineSame, listingSame
<1>13. CASE ProbeAk
  BY <1>13 DEF ProbeAk, machineSame, listingSame
<1>14. CASE ListBefore
  BY <1>14 DEF ListBefore, machineSame, listingSame
<1>15. CASE CreateAk
  BY <1>15 DEF CreateAk, machineSame, listingSame
<1>16. CASE ListAfter
  BY <1>16 DEF ListAfter, machineSame, listingSame
<1>17. CASE EvictAk
  BY <1>17 DEF EvictAk, machineSame, listingSame
<1>18. CASE Recheck
  BY <1>18 DEF Recheck, machineSame, listingSame
<1>19. CASE FlushNew
  BY <1>19 DEF FlushNew, machineSame, listingSame
<1>20. CASE ReadAk
  BY <1>20 DEF ReadAk, machineSame, listingSame
<1>21. CASE OpenDestination
  BY <1>21 DEF OpenDestination, machineSame, listingSame
<1>22. CASE WriteDestination
  BY <1>22 DEF WriteDestination, Following, machineSame, listingSame
<1>23. CASE ReadCert
  BY <1>23 DEF ReadCert, machineSame, listingSame
<1>24. CASE Finish
  BY <1>24 DEF Finish, machineSame, listingSame
<1>25. CASE Abandon
  BY <1>25 DEF Abandon, Refused, Exit
<1>26. CASE Fail
  BY <1>26 DEF Fail, Exit
<1>27. ASSUME NEW i \in Instances, Connect(i) PROVE Progress'
  BY <1>27 DEF Connect, StartJob
<1>28. ASSUME NEW i \in Instances, Read(i) PROVE Progress'
  BY <1>28 DEF Read, NextRead, instanceSame
<1>29. ASSUME NEW i \in Instances, ReadNothing(i) PROVE Progress'
  BY <1>29 DEF ReadNothing, instanceSame
<1>30. ASSUME NEW i \in Instances, Close(i) PROVE Progress'
  BY <1>30 DEF Close, instanceSame
<1>31. CASE UNCHANGED vars
  BY <1>31
<1>32. CASE Hang
  BY <1>32 DEF Hang, machineSame, listingSame
<1>. QED
  BY <1>1, <1>2, <1>3, <1>4, <1>5, <1>6, <1>7, <1>8, <1>9, <1>10, <1>11,
     <1>12, <1>13, <1>14, <1>15, <1>16, <1>17, <1>18, <1>19, <1>20, <1>21,
     <1>22, <1>23, <1>24, <1>25, <1>26, <1>27, <1>28, <1>29, <1>30, <1>31,
     <1>32
     DEF Next, Machine, Script

(* Every command hands on what the next ones rely on. *)
LEMMA InstalledStep ==
  TypeOK /\ Progress /\ Installed /\ [Next]_vars => Installed'
<1> SUFFICES ASSUME TypeOK, Progress, Installed, [Next]_vars PROVE Installed'
  OBVIOUS
<1> USE BoundsAssumption DEF TypeOK, Progress, Installed, BeforeEk, HasAk, Aks,
     ScriptPoints, Files, vars, keys, store, window,
     tpmVars, scriptVars, instVars
<1>1. CASE PowerOn
  BY <1>1 DEF PowerOn
<1>2. CASE DeviceAppears
  BY <1>2 DEF DeviceAppears
<1>3. CASE PowerLoss
  BY <1>3 DEF PowerLoss
<1>4. CASE ClearTpm
  BY <1>4 DEF ClearTpm
<1>5. CASE ReplaceTpm
  BY <1>5 DEF ReplaceTpm
<1>6. CASE OtherLoad
  BY <1>6 DEF OtherLoad
<1>7. CASE OtherRelease
  BY <1>7 DEF OtherRelease
<1>8. CASE BootStart
  BY <1>8 DEF BootStart, StartJob
<1>9. CASE RestartProvision
  BY <1>9 DEF RestartProvision
<1>10. CASE ProbeEk
  BY <1>10 DEF ProbeEk, machineSame, listingSame
<1>11. CASE CreateEk
  BY <1>11 DEF CreateEk, machineSame, listingSame
<1>12. CASE ReadEk
  BY <1>12 DEF ReadEk, machineSame, listingSame
<1>13. CASE ProbeAk
  BY <1>13 DEF ProbeAk, machineSame, listingSame
<1>14. CASE ListBefore
  BY <1>14 DEF ListBefore, machineSame, listingSame
<1>15. CASE CreateAk
  BY <1>15 DEF CreateAk, machineSame, listingSame
<1>16. CASE ListAfter
  BY <1>16 DEF ListAfter, machineSame, listingSame
<1>17. CASE EvictAk
  BY <1>17 DEF EvictAk, machineSame, listingSame
<1>18. CASE Recheck
  BY <1>18 DEF Recheck, machineSame, listingSame
<1>19. CASE FlushNew
  BY <1>19 DEF FlushNew, machineSame, listingSame
<1>20. CASE ReadAk
  BY <1>20 DEF ReadAk, machineSame, listingSame
<1>21. CASE OpenDestination
  BY <1>21 DEF OpenDestination, machineSame, listingSame
<1>22. CASE WriteDestination
  BY <1>22 DEF WriteDestination, Following, machineSame, listingSame
<1>23. CASE ReadCert
  BY <1>23 DEF ReadCert, machineSame, listingSame
<1>24. CASE Finish
  BY <1>24 DEF Finish, machineSame, listingSame
<1>25. CASE Abandon
  BY <1>25 DEF Abandon, Refused, Exit
<1>26. CASE Fail
  BY <1>26 DEF Fail, Exit
<1>27. ASSUME NEW i \in Instances, Connect(i) PROVE Installed'
  BY <1>27 DEF Connect, StartJob
<1>28. ASSUME NEW i \in Instances, Read(i) PROVE Installed'
  BY <1>28 DEF Read, NextRead, instanceSame
<1>29. ASSUME NEW i \in Instances, ReadNothing(i) PROVE Installed'
  BY <1>29 DEF ReadNothing, instanceSame
<1>30. ASSUME NEW i \in Instances, Close(i) PROVE Installed'
  BY <1>30 DEF Close, instanceSame
<1>31. CASE UNCHANGED vars
  BY <1>31
<1>32. CASE Hang
  BY <1>32 DEF Hang, machineSame, listingSame
<1>. QED
  BY <1>1, <1>2, <1>3, <1>4, <1>5, <1>6, <1>7, <1>8, <1>9, <1>10, <1>11,
     <1>12, <1>13, <1>14, <1>15, <1>16, <1>17, <1>18, <1>19, <1>20, <1>21,
     <1>22, <1>23, <1>24, <1>25, <1>26, <1>27, <1>28, <1>29, <1>30, <1>31,
     <1>32
     DEF Next, Machine, Script

(* What a vouched instance has read stays what the TPM holds. *)
LEMMA ReadingStep ==
  Inv /\ [Next]_vars => (\A j \in Instances : Reading(j))'
<1> SUFFICES ASSUME Inv, [Next]_vars, NEW j \in Instances PROVE Reading(j)'
  OBVIOUS
<1> USE BoundsAssumption DEF Inv, TypeOK, Progress, Installed, Reading, HasAk,
     BeforeEk, Aks, ScriptPoints, Files, vars, keys, store, window, tpmVars,
     scriptVars, instVars
<1>1. CASE PowerOn
  BY <1>1 DEF PowerOn
<1>2. CASE DeviceAppears
  BY <1>2 DEF DeviceAppears
<1>3. CASE PowerLoss
  BY <1>3 DEF PowerLoss
<1>4. CASE ClearTpm
  BY <1>4 DEF ClearTpm
<1>5. CASE ReplaceTpm
  BY <1>5 DEF ReplaceTpm
<1>6. CASE OtherLoad
  BY <1>6 DEF OtherLoad
<1>7. CASE OtherRelease
  BY <1>7 DEF OtherRelease
<1>8. CASE BootStart
  BY <1>8 DEF BootStart, StartJob
<1>9. CASE RestartProvision
  BY <1>9 DEF RestartProvision
<1>10. CASE ProbeEk
  BY <1>10 DEF ProbeEk, machineSame, listingSame
<1>11. CASE CreateEk
  BY <1>11 DEF CreateEk, machineSame, listingSame
<1>12. CASE ReadEk
  BY <1>12 DEF ReadEk, machineSame, listingSame
<1>13. CASE ProbeAk
  BY <1>13 DEF ProbeAk, machineSame, listingSame
<1>14. CASE ListBefore
  BY <1>14 DEF ListBefore, machineSame, listingSame
<1>15. CASE CreateAk
  BY <1>15 DEF CreateAk, machineSame, listingSame
<1>16. CASE ListAfter
  BY <1>16 DEF ListAfter, machineSame, listingSame
<1>17. CASE EvictAk
  BY <1>17 DEF EvictAk, machineSame, listingSame
<1>18. CASE Recheck
  BY <1>18 DEF Recheck, machineSame, listingSame
<1>19. CASE FlushNew
  BY <1>19 DEF FlushNew, machineSame, listingSame
<1>20. CASE ReadAk
  BY <1>20 DEF ReadAk, machineSame, listingSame
<1>21. CASE OpenDestination
  BY <1>21 DEF OpenDestination, machineSame, listingSame
<1>22. CASE WriteDestination
  BY <1>22 DEF WriteDestination, Following, machineSame, listingSame
<1>23. CASE ReadCert
  BY <1>23 DEF ReadCert, machineSame, listingSame
<1>24. CASE Finish
  <2>1. /\ svc = "activating" /\ svc' = "active"
        /\ UNCHANGED <<got, ekHandle, akHandle, nvCert>>
    BY <1>24 DEF Finish, machineSame, listingSame
  <2>2. CASE inst[j] = "waiting"
    <3>1. inst'[j] = "ek.crt" /\ got[j] = NoFiles
      BY <1>24, <2>2 DEF Finish
    <3>. QED
      BY <2>1, <3>1 DEF NoFiles
  <2>3. CASE inst[j] # "waiting"
    <3>1. inst'[j] = inst[j] /\ vouched'[j] = vouched[j]
      BY <1>24, <2>3 DEF Finish
    <3>. QED
      BY <2>1, <2>3, <3>1
  <2>. QED
    BY <2>2, <2>3
<1>25. CASE Abandon
  BY <1>25 DEF Abandon, Refused, Exit
<1>26. CASE Fail
  BY <1>26 DEF Fail, Exit
<1>27. ASSUME NEW i \in Instances, Connect(i) PROVE Reading(j)'
  <2>1. CASE i # j
    BY <1>27, <2>1 DEF Connect, StartJob
  <2>2. CASE i = j
    <3>1. got[j] = NoFiles /\ inst[j] = "idle" /\ UNCHANGED <<got, tpmVars>>
      BY <1>27, <2>2 DEF Connect
    <3>2. /\ vouched'[j] = (svc = "active")
          /\ svc = "active" => svc' = "active"
          /\ inst'[j] \in {"waiting", "ek.crt"}
          /\ inst'[j] = "waiting" => svc' = "activating"
      BY <1>27, <2>2 DEF Connect, StartJob
    <3>. QED
      BY <3>1, <3>2 DEF NoFiles
  <2>. QED
    BY <2>1, <2>2
<1>28. ASSUME NEW i \in Instances, Read(i) PROVE Reading(j)'
  <2>1. CASE i # j
    BY <1>28, <2>1 DEF Read, instanceSame
  <2>2. CASE i = j
    <3>1. /\ UNCHANGED <<svc, vouched, tpmVars, disk>>
          /\ inst[j] \in Files /\ inst'[j] = NextRead[inst[j]]
          /\ got'[j] = [got[j] EXCEPT ![inst[j]] = disk[inst[j]]]
      BY <1>28, <2>2 DEF Read, instanceSame
    <3>2. CASE inst[j] = "ek.crt"
      BY <3>1, <3>2 DEF NextRead, NoFiles
    <3>3. CASE inst[j] = "ak.pem"
      BY <3>1, <3>3 DEF NextRead
    <3>4. CASE inst[j] = "ak.name"
      BY <3>1, <3>4 DEF NextRead
    <3>5. CASE inst[j] = "ek.pem"
      BY <3>1, <3>5 DEF NextRead
    <3>. QED
      BY <3>1, <3>2, <3>3, <3>4, <3>5
  <2>. QED
    BY <2>1, <2>2
<1>29. ASSUME NEW i \in Instances, ReadNothing(i) PROVE Reading(j)'
  <2>1. CASE i # j
    BY <1>29, <2>1 DEF ReadNothing, instanceSame
  <2>2. CASE i = j /\ inst[j] = "ek.crt"
    BY <1>29, <2>2 DEF ReadNothing, instanceSame, NoFiles
  <2>3. CASE i = j /\ inst[j] # "ek.crt"
    <3>1. got'[j] = NoFiles /\ inst'[j] = "idle" /\ vouched'[j] = FALSE
      BY <1>29, <2>3 DEF ReadNothing
    <3>. QED
      BY <3>1
  <2>. QED
    BY <2>1, <2>2, <2>3
<1>30. ASSUME NEW i \in Instances, Close(i) PROVE Reading(j)'
  <2>1. CASE i # j
    BY <1>30, <2>1 DEF Close, instanceSame
  <2>2. CASE i = j
    <3>1. got'[j] = NoFiles /\ inst'[j] = "idle" /\ vouched'[j] = FALSE
      BY <1>30, <2>2 DEF Close
    <3>. QED
      BY <3>1
  <2>. QED
    BY <2>1, <2>2
<1>31. CASE UNCHANGED vars
  BY <1>31
<1>32. CASE Hang
  BY <1>32 DEF Hang, machineSame, listingSame
<1>. QED
  BY <1>1, <1>2, <1>3, <1>4, <1>5, <1>6, <1>7, <1>8, <1>9, <1>10, <1>11,
     <1>12, <1>13, <1>14, <1>15, <1>16, <1>17, <1>18, <1>19, <1>20, <1>21,
     <1>22, <1>23, <1>24, <1>25, <1>26, <1>27, <1>28, <1>29, <1>30, <1>31,
     <1>32
     DEF Next, Machine, Script

(* What the slots and the listings are made of. *)
SlotTypes ==
  /\ slot \in [Slots -> Owners] /\ before \subseteq Slots /\ new \subseteq Slots
  /\ on \in BOOLEAN /\ managed \in BOOLEAN
  /\ released \in BOOLEAN /\ unlisted \in BOOLEAN /\ failed \in BOOLEAN

(* Of two listings that differ by at most one handle... *)
LEMMA OneNewHandle ==
  ASSUME TypeOK, Cardinality(Listed \ before) <= 1,
         NEW g \in Listed \ before, NEW h \in Listed \ before
  PROVE  g = h
<1> DEFINE S == Listed \ before
<1>1. S \subseteq Slots
  BY DEF Listed
<1>2. IsFiniteSet(S) /\ Cardinality(S) \in Nat
  BY <1>1, BoundsAssumption, FS_Subset, FS_CardinalityType
<1>3. Cardinality(S) = 0 \/ Cardinality(S) = 1
  BY <1>2
<1>4. CASE Cardinality(S) = 0
  <2>1. S = {}
    BY <1>2, <1>4, FS_EmptySet
  <2>. QED
    BY <2>1
<1>5. CASE Cardinality(S) = 1
  <2>1. PICK x : S = {x}
    BY <1>2, <1>5, FS_Singleton
  <2>. QED
    BY <2>1
<1>. QED
  BY <1>3, <1>4, <1>5

(* ...the new one is the script's own, unless an object was released. *)
LEMMA ListingStep ==
  Inv /\ [Next]_vars => Listing'
<1> SUFFICES ASSUME TypeOK, SlotTypes, Progress, Listing, [Next]_vars
             PROVE  Listing'
  BY DEF Inv, Slotted, TypeOK, SlotTypes
<1> USE DEF SlotTypes, Progress, Listing, Window, Files, vars, keys, store,
     window, tpmVars, scriptVars, instVars
<1>1. CASE PowerOn
  BY <1>1 DEF PowerOn
<1>2. CASE DeviceAppears
  BY <1>2 DEF DeviceAppears
<1>3. CASE PowerLoss
  BY <1>3 DEF PowerLoss
<1>4. CASE ClearTpm
  BY <1>4 DEF ClearTpm
<1>5. CASE ReplaceTpm
  BY <1>5 DEF ReplaceTpm
<1>6. CASE OtherLoad
  BY <1>6 DEF OtherLoad
<1>7. CASE OtherRelease
  BY <1>7 DEF OtherRelease
<1>8. CASE BootStart
  BY <1>8 DEF BootStart, StartJob
<1>9. CASE RestartProvision
  BY <1>9 DEF RestartProvision
<1>10. CASE ProbeEk
  BY <1>10 DEF ProbeEk, machineSame, listingSame
<1>11. CASE CreateEk
  BY <1>11 DEF CreateEk, machineSame, listingSame
<1>12. CASE ReadEk
  BY <1>12 DEF ReadEk, machineSame, listingSame
<1>13. CASE ProbeAk
  BY <1>13 DEF ProbeAk, machineSame, listingSame
<1>14. CASE ListBefore
  BY <1>14 DEF ListBefore, machineSame, listingSame, Listed
<1>15. CASE CreateAk
  BY <1>15 DEF CreateAk, machineSame, listingSame
<1>16. CASE ListAfter
  <2>1. /\ pc = "after" /\ pc' = "evict"
        /\ \/ new' = Listed \ before /\ Cardinality(Listed \ before) <= 1
           \/ new' = {}
        /\ UNCHANGED <<slot, released, managed, on, before>>
    BY <1>16 DEF ListAfter, machineSame, listingSame
  <2>2. ASSUME ~released, NEW h \in new' PROVE slot[h] = "prov"
    <3>1. ~managed /\ h \in Listed \ before /\ Cardinality(Listed \ before) <= 1
      BY <2>1, <2>2 DEF Listed
    <3>2. PICK own \in Slots \ before : slot[own] = "prov"
      BY <2>1, <2>2, <3>1
    <3>3. own \in Listed \ before
      BY <3>1, <3>2 DEF Listed
    <3>. QED
      BY <2>1, <3>1, <3>2, <3>3, OneNewHandle
  <2>. QED
    BY <2>1, <2>2
<1>17. CASE EvictAk
  BY <1>17 DEF EvictAk, machineSame, listingSame
<1>18. CASE Recheck
  BY <1>18 DEF Recheck, machineSame, listingSame
<1>19. CASE FlushNew
  BY <1>19 DEF FlushNew, machineSame, listingSame
<1>20. CASE ReadAk
  BY <1>20 DEF ReadAk, machineSame, listingSame
<1>21. CASE OpenDestination
  BY <1>21 DEF OpenDestination, machineSame, listingSame
<1>22. CASE WriteDestination
  BY <1>22 DEF WriteDestination, Following, machineSame, listingSame
<1>23. CASE ReadCert
  BY <1>23 DEF ReadCert, machineSame, listingSame
<1>24. CASE Finish
  BY <1>24 DEF Finish, machineSame, listingSame
<1>25. CASE Abandon
  BY <1>25 DEF Abandon, Refused, Exit
<1>26. CASE Fail
  BY <1>26 DEF Fail, Exit
<1>27. ASSUME NEW i \in Instances, Connect(i) PROVE Listing'
  BY <1>27 DEF Connect, StartJob
<1>28. ASSUME NEW i \in Instances, Read(i) PROVE Listing'
  BY <1>28 DEF Read, instanceSame
<1>29. ASSUME NEW i \in Instances, ReadNothing(i) PROVE Listing'
  BY <1>29 DEF ReadNothing, instanceSame
<1>30. ASSUME NEW i \in Instances, Close(i) PROVE Listing'
  BY <1>30 DEF Close, instanceSame
<1>31. CASE UNCHANGED vars
  BY <1>31
<1>32. CASE Hang
  BY <1>32 DEF Hang, machineSame, listingSame
<1>. QED
  BY <1>1, <1>2, <1>3, <1>4, <1>5, <1>6, <1>7, <1>8, <1>9, <1>10, <1>11,
     <1>12, <1>13, <1>14, <1>15, <1>16, <1>17, <1>18, <1>19, <1>20, <1>21,
     <1>22, <1>23, <1>24, <1>25, <1>26, <1>27, <1>28, <1>29, <1>30, <1>31,
     <1>32
     DEF Next, Machine, Script

(* What the script loads, the flush that follows takes away again. *)
LEMMA LeftoverStep ==
  Inv /\ [Next]_vars => Leftover'
<1> SUFFICES ASSUME SlotTypes, Progress, Listing, Leftover,
                    pc \in HasAk => akHandle # None,
                    pc = "evict" => work["ak.pem"] # None, [Next]_vars
             PROVE  Leftover'
  BY BoundsAssumption DEF Inv, Installed, Slotted, TypeOK, SlotTypes, Aks
<1> USE DEF SlotTypes, Progress, Listing, Leftover, HasAk, Window, Files, vars,
     keys, store, window, tpmVars, scriptVars, instVars
<1>1. CASE PowerOn
  BY <1>1 DEF PowerOn
<1>2. CASE DeviceAppears
  BY <1>2 DEF DeviceAppears
<1>3. CASE PowerLoss
  BY <1>3 DEF PowerLoss
<1>4. CASE ClearTpm
  BY <1>4 DEF ClearTpm
<1>5. CASE ReplaceTpm
  BY <1>5 DEF ReplaceTpm
<1>6. CASE OtherLoad
  BY <1>6 DEF OtherLoad
<1>7. CASE OtherRelease
  BY <1>7 DEF OtherRelease
<1>8. CASE BootStart
  BY <1>8 DEF BootStart, StartJob
<1>9. CASE RestartProvision
  BY <1>9 DEF RestartProvision
<1>10. CASE ProbeEk
  BY <1>10 DEF ProbeEk, machineSame, listingSame
<1>11. CASE CreateEk
  BY <1>11 DEF CreateEk, machineSame, listingSame
<1>12. CASE ReadEk
  BY <1>12 DEF ReadEk, machineSame, listingSame
<1>13. CASE ProbeAk
  BY <1>13 DEF ProbeAk, machineSame, listingSame
<1>14. CASE ListBefore
  BY <1>14 DEF ListBefore, machineSame, listingSame
<1>15. CASE CreateAk
  BY <1>15 DEF CreateAk, machineSame, listingSame
<1>16. CASE ListAfter
  BY <1>16 DEF ListAfter, machineSame, listingSame, Listed
<1>17. CASE EvictAk
  BY <1>17 DEF EvictAk, machineSame, listingSame
<1>18. CASE Recheck
  BY <1>18 DEF Recheck, machineSame, listingSame, Listed
<1>19. CASE FlushNew
  BY <1>19 DEF FlushNew, machineSame, listingSame
<1>20. CASE ReadAk
  BY <1>20 DEF ReadAk, machineSame, listingSame
<1>21. CASE OpenDestination
  BY <1>21 DEF OpenDestination, machineSame, listingSame
<1>22. CASE WriteDestination
  BY <1>22 DEF WriteDestination, Following, machineSame, listingSame
<1>23. CASE ReadCert
  BY <1>23 DEF ReadCert, machineSame, listingSame
<1>24. CASE Finish
  BY <1>24 DEF Finish, machineSame, listingSame
<1>25. CASE Abandon
  BY <1>25 DEF Abandon, Refused, Exit
<1>26. CASE Fail
  BY <1>26 DEF Fail, Exit
<1>27. ASSUME NEW i \in Instances, Connect(i) PROVE Leftover'
  BY <1>27 DEF Connect, StartJob
<1>28. ASSUME NEW i \in Instances, Read(i) PROVE Leftover'
  BY <1>28 DEF Read, instanceSame
<1>29. ASSUME NEW i \in Instances, ReadNothing(i) PROVE Leftover'
  BY <1>29 DEF ReadNothing, instanceSame
<1>30. ASSUME NEW i \in Instances, Close(i) PROVE Leftover'
  BY <1>30 DEF Close, instanceSame
<1>31. CASE UNCHANGED vars
  BY <1>31
<1>32. CASE Hang
  BY <1>32 DEF Hang, machineSame, listingSame
<1>. QED
  BY <1>1, <1>2, <1>3, <1>4, <1>5, <1>6, <1>7, <1>8, <1>9, <1>10, <1>11,
     <1>12, <1>13, <1>14, <1>15, <1>16, <1>17, <1>18, <1>19, <1>20, <1>21,
     <1>22, <1>23, <1>24, <1>25, <1>26, <1>27, <1>28, <1>29, <1>30, <1>31,
     <1>32
     DEF Next, Machine, Script

-----------------------------------------------------------------------------
LEMMA InitInv == Init => Inv
<1> SUFFICES ASSUME Init PROVE Inv
  OBVIOUS
<1>1. TypeOK
  <2>1. NoFiles \in [Files -> Content]
    BY DEF NoFiles, Content
  <2>2. /\ got \in [Instances -> [Files -> Content]]
        /\ disk \in [Files -> Content] /\ work \in [Files -> Content]
    BY <2>1 DEF Init
  <2>3. /\ inst \in [Instances -> {"idle", "waiting", "answered"} \union Files]
        /\ vouched \in [Instances -> BOOLEAN] /\ slot \in [Slots -> Owners]
        /\ made \in 0..MaxAk
    BY BoundsAssumption DEF Init, Owners
  <2>. QED
    BY <2>2, <2>3 DEF Init, TypeOK, ScriptPoints
<1>2. Progress /\ Installed
  BY DEF Init, Progress, Installed, BeforeEk, HasAk
<1>3. ASSUME NEW i \in Instances PROVE Reading(i)
  BY DEF Init, Reading
<1>4. Slotted
  BY DEF Init, Slotted, Listing, Leftover, Window
<1>. QED
  BY <1>1, <1>2, <1>3, <1>4 DEF Inv

LEMMA StepInv == Inv /\ [Next]_vars => Inv'
  BY TypeStep, ProgressStep, InstalledStep, ReadingStep, ListingStep,
     LeftoverStep DEF Inv, Slotted

(* Inv is an invariant of the provisioner, its TPM and its readers. *)
THEOREM Invariance == Spec => []Inv
  BY InitInv, StepInv, PTL DEF Spec

(* Every variable keeps its type, for every bound. *)
THEOREM TypeCorrect == Spec => []TypeOK
<1>1. Inv => TypeOK
  BY DEF Inv
<1>. QED
  BY <1>1, Invariance, PTL

(* An active unit means that the published files are whole and name the keys
   the TPM holds. *)
THEOREM Published == Spec => []ActiveMeansCoherent
<1>1. Inv => ActiveMeansCoherent
  BY DEF Inv, Installed, ActiveMeansCoherent, Coherent
<1>. QED
  BY <1>1, Invariance, PTL

(* No identity given by an instance the provisioner vouched for mixes two
   provisionings or outlives the keys it names. *)
THEOREM IdentitySafe == Spec => []IdentityCoherent
<1>1. Inv => IdentityCoherent
  BY DEF Inv, Installed, Reading, IdentityCoherent, Coherent
<1>. QED
  BY <1>1, Invariance, PTL

(* The flush that follows evictcontrol takes away no object of another TPM user
   unless one was released while the handles were being compared. *)
THEOREM FlushIsSparing == Spec => FlushSparesOthers
<1>1. ASSUME Inv, [Next]_vars, pc = "flush", pc' = "akRead", ~released,
             NEW h \in Slots, slot[h] = "other"
      PROVE  slot'[h] = "other"
  <2>1. FlushNew
    BY <1>1
    DEF Next, Machine, Script, PowerOn, DeviceAppears, PowerLoss, ClearTpm,
        ReplaceTpm, OtherLoad, OtherRelease, BootStart, StartJob,
        RestartProvision, ProbeEk, CreateEk, ReadEk, ProbeAk, ListBefore,
        CreateAk, ListAfter, EvictAk, Recheck, ReadAk, OpenDestination,
        WriteDestination, Files, ReadCert, Finish, Abandon, Fail, Hang, Exit,
        Connect, Read, ReadNothing, Close, instanceSame, scriptVars, vars
  <2>2. h \notin new
    BY <1>1 DEF Inv, Slotted, Listing
  <2>. QED
    BY <1>1, <2>1, <2>2 DEF FlushNew, Inv, TypeOK
<1>2. Inv /\ [Next]_vars =>
        (pc = "flush" /\ pc' = "akRead" =>
           released \/ \A h \in Slots : slot[h] = "other" => slot'[h] = "other")
  BY <1>1
<1>. QED
  BY <1>2, Invariance, PTL DEF Spec, FlushSparesOthers

(* Without a failed attempt a boot leaves at most one of the TPM's slots taken,
   however often the unit is restarted, and none unless another user released an
   object or a listing failed unnoticed. *)
THEOREM LeaksBounded == Spec => []LeakBounded
<1>1. Inv => LeakBounded
  BY DEF Inv, Progress, Slotted, Leftover, Window, LeakBounded
<1>. QED
  BY <1>1, Invariance, PTL

-----------------------------------------------------------------------------
(* Provisioner, unit and agent implement StableIdentity. *)

Identity == IF svc = "active" THEN Named(disk) ELSE NoIdentity
AnswerOf(i) == IF vouched[i] /\ inst[i] = "answered" THEN Named(got[i])
                 ELSE NoIdentity
Answers == [i \in Instances |-> AnswerOf(i)]

LEMMA MappedNobody ==
  Stable!Nobody = NoIdentity /\ Stable!NoAnswers = [i \in Instances |-> NoIdentity]
BY DEF Stable!Nobody, Stable!NoAnswers, NoIdentity, Named, NoFiles, Files

(* What is published is an identity, of the keys that are there... *)
LEMMA PublishedNames ==
  ASSUME Inv, svc = "active"
  PROVE  /\ Identity # NoIdentity
         /\ ekHandle # None /\ akHandle # None
         /\ \E c \in {None, nvCert} :
              Identity = [ek |-> ekHandle, ak |-> akHandle, name |-> akHandle,
                          cert |-> c]
<1>1. /\ ekHandle # None /\ akHandle # None
      /\ disk["ek.pem"] = ekHandle /\ disk["ak.pem"] = akHandle
      /\ disk["ak.name"] = akHandle /\ disk["ek.crt"] \in {None, nvCert}
  BY DEF Inv, Installed
<1>2. Identity = [ek |-> ekHandle, ak |-> akHandle, name |-> akHandle,
                  cert |-> disk["ek.crt"]]
  BY <1>1 DEF Identity, Named
<1>3. NoIdentity.ek = None
  BY DEF NoIdentity, Named, NoFiles, Files
<1>. QED
  BY <1>1, <1>2, <1>3

(* ...and what a vouched instance has answered. *)
LEMMA AnsweredNames ==
  ASSUME Inv, NEW i \in Instances, vouched[i], inst[i] = "answered"
  PROVE  svc = "active" /\ AnswerOf(i) = Identity
<1>1. /\ svc = "active"
      /\ got[i]["ek.pem"] = ekHandle /\ got[i]["ak.pem"] = akHandle
      /\ got[i]["ak.name"] = akHandle /\ got[i]["ek.crt"] = disk["ek.crt"]
  BY DEF Inv, Reading
<1>2. /\ disk["ek.pem"] = ekHandle /\ disk["ak.pem"] = akHandle
      /\ disk["ak.name"] = akHandle
  BY <1>1 DEF Inv, Installed
<1>. QED
  BY <1>1, <1>2 DEF AnswerOf, Identity, Named

LEMMA NobodyAnswers ==
  ASSUME Inv, svc # "active"
  PROVE  Identity = NoIdentity /\ Answers = [i \in Instances |-> NoIdentity]
<1>1. ASSUME NEW i \in Instances PROVE AnswerOf(i) = NoIdentity
  BY AnsweredNames DEF AnswerOf
<1>. QED
  BY <1>1 DEF Identity, Answers

(* Only the script makes keys, one at a time, and only where there is none. *)
LEMMA KeysStep ==
  ASSUME Inv, [Next]_vars
  PROVE  \/ UNCHANGED <<ekHandle, akHandle, nvCert>>
         \/ /\ svc = "activating" /\ svc' = "activating"
            /\ ekHandle = None /\ ekHandle' # None
            /\ UNCHANGED <<akHandle, nvCert>>
         \/ /\ svc = "activating" /\ svc' = "activating"
            /\ akHandle = None /\ akHandle' # None
            /\ UNCHANGED <<ekHandle, nvCert>>
         \/ /\ svc = "inactive" /\ svc' = "inactive"
            /\ ekHandle' = None /\ akHandle' = None
<1>1. CASE CreateEk
  <2>1. seed # None /\ svc = "activating"
    BY <1>1, BoundsAssumption DEF Inv, TypeOK, Progress, CreateEk
  <2>. QED
    BY <1>1, <2>1 DEF CreateEk, machineSame, listingSame
<1>2. CASE EvictAk
  <2>1. work["ak.pem"] # None /\ svc = "activating"
    BY <1>2, BoundsAssumption
       DEF Inv, Installed, Progress, EvictAk, Aks
  <2>. QED
    BY <1>2, <2>1 DEF EvictAk, machineSame, listingSame
<1>3. CASE ClearTpm \/ ReplaceTpm
  BY <1>3 DEF Inv, Progress, ClearTpm, ReplaceTpm
<1>4. CASE ~(CreateEk \/ EvictAk \/ ClearTpm \/ ReplaceTpm)
  BY <1>4
  DEF Next, Machine, Script, PowerOn, DeviceAppears, PowerLoss, OtherLoad,
      OtherRelease, BootStart, StartJob, RestartProvision, ProbeEk, ReadEk,
      ProbeAk, ListBefore, CreateAk, ListAfter, Recheck, FlushNew, ReadAk,
      OpenDestination, WriteDestination, ReadCert, Finish, Abandon, Fail, Hang,
      Exit, Connect, Read, ReadNothing, Close, instanceSame, machineSame,
      listingSame, keys, tpmVars, vars
<1>. QED
  BY <1>1, <1>2, <1>3, <1>4

(* While the unit stays active nothing writes what is published, and only an
   instance that finishes reading or closes changes what is answered. *)
LEMMA ActiveStep ==
  ASSUME Inv, [Next]_vars, svc = "active", svc' = "active"
  PROVE  /\ UNCHANGED disk
         /\ \/ \A i \in Instances : AnswerOf(i)' = AnswerOf(i)
            \/ \E i \in Instances :
                 /\ vouched[i]
                 /\ (inst[i] = "answered") # (inst'[i] = "answered")
                 /\ inst'[i] = "answered" => vouched'[i]
                 /\ \A j \in Instances \ {i} : AnswerOf(j)' = AnswerOf(j)
<1>1. pc = "idle"
  BY DEF Inv, TypeOK, Progress
<1>2. ~Script /\ ~Fail /\ ~Hang
  BY <1>1
  DEF Script, ProbeEk, CreateEk, ReadEk, ProbeAk, ListBefore, CreateAk,
      ListAfter, EvictAk, Recheck, FlushNew, ReadAk, OpenDestination,
      WriteDestination, Files, ReadCert, Finish, Abandon, Refused,
      Fail, Hang
<1>3. CASE Machine \/ UNCHANGED vars
  <2>1. UNCHANGED <<disk, instVars>>
    BY <1>3, <1>1
    DEF Inv, Progress, Machine, PowerOn, DeviceAppears, PowerLoss, ClearTpm,
        ReplaceTpm, OtherLoad, OtherRelease, BootStart, StartJob,
        RestartProvision, vars
  <2>. QED
    BY <2>1 DEF AnswerOf, instVars
<1>4. ASSUME NEW i \in Instances,
             Connect(i) \/ Read(i) \/ ReadNothing(i) \/ Close(i)
      PROVE  /\ UNCHANGED disk
             /\ \/ \A j \in Instances : AnswerOf(j)' = AnswerOf(j)
                \/ /\ vouched[i]
                   /\ (inst[i] = "answered") # (inst'[i] = "answered")
                   /\ inst'[i] = "answered" => vouched'[i]
                   /\ \A j \in Instances \ {i} : AnswerOf(j)' = AnswerOf(j)
  <2>1. UNCHANGED disk
    BY <1>4 DEF Connect, Read, ReadNothing, Close, instanceSame
  <2>2. ASSUME NEW j \in Instances \ {i}
        PROVE  AnswerOf(j)' = AnswerOf(j)
    <3>1. inst'[j] = inst[j] /\ vouched'[j] = vouched[j] /\ got'[j] = got[j]
      BY <1>4 DEF Inv, TypeOK, Connect, Read, ReadNothing, Close
    <3>. QED
      BY <3>1 DEF AnswerOf
  <2>3. \/ AnswerOf(i)' = AnswerOf(i)
        \/ /\ vouched[i] /\ (inst[i] = "answered") # (inst'[i] = "answered")
           /\ inst'[i] = "answered" => vouched'[i]
    <3>1. CASE Connect(i)
      BY <3>1 DEF Inv, TypeOK, Connect, AnswerOf
    <3>2. CASE Read(i)
      BY <3>2 DEF Inv, TypeOK, Read, AnswerOf, Files
    <3>3. CASE ReadNothing(i)
      BY <3>3 DEF Inv, TypeOK, ReadNothing, AnswerOf, Files
    <3>4. CASE Close(i)
      BY <3>4 DEF Inv, TypeOK, Close, AnswerOf
    <3>. QED
      BY <1>4, <3>1, <3>2, <3>3, <3>4
  <2>. QED
    BY <2>1, <2>2, <2>3
<1>. QED
  BY <1>2, <1>3, <1>4 DEF Next

(* Nobody has answered yet when the unit becomes active. *)
LEMMA FreshStep ==
  ASSUME Inv, [Next]_vars, svc # "active", svc' = "active"
  PROVE  Answers' = [i \in Instances |-> NoIdentity]
<1>1. Finish
  BY DEF Next, Machine, Script, PowerOn, DeviceAppears, PowerLoss, ClearTpm,
         ReplaceTpm, OtherLoad, OtherRelease, BootStart, StartJob,
         RestartProvision, ProbeEk, CreateEk, ReadEk, ProbeAk, ListBefore,
         CreateAk, ListAfter, EvictAk, Recheck, FlushNew, ReadAk,
         OpenDestination, WriteDestination, ReadCert, Abandon, Fail, Hang, Exit,
         Connect, Read, ReadNothing, Close, instanceSame, scriptVars, vars
<1>2. ASSUME NEW i \in Instances
      PROVE  ~(vouched'[i] /\ inst'[i] = "answered")
  <2>1. ~vouched[i]
    BY DEF Inv, Reading
  <2>. QED
    BY <1>1, <2>1 DEF Finish
<1>3. ASSUME NEW i \in Instances PROVE AnswerOf(i)' = NoIdentity
  BY <1>2, <1>3 DEF AnswerOf, NoIdentity, Named, NoFiles, Files
<1>. QED
  BY <1>3 DEF Answers, NoIdentity, Named, NoFiles, Files

(* Every step is a step of StableIdentity or stutters there. *)
LEMMA StablePromiseStep ==
  Inv /\ Inv' /\ [Next]_vars =>
    [Stable!Step]_(Stable!identityPromise)
<1> SUFFICES ASSUME Inv, Inv', [Next]_vars
             PROVE  Stable!Step \/ UNCHANGED Stable!identityPromise
  OBVIOUS
<1> USE MappedNobody
<1>1. NoIdentity' = NoIdentity
  BY DEF NoIdentity, Named, NoFiles, Files
<1>2. CASE svc # "active" /\ svc' # "active"
  <2>1. /\ Identity = NoIdentity /\ UNCHANGED <<Identity, Answers>>
    <3>1. /\ Identity = NoIdentity
          /\ Answers = [i \in Instances |-> NoIdentity]
      BY <1>2, NobodyAnswers
    <3>2. /\ Identity' = NoIdentity
          /\ \A i \in Instances : AnswerOf(i)' = NoIdentity
      BY <1>1, <1>2 DEF Inv, Reading, Identity, AnswerOf
    <3>. QED
      BY <3>1, <3>2 DEF Answers
  <2>. QED
    BY <1>2, <2>1, KeysStep
    DEF Stable!Step, Stable!MakeEk, Stable!MakeAk, Stable!Forget,
        Stable!Unpublished, Stable!identityPromise, Identity, Answers, AnswerOf
<1>3. CASE svc # "active" /\ svc' = "active"
  <2>1. /\ Identity = NoIdentity /\ UNCHANGED Answers
        /\ UNCHANGED <<ekHandle, akHandle, nvCert>>
    BY <1>3, NobodyAnswers, FreshStep, KeysStep
  <2>2. /\ ekHandle' # None /\ akHandle' # None
        /\ \E c \in {None, nvCert'} :
             Identity' = [ek |-> ekHandle', ak |-> akHandle',
                          name |-> akHandle', cert |-> c]
    <3>1. /\ ekHandle' # None /\ akHandle' # None
          /\ disk'["ek.pem"] = ekHandle' /\ disk'["ak.pem"] = akHandle'
          /\ disk'["ak.name"] = akHandle' /\ disk'["ek.crt"] \in {None, nvCert'}
      BY <1>3 DEF Inv, Installed
    <3>. QED
      BY <1>3, <3>1 DEF Identity, Named
  <2>3. Stable!Publish
    BY <2>1, <2>2 DEF Stable!Publish, Identity, Answers, AnswerOf
  <2>. QED
    BY <2>3 DEF Stable!Step
<1>4. CASE svc = "active" /\ svc' # "active"
  <2>1. Identity # NoIdentity /\ UNCHANGED <<ekHandle, akHandle, nvCert>>
    BY <1>4, PublishedNames, KeysStep
  <2>2. /\ Identity' = NoIdentity
        /\ \A i \in Instances : AnswerOf(i)' = NoIdentity
    BY <1>1, <1>4 DEF Inv, Reading, Identity, AnswerOf
  <2>3. Answers' = Stable!NoAnswers
    BY <2>2 DEF Answers
  <2>4. Stable!Withdraw
    BY <2>1, <2>2, <2>3 DEF Stable!Withdraw, Identity, Answers, AnswerOf
  <2>. QED
    BY <2>4 DEF Stable!Step
<1>5. CASE svc = "active" /\ svc' = "active"
  <2>1. /\ Identity # NoIdentity
        /\ UNCHANGED <<ekHandle, akHandle, nvCert, Identity>>
    BY <1>5, PublishedNames, KeysStep, ActiveStep DEF Identity, Named
  <2>2. CASE \A i \in Instances : AnswerOf(i)' = AnswerOf(i)
    <3>1. UNCHANGED Answers
      BY <2>2 DEF Answers
    <3>. QED
      BY <2>1, <3>1 DEF Stable!identityPromise, Identity, Answers, AnswerOf
  <2>3. ASSUME NEW i \in Instances, vouched[i],
               (inst[i] = "answered") # (inst'[i] = "answered"),
               inst'[i] = "answered" => vouched'[i],
               \A j \in Instances \ {i} : AnswerOf(j)' = AnswerOf(j)
        PROVE  Stable!Answer(i) \/ Stable!Leave(i)
    <3>1. CASE inst'[i] = "answered"
      <4>1. AnswerOf(i) = NoIdentity /\ AnswerOf(i)' = Identity'
        BY <2>3, <3>1 DEF AnswerOf, Inv, Reading, Installed, Identity, Named
      <4>2. Answers' = [Answers EXCEPT ![i] = Identity]
        BY <2>1, <2>3, <4>1 DEF Answers
      <4>3. Answers[i] = NoIdentity
        BY <4>1 DEF Answers
      <4>4. Stable!Answer(i)
        BY <2>1, <4>2, <4>3 DEF Stable!Answer, Identity, Answers, AnswerOf
      <4>. QED
        BY <4>4
    <3>2. CASE inst[i] = "answered"
      <4>1. AnswerOf(i) # NoIdentity /\ AnswerOf(i)' = NoIdentity
        BY <1>1, <2>1, <2>3, <3>2, AnsweredNames DEF AnswerOf
      <4>2. Answers' = [Answers EXCEPT ![i] = NoIdentity]
        BY <2>3, <4>1 DEF Answers
      <4>3. Answers[i] # NoIdentity
        BY <4>1 DEF Answers
      <4>4. Stable!Leave(i)
        BY <2>1, <4>2, <4>3 DEF Stable!Leave, Identity, Answers, AnswerOf
      <4>. QED
        BY <4>4
    <3>. QED
      BY <2>3, <3>1, <3>2
  <2>. QED
    BY <1>5, <2>2, <2>3, ActiveStep DEF Stable!Step
<1>. QED
  BY <1>2, <1>3, <1>4, <1>5

(* While the unit is active, every answer of every instance it vouched for is
   one identity, and no key that is in the TPM is ever replaced. *)
THEOREM KeepsIdentity == Spec => IdentityIsStable
<1>1. Init => Stable!Start
  <2>1. ASSUME Init PROVE /\ ekHandle = None /\ akHandle = None
                          /\ Identity = NoIdentity
                          /\ Answers = [i \in Instances |-> NoIdentity]
    BY <2>1 DEF Init, Identity, Answers, AnswerOf
  <2>. QED
    BY <2>1, MappedNobody DEF Stable!Start, Identity, Answers, AnswerOf
<1>. QED
  BY <1>1, StablePromiseStep, Invariance, PTL
  DEF Spec, IdentityIsStable, Stable!Promise

=============================================================================
