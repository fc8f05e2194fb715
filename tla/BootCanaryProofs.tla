-------------------------- MODULE BootCanaryProofs --------------------------
(***************************************************************************)
(* What an accepted boot receipt means, why a rejected one was rejected,   *)
(* and that the unit's time limit is long enough, for any guests and any   *)
(* number of resets.                                                       *)
(*                                                                         *)
(* A receipt is made in nine calls, printed by the last and judged by the  *)
(* host, possibly after a reset.  The invariant therefore carries three    *)
(* things from call to call: what the receipt says is so (Truthful), how   *)
(* much time can be gone at each call (Punctual), and that on a sound      *)
(* guest nothing is missing yet as long as nothing went wrong (Smooth).    *)
(***************************************************************************)
EXTENDS BootCanary, TLAPS

Last == boots[Len(boots)]

Booted ==
  /\ Len(boots) \in Nat
  /\ \A k \in 1 .. Len(boots) : boots[k] = "active" => machine.tpm = "early" /\ keys
  /\ unit \in {"running", "done", "killed"} =>
       /\ Len(boots) >= 1 /\ Last \in {"active", "skipped"}
       /\ Last = "active" <=> machine.tpm = "early"
       /\ seen \in Receipts /\ seen.boot = Len(boots)

(* What a receipt claims with success, and what it claims in any case. *)
Supported(r) ==
  /\ r.success =>
       /\ r.boot \in 1 .. Len(boots) /\ boots[r.boot] = "active" /\ keys
       /\ machine.quotes /\ machine.log /\ machine.bootc # "fails"
  /\ r.efi => machine.efi

Truthful ==
  /\ unit = "running" =>
       /\ seen.active => Last = "active"
       /\ seen.quote => machine.quotes
  /\ unit \in {"running", "done"} => Supported(seen)
  /\ \A k \in 1 .. Len(serial) : serial[k] # None => Supported(serial[k])
  /\ verdict = "accepted" => serial[1] # None /\ ValidGuest(serial[1]) /\ Len(serial) = 1
  /\ verdict # None => qemu # "running"

(* The time that is gone at most when a call begins, by the way to it. *)
GoneEarly == <<0, 0, 1, 2, 3, 5, 7, 8, 9>>
GoneOther == <<0, 3, 4, 5, 0, 0, 0, 6, 7>>

Punctual ==
  /\ unit # "killed"
  /\ unit = "running" =>
       /\ machine.tpm = "early" => spent <= GoneEarly[call]
       /\ machine.tpm # "early" =>
            /\ spent <= GoneOther[call] /\ ~seen.active
            /\ call \notin {5, 6, 7}

(* On a sound guest, while nothing went wrong. *)
Smooth ==
  Sound(machine) /\ ~troubled =>
    /\ unit \in {"waiting", "running", "done"}
    /\ qemu = "running" \/ (qemu = "off" /\ unit = "done")
    /\ unit = "waiting" => boots = <<>>
    /\ unit \in {"waiting", "running"} => serial = <<>>
    /\ unit = "running" =>
         /\ call >= 2 => seen.device
         /\ call >= 3 => seen.active
         /\ call >= 4 => seen.ek
         /\ call >= 5 => seen.ak
         /\ call >= 8 => seen.quote
         /\ call = 9 => ValidGuest(seen)
    /\ unit = "done" => serial = <<seen>> /\ ValidGuest(seen)
    /\ verdict # "rejected"

Inv == TypeOK /\ Booted /\ Truthful /\ Smooth

-----------------------------------------------------------------------------
LEMMA CallFact ==
  /\ Len(Calls) = 9
  /\ Calls[1] = "tpm" /\ Calls[2] = "active" /\ Calls[3] = "ek"
  /\ Calls[4] = "ak" /\ Calls[5] = "identity" /\ Calls[6] = "quote"
  /\ Calls[7] = "checkquote" /\ Calls[8] = "bootc" /\ Calls[9] = "write"
  BY DEF Calls

(* Every call has its place and its limit. *)
LEMMA AtFact ==
  ASSUME call \in 1 .. Len(Calls)
  PROVE  /\ At("tpm") => Running /\ call = 1 /\ Limit[Calls[call]] = 3
         /\ At("active") => Running /\ call = 2 /\ Limit[Calls[call]] = 1
         /\ At("ek") => Running /\ call = 3 /\ Limit[Calls[call]] = 1
         /\ At("ak") => Running /\ call = 4 /\ Limit[Calls[call]] = 1
         /\ At("identity") => Running /\ call = 5 /\ Limit[Calls[call]] = 2
         /\ At("quote") => Running /\ call = 6 /\ Limit[Calls[call]] = 2
         /\ At("checkquote") => Running /\ call = 7 /\ Limit[Calls[call]] = 1
         /\ At("bootc") => Running /\ call = 8 /\ Limit[Calls[call]] = 1
         /\ At("write") => Running /\ call = 9
<1>1. call \in {1, 2, 3, 4, 5, 6, 7, 8, 9}
  BY CallFact
<1>. QED
  BY <1>1, CallFact DEF At, Limit

LEMMA GoesFact ==
  /\ Goes("active") => call' = 2
  /\ Goes("ek") => call' = 3
  /\ Goes("ak") => call' = 4
  /\ Goes("identity") => call' = 5
  /\ Goes("bootc") => call' = 8
  /\ Goes("write") => call' = 9
<1>1. \A n \in 1 .. Len(Calls) :
        /\ Calls[n] = "active" <=> n = 2
        /\ Calls[n] = "ek" <=> n = 3
        /\ Calls[n] = "ak" <=> n = 4
        /\ Calls[n] = "identity" <=> n = 5
        /\ Calls[n] = "bootc" <=> n = 8
        /\ Calls[n] = "write" <=> n = 9
  <2> TAKE n \in 1 .. Len(Calls)
  <2>1. n \in {1, 2, 3, 4, 5, 6, 7, 8, 9}
    BY CallFact
  <2>. QED
    BY <2>1, CallFact
<1>2. {2, 3, 4, 5, 8, 9} \subseteq 1 .. Len(Calls)
  BY CallFact
<1>. QED
  BY <1>1, <1>2 DEF Goes

(* While the canary runs there is a receipt in the making, of this boot. *)
LEMMA RunningFact ==
  ASSUME Inv, Running
  PROVE  /\ seen \in Receipts /\ seen.boot = Len(boots) /\ unit = "running"
         /\ qemu = "running" /\ Len(boots) >= 1 /\ Len(boots) \in Nat
         /\ call \in 1 .. Len(Calls) /\ spent \in 0 .. UnitLimit
  BY DEF Inv, TypeOK, Booted, Running

(* What the last call adds to the receipt. *)
LogFound(fails) == machine.log /\ "log" \notin fails
BootcFound(fails) == machine.bootc # "fails" /\ "bootc" \notin fails
Claimed(fails) ==
  LET found == [seen EXCEPT !.log = LogFound(fails), !.efi = machine.efi,
                            !.deployment = BootcFound(fails)]
  IN [found EXCEPT !.success = Success(found)]

LEMMA ClaimFact ==
  ASSUME seen \in Receipts, machine \in Guests,
         NEW fails \in SUBSET {"log", "bootc"}
  PROVE  /\ Claimed(fails) \in Receipts /\ Claimed(fails).boot = seen.boot
         /\ Claimed(fails).device = seen.device
         /\ Claimed(fails).active = seen.active
         /\ Claimed(fails).ek = seen.ek /\ Claimed(fails).ak = seen.ak
         /\ Claimed(fails).quote = seen.quote
         /\ Claimed(fails).log = LogFound(fails)
         /\ Claimed(fails).efi = machine.efi
         /\ Claimed(fails).deployment = BootcFound(fails)
         /\ Claimed(fails).success <=>
              /\ seen.device /\ seen.active /\ seen.ek /\ seen.ak /\ keys
              /\ seen.quote /\ machine.log /\ machine.bootc # "fails"
              /\ "log" \notin fails /\ "bootc" \notin fails
<1> DEFINE found == [seen EXCEPT !.log = LogFound(fails), !.efi = machine.efi,
                                 !.deployment = BootcFound(fails)]
<1>7. /\ LogFound(fails) \in BOOLEAN /\ BootcFound(fails) \in BOOLEAN
      /\ LogFound(fails) <=> machine.log /\ "log" \notin fails
      /\ BootcFound(fails) <=> machine.bootc # "fails" /\ "bootc" \notin fails
  BY DEF LogFound, BootcFound
<1>1. /\ found \in Receipts /\ found.boot = seen.boot
      /\ found.device = seen.device /\ found.active = seen.active
      /\ found.ek = seen.ek /\ found.ak = seen.ak
      /\ found.quote = seen.quote
      /\ found.log = LogFound(fails)
      /\ found.efi = machine.efi
      /\ found.deployment = BootcFound(fails)
  BY <1>7 DEF Receipts, Guests
<1>2. Claimed(fails) = [found EXCEPT !.success = Success(found)]
  BY DEF Claimed
<1>3. Success(found) <=>
        /\ found.device /\ found.active /\ found.ek /\ found.ak /\ keys
        /\ found.quote /\ found.log /\ found.deployment
  BY DEF Success
<1> HIDE DEF found
<1>4. Success(found) \in BOOLEAN
  BY DEF Success
<1>5. /\ Claimed(fails) \in Receipts /\ Claimed(fails).boot = found.boot
      /\ Claimed(fails).device = found.device
      /\ Claimed(fails).active = found.active
      /\ Claimed(fails).ek = found.ek /\ Claimed(fails).ak = found.ak
      /\ Claimed(fails).quote = found.quote /\ Claimed(fails).log = found.log
      /\ Claimed(fails).efi = found.efi
      /\ Claimed(fails).deployment = found.deployment
      /\ Claimed(fails).success = Success(found)
  BY <1>1, <1>2, <1>4 DEF Receipts
<1>6. /\ found.device <=> seen.device
      /\ found.active <=> seen.active
      /\ found.ek <=> seen.ek
      /\ found.ak <=> seen.ak
      /\ found.quote <=> seen.quote
      /\ found.log <=> machine.log /\ "log" \notin fails
      /\ found.deployment <=>
           machine.bootc # "fails" /\ "bootc" \notin fails
      /\ Claimed(fails).success <=> Success(found)
  BY <1>1, <1>5, <1>7
<1>. QED
  BY <1>1, <1>3, <1>5, <1>6

-----------------------------------------------------------------------------
(* What each call does, with the places of the calls in numbers. *)

Advances ==
  /\ UNCHANGED <<machine, boots, keys, unit, serial, qemu, verdict>>
  /\ seen' \in Receipts /\ seen'.boot = seen.boot
  /\ spent' \in 0 .. UnitLimit
  /\ troubled' \in BOOLEAN /\ (troubled => troubled')

Same(r) ==
  /\ r.device = seen.device /\ r.log = seen.log /\ r.efi = seen.efi
  /\ r.deployment = seen.deployment /\ r.success = seen.success

LEMMA TakesFact ==
  ASSUME Inv, Running, NEW d \in Nat, NEW fails \in BOOLEAN, Takes(d, fails)
  PROVE  /\ spent' \in 0 .. UnitLimit /\ spent' = spent + d
         /\ d <= Limit[Calls[call]]
         /\ troubled' \in BOOLEAN /\ (troubled => troubled')
         /\ fails => troubled'
  BY DEF Takes, Inv, TypeOK

LEMMA UnhandledFact ==
  ASSUME Inv, Running, NEW d \in Nat, Unhandled(d)
  PROVE  /\ spent' \in 0 .. UnitLimit /\ spent' = spent + d
         /\ d <= Limit[Calls[call]] /\ troubled' = TRUE /\ call' = 9
         /\ seen' \in Receipts /\ seen'.boot = seen.boot /\ Same(seen')
         /\ seen'.active = seen.active /\ seen'.ek = seen.ek
         /\ seen'.ak = seen.ak /\ seen'.quote = seen.quote
<1>1. /\ Takes(d, TRUE) /\ seen' = [seen EXCEPT !.unhandled = TRUE]
      /\ call' = 9
  BY GoesFact DEF Unhandled
<1>2. seen \in Receipts
  BY RunningFact
<1>. QED
  BY <1>1, <1>2, TakesFact DEF Receipts, Same

LEMMA WaitFact ==
  ASSUME Inv, WaitForTpm
  PROVE  /\ Running /\ Advances /\ spent' <= spent + 3 /\ call = 1 /\ call' = 2
         /\ machine.tpm = "early" => seen'.device /\ spent' = spent
         /\ ~seen'.device => machine.tpm # "early"
         /\ seen'.active = seen.active /\ seen'.quote = seen.quote
         /\ seen'.success = seen.success /\ seen'.efi = seen.efi
<1>1. Running /\ call = 1 /\ Limit[Calls[call]] = 3 /\ call' = 2
  BY AtFact, GoesFact DEF WaitForTpm, Inv, TypeOK
<1>2. PICK d \in 0 .. 3, cut \in BOOLEAN :
        /\ Takes(d, cut)
        /\ machine.tpm = "early" => d = 0 /\ ~cut
        /\ seen' = [seen EXCEPT !.device = ~cut]
  BY DEF WaitForTpm
<1>3. seen \in Receipts
  BY <1>1, RunningFact
<1>4. /\ seen' \in Receipts /\ seen'.boot = seen.boot
      /\ (seen'.device <=> ~cut) /\ seen'.active = seen.active
      /\ seen'.quote = seen.quote /\ seen'.success = seen.success
      /\ seen'.efi = seen.efi
  BY <1>2, <1>3 DEF Receipts
<1>5. d \in Nat
  OBVIOUS
<1>6. /\ spent' \in 0 .. UnitLimit /\ spent' = spent + d
      /\ troubled' \in BOOLEAN /\ (troubled => troubled')
  BY <1>1, <1>2, <1>5, TakesFact, Zenon
<1>7. spent \in Nat
  BY <1>1, RunningFact
<1>8. UNCHANGED <<machine, boots, keys, unit, serial, qemu, verdict>>
  BY DEF WaitForTpm
<1>9. Advances /\ spent' <= spent + 3
  BY <1>4, <1>6, <1>7, <1>8 DEF Advances
<1>10. machine.tpm = "early" => seen'.device
  BY <1>2, <1>4
<1>11. machine.tpm = "early" => spent' = spent
  BY <1>2, <1>6, <1>7
<1>. QED
  BY <1>1, <1>4, <1>9, <1>10, <1>11

LEMMA IsActiveFact ==
  ASSUME Inv, IsActive
  PROVE  /\ Running /\ Advances /\ spent' <= spent + 1 /\ call = 2
         /\ Same(seen') /\ seen'.quote = seen.quote
         /\ \/ call' = 9 /\ troubled' = TRUE /\ seen'.active = seen.active
            \/ /\ call' = IF seen.device THEN 3 ELSE 8
               /\ seen'.active => Last = "active"
               /\ troubled' = TRUE \/ seen'.active = (Last = "active")
<1>1. Running /\ call = 2 /\ Limit[Calls[call]] = 1
  BY AtFact DEF IsActive, Inv, TypeOK
<1>2. seen \in Receipts /\ spent \in Nat
  BY <1>1, RunningFact
<1>3. UNCHANGED <<machine, boots, keys, unit, serial, qemu, verdict>>
  BY DEF IsActive
<1>4. PICK d \in 0 .. 1, fails \in BOOLEAN :
        \/ Unhandled(d)
        \/ /\ Takes(d, fails)
           /\ seen' = [seen EXCEPT !.active = Last = "active" /\ ~fails]
           /\ Goes(IF seen.device THEN "ek" ELSE "bootc")
  BY DEF IsActive, Last
<1>7. d \in Nat
  OBVIOUS
<1>5. CASE Unhandled(d)
  <2>1. /\ spent' \in 0 .. UnitLimit /\ spent' = spent + d
        /\ troubled' = TRUE /\ call' = 9
        /\ seen' \in Receipts /\ seen'.boot = seen.boot /\ Same(seen')
        /\ seen'.active = seen.active /\ seen'.ek = seen.ek
        /\ seen'.ak = seen.ak /\ seen'.quote = seen.quote
    BY <1>1, <1>5, <1>7, UnhandledFact, Zenon
  <2>. QED
    BY <1>1, <1>2, <1>3, <2>1 DEF Advances
<1>6. CASE /\ Takes(d, fails)
           /\ seen' = [seen EXCEPT !.active = Last = "active" /\ ~fails]
           /\ Goes(IF seen.device THEN "ek" ELSE "bootc")
  <2>1. call' = IF seen.device THEN 3 ELSE 8
    BY <1>6, GoesFact
  <2>2. /\ seen' \in Receipts /\ seen'.boot = seen.boot /\ Same(seen')
        /\ seen'.quote = seen.quote /\ seen'.active = (Last = "active" /\ ~fails)
    BY <1>2, <1>6 DEF Receipts, Same
  <2>3. /\ spent' \in 0 .. UnitLimit /\ spent' <= spent + 1
        /\ troubled' \in BOOLEAN /\ (troubled \/ fails => troubled')
    <3>1. /\ spent' \in 0 .. UnitLimit /\ spent' = spent + d
          /\ troubled' \in BOOLEAN /\ (troubled \/ fails => troubled')
      BY <1>1, <1>6, <1>7, TakesFact, Zenon
    <3>. QED
      BY <1>2, <3>1
  <2>. QED
    BY <1>1, <1>3, <2>1, <2>2, <2>3 DEF Advances
<1>. QED
  BY <1>4, <1>5, <1>6

LEMMA HandleEkFact ==
  ASSUME Inv, HandleEk
  PROVE  /\ Running /\ Advances /\ spent' <= spent + 1 /\ call = 3
         /\ Same(seen') /\ seen'.active = seen.active
         /\ seen'.quote = seen.quote
         /\ \/ call' = 9 /\ troubled' = TRUE
            \/ call' = 4 /\ (troubled' = TRUE \/ seen'.ek = keys)
<1>1. Running /\ call = 3 /\ Limit[Calls[call]] = 1
  BY AtFact DEF HandleEk, Inv, TypeOK
<1>2. seen \in Receipts /\ spent \in Nat /\ keys \in BOOLEAN
  BY <1>1, RunningFact DEF Inv, TypeOK
<1>3. UNCHANGED <<machine, boots, keys, unit, serial, qemu, verdict>>
  BY DEF HandleEk
<1>4. PICK d \in 0 .. 1, fails \in BOOLEAN :
        \/ Unhandled(d)
        \/ /\ Takes(d, fails) /\ seen' = [seen EXCEPT !.ek = keys /\ ~fails]
           /\ Goes("ak")
  BY DEF HandleEk
<1>7. d \in Nat
  OBVIOUS
<1>5. CASE Unhandled(d)
  <2>1. /\ spent' \in 0 .. UnitLimit /\ spent' = spent + d
        /\ troubled' = TRUE /\ call' = 9
        /\ seen' \in Receipts /\ seen'.boot = seen.boot /\ Same(seen')
        /\ seen'.active = seen.active /\ seen'.ek = seen.ek
        /\ seen'.ak = seen.ak /\ seen'.quote = seen.quote
    BY <1>1, <1>5, <1>7, UnhandledFact, Zenon
  <2>. QED
    BY <1>1, <1>2, <1>3, <2>1 DEF Advances
<1>6. CASE /\ Takes(d, fails) /\ seen' = [seen EXCEPT !.ek = keys /\ ~fails]
           /\ Goes("ak")
  <2>1. call' = 4
    BY <1>6, GoesFact
  <2>2. /\ seen' \in Receipts /\ seen'.boot = seen.boot /\ Same(seen')
        /\ seen'.quote = seen.quote /\ seen'.active = seen.active
        /\ seen'.ek = (keys /\ ~fails)
    BY <1>2, <1>6 DEF Receipts, Same
  <2>3. /\ spent' \in 0 .. UnitLimit /\ spent' <= spent + 1
        /\ troubled' \in BOOLEAN /\ (troubled \/ fails => troubled')
    <3>1. /\ spent' \in 0 .. UnitLimit /\ spent' = spent + d
          /\ troubled' \in BOOLEAN /\ (troubled \/ fails => troubled')
      BY <1>1, <1>6, <1>7, TakesFact, Zenon
    <3>. QED
      BY <1>2, <3>1
  <2>4. troubled' = TRUE \/ seen'.ek = keys
    <3>1. CASE fails
      BY <2>3, <3>1
    <3>2. CASE ~fails
      BY <1>2, <2>2, <3>2
    <3>. QED
      BY <3>1, <3>2
  <2>. QED
    BY <1>1, <1>3, <2>1, <2>2, <2>3, <2>4 DEF Advances
<1>. QED
  BY <1>4, <1>5, <1>6

LEMMA HandleAkFact ==
  ASSUME Inv, HandleAk
  PROVE  /\ Running /\ Advances /\ spent' <= spent + 1 /\ call = 4
         /\ Same(seen') /\ seen'.active = seen.active
         /\ seen'.quote = seen.quote
         /\ \/ call' = 9 /\ troubled' = TRUE
            \/ /\ seen'.ek = seen.ek
               /\ troubled' = TRUE \/ seen'.ak = keys
               /\ call' = IF seen.active /\ seen.ek /\ seen'.ak THEN 5 ELSE 8
<1>1. Running /\ call = 4 /\ Limit[Calls[call]] = 1
  BY AtFact DEF HandleAk, Inv, TypeOK
<1>2. seen \in Receipts /\ spent \in Nat /\ keys \in BOOLEAN
  BY <1>1, RunningFact DEF Inv, TypeOK
<1>3. UNCHANGED <<machine, boots, keys, unit, serial, qemu, verdict>>
  BY DEF HandleAk
<1>4. PICK d \in 0 .. 1, fails \in BOOLEAN :
        \/ Unhandled(d)
        \/ /\ Takes(d, fails) /\ seen' = [seen EXCEPT !.ak = keys /\ ~fails]
           /\ Goes(IF seen.active /\ seen.ek /\ seen'.ak THEN "identity"
                   ELSE "bootc")
  BY DEF HandleAk
<1>7. d \in Nat
  OBVIOUS
<1>5. CASE Unhandled(d)
  <2>1. /\ spent' \in 0 .. UnitLimit /\ spent' = spent + d
        /\ troubled' = TRUE /\ call' = 9
        /\ seen' \in Receipts /\ seen'.boot = seen.boot /\ Same(seen')
        /\ seen'.active = seen.active /\ seen'.ek = seen.ek
        /\ seen'.ak = seen.ak /\ seen'.quote = seen.quote
    BY <1>1, <1>5, <1>7, UnhandledFact, Zenon
  <2>. QED
    BY <1>1, <1>2, <1>3, <2>1 DEF Advances
<1>6. CASE /\ Takes(d, fails) /\ seen' = [seen EXCEPT !.ak = keys /\ ~fails]
           /\ Goes(IF seen.active /\ seen.ek /\ seen'.ak THEN "identity"
                   ELSE "bootc")
  <2>1. /\ seen' \in Receipts /\ seen'.boot = seen.boot /\ Same(seen')
        /\ seen'.quote = seen.quote /\ seen'.active = seen.active
        /\ seen'.ak = (keys /\ ~fails) /\ seen'.ek = seen.ek
    BY <1>2, <1>6 DEF Receipts, Same
  <2>2. call' = IF seen.active /\ seen.ek /\ seen'.ak THEN 5 ELSE 8
    BY <1>6, <2>1, GoesFact
  <2>3. /\ spent' \in 0 .. UnitLimit /\ spent' <= spent + 1
        /\ troubled' \in BOOLEAN /\ (troubled \/ fails => troubled')
    <3>1. /\ spent' \in 0 .. UnitLimit /\ spent' = spent + d
          /\ troubled' \in BOOLEAN /\ (troubled \/ fails => troubled')
      BY <1>1, <1>6, <1>7, TakesFact, Zenon
    <3>. QED
      BY <1>2, <3>1
  <2>4. troubled' = TRUE \/ seen'.ak = keys
    <3>1. CASE fails
      BY <2>3, <3>1
    <3>2. CASE ~fails
      BY <1>2, <2>1, <3>2
    <3>. QED
      BY <3>1, <3>2
  <2>. QED
    BY <1>1, <1>3, <2>1, <2>2, <2>3, <2>4 DEF Advances
<1>. QED
  BY <1>4, <1>5, <1>6

LEMMA QuoteFact ==
  ASSUME Inv, QuoteSelfCheck
  PROVE  /\ Running /\ call \in {5, 6, 7}
         /\ Advances /\ spent' <= spent + (IF call = 7 THEN 1 ELSE 2)
         /\ Same(seen') /\ seen'.active = seen.active
         /\ seen'.ek = seen.ek /\ seen'.ak = seen.ak
         /\ \/ /\ call' = 8 /\ seen'.quote = seen.quote
               /\ troubled' = TRUE \/ ~machine.quotes
            \/ /\ call' = call + 1 /\ seen'.quote = (call = 7)
               /\ machine.quotes
<1>1. /\ Running /\ call \in {5, 6, 7}
      /\ Limit[Calls[call]] = IF call = 7 THEN 1 ELSE 2
      /\ At("checkquote") <=> call = 7
  BY AtFact, CallFact DEF QuoteSelfCheck, Inv, TypeOK, At
<1>2. seen \in Receipts /\ spent \in Nat
  BY <1>1, RunningFact
<1>3. UNCHANGED <<machine, boots, keys, unit, serial, qemu, verdict>>
  BY DEF QuoteSelfCheck
<1>4. PICK d \in 0 .. 2, fails \in BOOLEAN :
        /\ Takes(d, fails)
        /\ IF fails \/ ~machine.quotes
             THEN Goes("bootc") /\ UNCHANGED seen
             ELSE /\ call' = call + 1
                  /\ seen' = [seen EXCEPT !.quote = At("checkquote")]
  BY DEF QuoteSelfCheck
<1>5. /\ spent' \in 0 .. UnitLimit
      /\ spent' <= spent + (IF call = 7 THEN 1 ELSE 2)
      /\ troubled' \in BOOLEAN /\ (troubled \/ fails => troubled')
  <2>1. d \in Nat
    OBVIOUS
  <2>2. /\ spent' \in 0 .. UnitLimit /\ spent' = spent + d
        /\ d <= Limit[Calls[call]]
        /\ troubled' \in BOOLEAN /\ (troubled \/ fails => troubled')
    BY <1>1, <1>4, <2>1, TakesFact, Zenon
  <2>. QED
    BY <1>1, <1>2, <2>2
<1>6. CASE fails \/ ~machine.quotes
  <2>1. call' = 8 /\ seen' = seen
    BY <1>4, <1>6, GoesFact
  <2>. QED
    BY <1>1, <1>2, <1>3, <1>5, <1>6, <2>1 DEF Advances, Same
<1>7. CASE ~fails /\ machine.quotes
  <2>1. call' = call + 1 /\ seen' = [seen EXCEPT !.quote = At("checkquote")]
    BY <1>4, <1>7
  <2>2. At("checkquote") \in BOOLEAN
    BY DEF At
  <2>3. /\ seen' \in Receipts /\ seen'.boot = seen.boot /\ Same(seen')
        /\ seen'.active = seen.active /\ seen'.ek = seen.ek
        /\ seen'.ak = seen.ak /\ seen'.quote = At("checkquote")
    BY <1>2, <2>1, <2>2 DEF Receipts, Same
  <2>4. seen'.quote = (call = 7)
    BY <1>1, <2>2, <2>3
  <2>. QED
    BY <1>1, <1>3, <1>5, <1>7, <2>1, <2>3, <2>4 DEF Advances
<1>. QED
  BY <1>6, <1>7

LEMMA BootcFact ==
  ASSUME Inv, BootcClaim
  PROVE  /\ Running /\ Advances /\ spent' <= spent + 1 /\ call = 8 /\ call' = 9
         /\ \/ /\ troubled' = TRUE /\ Same(seen')
               /\ seen'.active = seen.active /\ seen'.quote = seen.quote
            \/ /\ seen'.active = seen.active
               /\ \E fails \in SUBSET {"log", "bootc"} :
                    seen' = Claimed(fails) /\ (troubled' = TRUE \/ fails = {})
<1>1. Running /\ call = 8 /\ Limit[Calls[call]] = 1
  BY AtFact DEF BootcClaim, Inv, TypeOK
<1>2. seen \in Receipts /\ spent \in Nat /\ machine \in Guests
  BY <1>1, RunningFact, BootCanaryAssumption DEF Inv, TypeOK
<1>3. UNCHANGED <<machine, boots, keys, unit, serial, qemu, verdict>>
  BY DEF BootcClaim
<1>4. PICK d \in 0 .. 1, fails \in SUBSET {"log", "bootc"} :
        \/ Unhandled(d)
        \/ Takes(d, fails # {}) /\ seen' = Claimed(fails) /\ Goes("write")
  BY DEF BootcClaim, Claimed, LogFound, BootcFound
<1>7. d \in Nat
  OBVIOUS
<1>5. CASE Unhandled(d)
  <2>1. /\ spent' \in 0 .. UnitLimit /\ spent' = spent + d
        /\ troubled' = TRUE /\ call' = 9
        /\ seen' \in Receipts /\ seen'.boot = seen.boot /\ Same(seen')
        /\ seen'.active = seen.active /\ seen'.ek = seen.ek
        /\ seen'.ak = seen.ak /\ seen'.quote = seen.quote
    BY <1>1, <1>5, <1>7, UnhandledFact, Zenon
  <2>. QED
    BY <1>1, <1>2, <1>3, <2>1 DEF Advances
<1>6. CASE Takes(d, fails # {}) /\ seen' = Claimed(fails) /\ Goes("write")
  <2>1. call' = 9
    BY <1>6, GoesFact
  <2>2. /\ spent' \in 0 .. UnitLimit /\ spent' <= spent + 1
        /\ troubled' \in BOOLEAN /\ (troubled => troubled')
        /\ (fails # {} => troubled')
    <3>1. /\ spent' \in 0 .. UnitLimit /\ spent' = spent + d
          /\ troubled' \in BOOLEAN /\ (troubled => troubled')
        /\ (fails # {} => troubled')
      BY <1>1, <1>6, <1>7, TakesFact, Zenon
    <3>. QED
      BY <1>2, <3>1
  <2>. QED
    BY <1>1, <1>2, <1>3, <1>6, <2>1, <2>2, ClaimFact DEF Advances
<1>. QED
  BY <1>4, <1>5, <1>6

LEMMA WriteFact ==
  ASSUME Inv, WriteReceipt
  PROVE  /\ Running /\ call = 9 /\ unit' = "done"
         /\ UNCHANGED <<machine, boots, keys, call, spent, seen, qemu, verdict>>
         /\ troubled' \in BOOLEAN /\ (troubled => troubled')
         /\ \E lines \in Seq({seen, None}) :
              /\ serial' = serial \o lines
              /\ machine.port \/ machine.console =>
                   troubled' \/ lines = <<seen>>
<1>1. Running /\ call = 9
  BY AtFact DEF WriteReceipt, Inv, TypeOK
<1>2. troubled' \in BOOLEAN /\ (troubled => troubled')
  BY DEF WriteReceipt, Inv, TypeOK
<1>3. serial \in Seq(Receipts \union {None})
  BY DEF Inv, TypeOK
<1>4. Lines \subseteq Seq({seen, None})
  <2>1. /\ <<seen>> \in Seq({seen, None}) /\ <<None>> \in Seq({seen, None})
        /\ <<>> \in Seq({seen, None})
    OBVIOUS
  <2>. QED
    BY <2>1 DEF Lines
<1>5. ASSUME NEW line \in Lines, serial' = serial \o line,
             troubled' = (troubled \/ line # <<seen>>)
      PROVE  \E lines \in Seq({seen, None}) :
               /\ serial' = serial \o lines
               /\ troubled' \/ lines = <<seen>>
  <2>1. troubled' \/ line = <<seen>>
    BY <1>5
  <2>. QED
    BY <1>4, <1>5, <2>1
<1>6. ASSUME ~machine.port,
             NEW written \in {<<None>>, <<>>},
             NEW printed \in IF machine.console THEN Lines ELSE {<<>>},
             serial' = serial \o written \o printed,
             troubled' = (troubled \/ written \o printed # <<seen>>)
      PROVE  \E lines \in Seq({seen, None}) :
               /\ serial' = serial \o lines
               /\ troubled' \/ lines = <<seen>>
  <2>1. printed \in Seq({seen, None}) /\ written \in Seq({seen, None})
    <3>1. <<None>> \in Seq({seen, None}) /\ <<>> \in Seq({seen, None})
      OBVIOUS
    <3>. QED
      BY <1>4, <3>1
  <2>2. written \o printed \in Seq({seen, None})
    BY <2>1
  <2>3. (serial \o written) \o printed = serial \o (written \o printed)
    BY <1>3, <2>1
  <2>4. troubled' \/ written \o printed = <<seen>>
    BY <1>6
  <2>. QED
    BY <1>6, <2>2, <2>3, <2>4
<1>7. \E lines \in Seq({seen, None}) :
        serial' = serial \o lines /\ (troubled' \/ lines = <<seen>>)
  BY <1>5, <1>6 DEF WriteReceipt
<1>. QED
  BY <1>1, <1>2, <1>7 DEF WriteReceipt

-----------------------------------------------------------------------------
LEMMA NewReceipt ==
  ASSUME Len(boots) \in Nat, NEW n \in Nat, NEW r,
         r = [Nothing EXCEPT !.boot = n]
  PROVE  /\ r \in Receipts /\ r.boot = n
         /\ ~r.active /\ ~r.quote /\ ~r.success /\ ~r.efi
<1>1. Nothing \in Receipts
  BY DEF Nothing, Receipts
<1>2. /\ Nothing.active = FALSE /\ Nothing.quote = FALSE
      /\ Nothing.success = FALSE /\ Nothing.efi = FALSE
  BY DEF Nothing
<1>. QED
  BY <1>1, <1>2 DEF Receipts

(* Every step keeps every variable in its type. *)
LEMMA TypeStep ==
  Inv /\ [Next]_vars => TypeOK'
<1> SUFFICES ASSUME Inv, [Next]_vars PROVE TypeOK'
  OBVIOUS
<1>0. TypeOK /\ Len(Calls) = 9
  BY CallFact DEF Inv
<1>1. ASSUME Advances, call' \in 1 .. 9
      PROVE  TypeOK'
  BY <1>0, <1>1 DEF TypeOK, Advances
<1>2. CASE Provision
  <2>1. boots' \in Seq({"active", "skipped", "failed"})
    <3>1. boots \in Seq({"active", "skipped", "failed"})
      BY <1>0 DEF TypeOK
    <3>2. \E x \in {"active", "skipped", "failed"} : boots' = Append(boots, x)
      BY <1>2 DEF Provision
    <3>. QED
      BY <3>1, <3>2
  <2>2. Len(boots) \in Nat /\ Len(boots') \in Nat
    BY <1>0, <2>1 DEF TypeOK
  <2>3. seen' \in Receipts
    BY <1>2, <2>2, NewReceipt DEF Provision
  <2>4. /\ unit' \in {"running", "dependency"} /\ call' = 1 /\ spent' = 0
        /\ keys' \in BOOLEAN /\ UNCHANGED <<machine, serial, qemu, verdict, troubled>>
    BY <1>0, <1>2 DEF Provision, TypeOK
  <2>5. 1 \in 1 .. 9 /\ 0 \in 0 .. UnitLimit
    BY BootCanaryAssumption
  <2>. QED
    BY <1>0, <2>1, <2>3, <2>4, <2>5 DEF TypeOK
<1>3. CASE WaitForTpm
  <2>1. Advances /\ call' \in {2}
    BY <1>3, WaitFact, Zenon
  <2>. QED
    BY <1>1, <2>1
<1>4. CASE IsActive
  <2>1. Advances /\ call' \in {3, 8, 9}
    BY <1>4, IsActiveFact, Zenon
  <2>. QED
    BY <1>1, <2>1
<1>5. CASE HandleEk
  <2>1. Advances /\ call' \in {4, 9}
    BY <1>5, HandleEkFact, Zenon
  <2>. QED
    BY <1>1, <2>1
<1>6. CASE HandleAk
  <2>1. Advances /\ call' \in {5, 8, 9}
    BY <1>6, HandleAkFact, Zenon
  <2>. QED
    BY <1>1, <2>1
<1>7. CASE QuoteSelfCheck
  <2>1. Advances /\ call \in {5, 6, 7} /\ (call' = 8 \/ call' = call + 1)
    BY <1>7, QuoteFact, Zenon
  <2>. QED
    BY <1>1, <2>1
<1>8. CASE BootcClaim
  <2>1. Advances /\ call' = 9
    BY <1>8, BootcFact, Zenon
  <2>. QED
    BY <1>1, <2>1
<1>9. CASE WriteReceipt
  <2>1. seen \in Receipts
    BY <1>9, WriteFact, RunningFact
  <2>2. PICK lines \in Seq({seen, None}) : serial' = serial \o lines
    BY <1>9, WriteFact
  <2>3. lines \in Seq(Receipts \union {None})
    BY <2>1
  <2>4. serial' \in Seq(Receipts \union {None})
    BY <1>0, <2>2, <2>3 DEF TypeOK
  <2>. QED
    BY <1>0, <1>9, <2>4, WriteFact DEF TypeOK
<1>10. CASE UnitTimeout \/ PowerOff \/ Reset
  BY <1>0, <1>10 DEF UnitTimeout, PowerOff, Reset, TypeOK, guestVars
<1>11. CASE HostTimeout \/ QemuFails \/ Judge
  BY <1>0, <1>11 DEF HostTimeout, QemuFails, Judge, TypeOK, guestVars
<1>12. CASE UNCHANGED vars
  BY <1>0, <1>12 DEF vars, guestVars, TypeOK
<1>. QED
  BY <1>2, <1>3, <1>4, <1>5, <1>6, <1>7, <1>8, <1>9, <1>10, <1>11, <1>12
  DEF Next, Guest

(* Every boot that succeeded in provisioning had its TPM in time. *)
LEMMA BootedStep ==
  Inv /\ [Next]_vars => Booted'
<1> SUFFICES ASSUME Inv, [Next]_vars PROVE Booted'
  OBVIOUS
<1>0. Booted /\ boots \in Seq({"active", "skipped", "failed"})
  BY DEF Inv, TypeOK
<1>1. ASSUME UNCHANGED <<machine, boots, keys>>,
             unit' \in {"running", "done", "killed"} =>
               /\ unit \in {"running", "done", "killed"}
               /\ seen' \in Receipts /\ seen'.boot = seen.boot
      PROVE  Booted'
  BY <1>0, <1>1 DEF Booted, Last
<1>2. ASSUME Advances, Running
      PROVE  Booted'
  BY <1>1, <1>2 DEF Advances, Running
<1>3. CASE Provision
  <2>1. /\ Len(boots') = Len(boots) + 1 /\ Len(boots) \in Nat
        /\ \A k \in 1 .. Len(boots) : boots'[k] = boots[k]
        /\ boots'[Len(boots')] \in {"active", "skipped", "failed"}
        /\ boots'[Len(boots')] = "active" =>
             machine.tpm = "early" /\ keys' = TRUE
        /\ machine.tpm = "early" /\ unit' = "running" =>
             boots'[Len(boots')] = "active"
        /\ boots'[Len(boots')] = "failed" => unit' = "dependency"
        /\ unit' \in {"running", "dependency"}
        /\ machine' = machine /\ (keys => keys')
    BY <1>0, <1>3 DEF Provision
  <2>2. seen' \in Receipts /\ seen'.boot = Len(boots')
    BY <1>3, <2>1, NewReceipt DEF Provision
  <2>3. \A k \in 1 .. Len(boots') :
          boots'[k] = "active" => machine'.tpm = "early" /\ keys'
    <3> TAKE k \in 1 .. Len(boots')
    <3>1. k = Len(boots') \/ k \in 1 .. Len(boots)
      BY <2>1
    <3>. QED
      BY <1>0, <2>1, <3>1 DEF Booted
  <2>. QED
    BY <2>1, <2>2, <2>3 DEF Booted, Last
<1>4. CASE WaitForTpm
  BY <1>2, <1>4, WaitFact
<1>5. CASE IsActive
  BY <1>2, <1>5, IsActiveFact
<1>6. CASE HandleEk
  BY <1>2, <1>6, HandleEkFact
<1>7. CASE HandleAk
  BY <1>2, <1>7, HandleAkFact
<1>8. CASE QuoteSelfCheck
  BY <1>2, <1>8, QuoteFact
<1>9. CASE BootcClaim
  BY <1>2, <1>9, BootcFact
<1>10. CASE WriteReceipt
  BY <1>1, <1>10, WriteFact, RunningFact
<1>11. CASE UnitTimeout \/ PowerOff \/ Reset
  BY <1>0, <1>1, <1>11
  DEF UnitTimeout, PowerOff, Reset, Running, guestVars, Booted
<1>12. CASE HostTimeout \/ QemuFails \/ Judge
  BY <1>0, <1>1, <1>12
  DEF HostTimeout, QemuFails, Judge, guestVars, Booted
<1>13. CASE UNCHANGED vars
  BY <1>0, <1>1, <1>13 DEF vars, guestVars, Booted
<1>. QED
  BY <1>3, <1>4, <1>5, <1>6, <1>7, <1>8, <1>9, <1>10, <1>11, <1>12, <1>13
  DEF Next, Guest

(* What every receipt claims is so, and stays so. *)
LEMMA TruthfulStep ==
  Inv /\ [Next]_vars => Truthful'
<1> SUFFICES ASSUME Inv, [Next]_vars PROVE Truthful'
  OBVIOUS
<1>0. /\ Truthful /\ verdict \in {None, "accepted", "rejected"}
      /\ None \notin {"accepted", "rejected"}
      /\ serial \in Seq(Receipts \union {None})
      /\ boots \in Seq({"active", "skipped", "failed"}) /\ keys \in BOOLEAN
  BY BootCanaryAssumption DEF Inv, TypeOK
<1>1. ASSUME Advances, Running,
             seen'.active => Last = "active", seen'.quote => machine.quotes,
             Supported(seen')
      PROVE  Truthful'
  <2>1. /\ UNCHANGED <<machine, boots, keys, unit, serial, qemu, verdict>>
        /\ verdict = None
    BY <1>0, <1>1 DEF Advances, Running, Truthful
  <2>2. Supported(seen)' /\ (\A k \in 1 .. Len(serial) : serial[k] # None => Supported(serial[k]))'
    BY <1>0, <1>1, <2>1 DEF Supported, Truthful
  <2>3. unit' = "running" => /\ seen'.active => Last' = "active"
                             /\ seen'.quote => machine'.quotes
    BY <1>1, <2>1 DEF Last
  <2>. QED
    BY <1>0, <2>1, <2>2, <2>3 DEF Truthful
<1>2. ASSUME Running
      PROVE  /\ seen.active => Last = "active"
             /\ seen.quote => machine.quotes
             /\ Supported(seen) /\ Len(boots) \in Nat
             /\ seen.boot = Len(boots) /\ Len(boots) >= 1
  BY <1>0, <1>2, RunningFact DEF Running, Truthful
<1>3. ASSUME Running, seen'.success = seen.success, seen'.efi = seen.efi,
             seen'.boot = seen.boot
      PROVE  Supported(seen')
  BY <1>2, <1>3 DEF Supported
<1>4. CASE Provision
  <2>1. /\ Len(boots') = Len(boots) + 1 /\ Len(boots) \in Nat
        /\ \A k \in 1 .. Len(boots) : boots'[k] = boots[k]
        /\ (keys => keys') /\ UNCHANGED <<machine, serial, qemu, verdict>>
        /\ qemu = "running" /\ unit' \in {"running", "dependency"}
    <3>1. \E x \in {"active", "skipped", "failed"} : boots' = Append(boots, x)
      BY <1>4 DEF Provision
    <3>2. /\ Len(boots') = Len(boots) + 1 /\ Len(boots) \in Nat
          /\ \A k \in 1 .. Len(boots) : boots'[k] = boots[k]
      BY <1>0, <3>1
    <3>3. /\ (keys => keys') /\ UNCHANGED <<machine, serial, qemu, verdict>>
          /\ qemu = "running" /\ unit' \in {"running", "dependency"}
      BY <1>4 DEF Provision
    <3>. QED
      BY <3>2, <3>3
  <2>2. \A r : Supported(r) => Supported(r)'
    <3> TAKE r
    <3> HAVE Supported(r)
    <3>1. r.success => /\ r.boot \in 1 .. Len(boots) /\ boots[r.boot] = "active"
                       /\ keys /\ machine.quotes /\ machine.log
                       /\ machine.bootc # "fails"
      BY DEF Supported
    <3>2. r.success => r.boot \in 1 .. Len(boots') /\ boots'[r.boot] = "active"
      BY <2>1, <3>1
    <3>. QED
      BY <2>1, <3>1, <3>2 DEF Supported
  <2>3. ~seen'.active /\ ~seen'.quote /\ ~seen'.success /\ ~seen'.efi
    <3>1. Len(boots') \in Nat /\ seen' = [Nothing EXCEPT !.boot = Len(boots')]
      BY <1>4, <2>1 DEF Provision
    <3>. QED
      BY <2>1, <3>1, NewReceipt
  <2>4. Supported(seen)'
    BY <2>3 DEF Supported
  <2>5. verdict' = None
    BY <1>0, <2>1 DEF Truthful
  <2>6. \A k \in 1 .. Len(serial') : serial'[k] # None => Supported(serial[k])'
    <3> TAKE k \in 1 .. Len(serial')
    <3> HAVE serial'[k] # None
    <3>1. Supported(serial[k]) /\ serial' = serial
      BY <1>0, <2>1 DEF Truthful
    <3>. QED
      BY <2>1, <2>2, <3>1 DEF Supported
  <2>. QED
    BY <1>0, <2>1, <2>3, <2>4, <2>5, <2>6 DEF Truthful
<1>5. CASE WaitForTpm
  <2>1. /\ Running /\ Advances /\ seen'.success = seen.success
        /\ seen'.efi = seen.efi /\ seen'.quote = seen.quote
        /\ seen'.active = seen.active
    BY <1>5, WaitFact DEF Same
  <2>2. seen'.boot = seen.boot
    BY <2>1 DEF Advances
  <2>. QED
    BY <1>1, <1>2, <1>3, <2>1, <2>2
<1>6. CASE IsActive
  <2>1. /\ Running /\ Advances /\ seen'.success = seen.success
        /\ seen'.efi = seen.efi /\ seen'.quote = seen.quote
        /\ seen'.active = seen.active \/ (seen'.active => Last = "active")
    BY <1>6, IsActiveFact DEF Same
  <2>2. seen'.boot = seen.boot
    BY <2>1 DEF Advances
  <2>. QED
    BY <1>1, <1>2, <1>3, <2>1, <2>2
<1>7. CASE HandleEk
  <2>1. /\ Running /\ Advances /\ seen'.success = seen.success
        /\ seen'.efi = seen.efi /\ seen'.quote = seen.quote
        /\ seen'.active = seen.active
    BY <1>7, HandleEkFact DEF Same
  <2>2. seen'.boot = seen.boot
    BY <2>1 DEF Advances
  <2>. QED
    BY <1>1, <1>2, <1>3, <2>1, <2>2
<1>8. CASE HandleAk
  <2>1. /\ Running /\ Advances /\ seen'.success = seen.success
        /\ seen'.efi = seen.efi /\ seen'.quote = seen.quote
        /\ seen'.active = seen.active
    BY <1>8, HandleAkFact DEF Same
  <2>2. seen'.boot = seen.boot
    BY <2>1 DEF Advances
  <2>. QED
    BY <1>1, <1>2, <1>3, <2>1, <2>2
<1>9. CASE QuoteSelfCheck
  <2>1. /\ Running /\ Advances /\ seen'.success = seen.success
        /\ seen'.efi = seen.efi /\ seen'.active = seen.active
        /\ seen'.quote = seen.quote \/ machine.quotes
    BY <1>9, QuoteFact DEF Same
  <2>2. seen'.boot = seen.boot
    BY <2>1 DEF Advances
  <2>. QED
    BY <1>1, <1>2, <1>3, <2>1, <2>2
<1>10. CASE BootcClaim
  <2>1. Running /\ Advances /\ seen'.active = seen.active
    BY <1>10, BootcFact
  <2>2. seen'.boot = seen.boot
    BY <2>1 DEF Advances
  <2>3. CASE Same(seen') /\ seen'.quote = seen.quote
    BY <1>1, <1>2, <1>3, <2>1, <2>2, <2>3 DEF Same
  <2>4. ASSUME NEW fails \in SUBSET {"log", "bootc"}, seen' = Claimed(fails)
        PROVE  Truthful'
    <3>1. /\ seen'.quote = seen.quote /\ seen'.efi = machine.efi
          /\ seen'.success => /\ seen.active /\ keys /\ seen.quote
                              /\ machine.log /\ machine.bootc # "fails"
      BY <2>1, <2>4, ClaimFact, RunningFact, BootCanaryAssumption
      DEF Inv, TypeOK
    <3>2. Supported(seen')
      BY <1>2, <2>1, <2>2, <3>1 DEF Supported, Last
    <3>. QED
      BY <1>1, <1>2, <2>1, <3>1, <3>2
  <2>. QED
    BY <1>10, <2>3, <2>4, BootcFact
<1>11. CASE WriteReceipt
  <2>1. /\ Running /\ unit' = "done" /\ seen \in Receipts
        /\ UNCHANGED <<machine, boots, keys, call, spent, seen, qemu, verdict>>
    BY <1>11, WriteFact, RunningFact
  <2>2. PICK lines \in Seq({seen, None}) : serial' = serial \o lines
    BY <1>11, WriteFact
  <2>3. \A k \in 1 .. Len(serial') :
          \/ k \in 1 .. Len(serial) /\ serial'[k] = serial[k]
          \/ serial'[k] \in {seen, None}
    BY <1>0, <2>2
  <2>4. \A k \in 1 .. Len(serial') : serial'[k] # None => Supported(serial'[k])
    BY <1>0, <1>2, <2>1, <2>3 DEF Truthful
  <2>5. verdict' = None
    BY <1>0, <2>1 DEF Truthful, Running
  <2>. QED
    BY <1>0, <1>2, <2>1, <2>4, <2>5 DEF Truthful, Supported
<1>12. CASE UnitTimeout \/ PowerOff \/ Reset \/ HostTimeout \/ QemuFails
  <2>1. /\ UNCHANGED <<machine, boots, keys, seen, serial, verdict>>
        /\ verdict = None /\ unit' \in {unit, "killed", "waiting"}
    BY <1>0, <1>12
    DEF UnitTimeout, PowerOff, Reset, HostTimeout, QemuFails, guestVars,
        Truthful, Running
  <2>. QED
    BY <1>0, <2>1 DEF Truthful, Supported, Last
<1>13. CASE Judge
  <2>1. /\ UNCHANGED <<machine, boots, keys, seen, serial, unit, qemu>>
        /\ qemu # "running"
        /\ verdict' = "accepted" =>
             Len(serial) = 1 /\ serial[1] # None /\ ValidGuest(serial[1])
    BY <1>13 DEF Judge, guestVars
  <2>. QED
    BY <1>0, <2>1 DEF Truthful, Supported, Last, ValidGuest
<1>14. CASE UNCHANGED vars
  BY <1>0, <1>14 DEF vars, guestVars, Truthful, Supported, Last, ValidGuest
<1>. QED
  BY <1>4, <1>5, <1>6, <1>7, <1>8, <1>9, <1>10, <1>11, <1>12, <1>13, <1>14
  DEF Next, Guest

LEMMA GoneFact ==
  /\ GoneEarly[1] = 0 /\ GoneEarly[2] = 0 /\ GoneEarly[3] = 1
  /\ GoneEarly[4] = 2 /\ GoneEarly[5] = 3 /\ GoneEarly[6] = 5
  /\ GoneEarly[7] = 7 /\ GoneEarly[8] = 8 /\ GoneEarly[9] = 9
  /\ GoneOther[1] = 0 /\ GoneOther[2] = 3 /\ GoneOther[3] = 4
  /\ GoneOther[4] = 5 /\ GoneOther[8] = 6 /\ GoneOther[9] = 7
  BY DEF GoneEarly, GoneOther

(* No call begins so late that the unit's limit could end it. *)
LEMMA PunctualStep ==
  ASSUME UnitLimit >= 10
  PROVE  Inv /\ Punctual /\ [Next]_vars => Punctual'
<1> SUFFICES ASSUME Inv, Punctual, [Next]_vars PROVE Punctual'
  OBVIOUS
<1>0. /\ unit # "killed" /\ spent \in Nat /\ UnitLimit \in Nat
      /\ call \in 1 .. 9
  BY CallFact, BootCanaryAssumption DEF Inv, TypeOK, Punctual
<1>1. ASSUME Running
      PROVE  /\ unit = "running"
             /\ machine.tpm = "early" => spent <= GoneEarly[call]
             /\ machine.tpm # "early" =>
                  /\ spent <= GoneOther[call] /\ ~seen.active
                  /\ call \notin {5, 6, 7} /\ Last # "active"
  BY <1>1, RunningFact DEF Punctual, Inv, Booted, Running
<1>2. ASSUME Advances, Running,
             machine.tpm = "early" => spent' <= GoneEarly[call'],
             machine.tpm # "early" =>
               spent' <= GoneOther[call'] /\ ~seen'.active /\ call' \notin {5, 6, 7}
      PROVE  Punctual'
  <2>1. machine' = machine /\ unit' = "running"
    BY <1>1, <1>2 DEF Advances
  <2>. QED
    BY <1>2, <2>1 DEF Punctual
<1>3. ASSUME Advances PROVE spent' \in Nat
  BY <1>0, <1>3 DEF Advances
<1>4. CASE Provision
  <2>1. Len(boots) \in Nat /\ boots \in Seq({"active", "skipped", "failed"})
    BY DEF Inv, TypeOK
  <2>2. \E x \in {"active", "skipped", "failed"} : boots' = Append(boots, x)
    BY <1>4 DEF Provision
  <2>3. Len(boots') \in Nat /\ seen' = [Nothing EXCEPT !.boot = Len(boots')]
    BY <1>4, <2>1, <2>2 DEF Provision
  <2>4. ~seen'.active
    BY <2>1, <2>3, NewReceipt
  <2>. QED
    BY <1>4, <2>4, GoneFact DEF Provision, Punctual
<1>5. CASE WaitForTpm
  <2>1. /\ Running /\ Advances /\ spent' <= spent + 3 /\ call = 1 /\ call' = 2
        /\ (machine.tpm = "early" => spent' = spent)
        /\ seen'.active = seen.active
    BY <1>5, WaitFact
  <2>2. spent' \in Nat
    BY <1>3, <2>1
  <2>. QED
    BY <1>0, <1>1, <1>2, <2>1, <2>2, GoneFact
<1>6. CASE IsActive
  <2>1. /\ Running /\ Advances /\ spent' <= spent + 1 /\ call = 2
        /\ call' \in {3, 8, 9}
        /\ seen'.active = seen.active \/ (seen'.active => Last = "active")
    BY <1>6, IsActiveFact
  <2>2. spent' \in Nat
    BY <1>3, <2>1
  <2>3. machine.tpm # "early" => ~seen'.active
    BY <1>1, <2>1
  <2>. QED
    BY <1>0, <1>1, <1>2, <2>1, <2>2, <2>3, GoneFact
<1>7. CASE HandleEk
  <2>1. /\ Running /\ Advances /\ spent' <= spent + 1 /\ call = 3
        /\ call' \in {4, 9} /\ seen'.active = seen.active
    BY <1>7, HandleEkFact
  <2>2. spent' \in Nat
    BY <1>3, <2>1
  <2>. QED
    BY <1>0, <1>1, <1>2, <2>1, <2>2, GoneFact
<1>8. CASE HandleAk
  <2>1. /\ Running /\ Advances /\ spent' <= spent + 1 /\ call = 4
        /\ call' \in {5, 8, 9} /\ seen'.active = seen.active
        /\ call' = 5 => seen.active
    <3>1. /\ Running /\ Advances /\ spent' <= spent + 1 /\ call = 4
          /\ seen'.active = seen.active
          /\ \/ call' = 9
             \/ call' = IF seen.active /\ seen.ek /\ seen'.ak THEN 5 ELSE 8
      BY <1>8, HandleAkFact, Zenon
    <3>. QED
      BY <3>1
  <2>2. spent' \in Nat
    BY <1>3, <2>1
  <2>. QED
    BY <1>0, <1>1, <1>2, <2>1, <2>2, GoneFact
<1>9. CASE QuoteSelfCheck
  <2>1. /\ Running /\ Advances /\ call \in {5, 6, 7}
        /\ spent' <= spent + (IF call = 7 THEN 1 ELSE 2)
        /\ call' = 8 \/ call' = call + 1
    BY <1>9, QuoteFact
  <2>2. spent' \in Nat /\ machine.tpm = "early"
    BY <1>1, <1>3, <2>1
  <2>. QED
    BY <1>0, <1>1, <1>2, <2>1, <2>2, GoneFact
<1>10. CASE BootcClaim
  <2>1. /\ Running /\ Advances /\ spent' <= spent + 1 /\ call = 8 /\ call' = 9
        /\ seen'.active = seen.active
    BY <1>10, BootcFact
  <2>2. spent' \in Nat
    BY <1>3, <2>1
  <2>. QED
    BY <1>0, <1>1, <1>2, <2>1, <2>2, GoneFact
<1>11. CASE WriteReceipt
  BY <1>11, WriteFact DEF Punctual
<1>12. CASE UnitTimeout
  <2>1. Running
    BY <1>12 DEF UnitTimeout
  <2>2. spent < 10
    BY <1>0, <1>1, <2>1, GoneFact
  <2>3. At("write") => call = 9
    BY <1>0, CallFact, AtFact
  <2>4. ~At("write") => spent + Limit[Calls[call]] < 10
    <3>1. call \in {1, 2, 3, 4, 5, 6, 7, 8, 9}
      BY <1>0
    <3>2. call = 9 => At("write")
      BY <2>1, CallFact DEF At
    <3>3. /\ Limit["tpm"] = 3 /\ Limit["active"] = 1 /\ Limit["ek"] = 1
          /\ Limit["ak"] = 1 /\ Limit["identity"] = 2 /\ Limit["quote"] = 2
          /\ Limit["checkquote"] = 1 /\ Limit["bootc"] = 1
      BY DEF Limit
    <3>. QED
      BY <1>0, <1>1, <2>1, <3>1, <3>2, <3>3, CallFact, GoneFact
  <2>5. IF At("write") THEN spent = UnitLimit
        ELSE spent + Limit[Calls[call]] >= UnitLimit
    BY <1>12 DEF UnitTimeout
  <2>6. CASE At("write")
    BY <1>0, <2>2, <2>5, <2>6
  <2>7. CASE ~At("write")
    <3>1. Limit[Calls[call]] \in Nat
      <4>1. call \in {1, 2, 3, 4, 5, 6, 7, 8} 
        <5>1. call # 9
          BY <2>1, <2>7, CallFact DEF At
        <5>. QED
          BY <1>0, <5>1
      <4>. QED
        BY <4>1, CallFact DEF Limit
    <3>. QED
      BY <1>0, <2>4, <2>5, <2>7, <3>1
  <2>. QED
    BY <2>6, <2>7
<1>13. CASE PowerOff \/ Reset \/ HostTimeout \/ QemuFails \/ Judge
  BY <1>0, <1>13
  DEF PowerOff, Reset, HostTimeout, QemuFails, Judge, guestVars, Punctual
<1>14. CASE UNCHANGED vars
  BY <1>14 DEF vars, guestVars, Punctual
<1>. QED
  BY <1>4, <1>5, <1>6, <1>7, <1>8, <1>9, <1>10, <1>11, <1>12, <1>13, <1>14
  DEF Next, Guest

(* A sound guest in which nothing goes wrong misses nothing. *)
LEMMA SmoothStep ==
  Inv /\ [Next]_vars => Smooth'
<1> SUFFICES ASSUME Inv, [Next]_vars, Sound(machine)', ~troubled'
             PROVE  Smooth'
  BY DEF Smooth
<1>0. /\ Smooth /\ troubled \in BOOLEAN /\ None \notin Receipts
      /\ call \in 1 .. 9 /\ boots \in Seq({"active", "skipped", "failed"})
  BY CallFact, BootCanaryAssumption DEF Inv, TypeOK
<1>1. ASSUME Running, machine' = machine, troubled => troubled'
      PROVE  /\ Sound(machine) /\ ~troubled /\ seen \in Receipts
             /\ Last = "active" /\ keys /\ serial = <<>>
             /\ call >= 2 => seen.device
             /\ call >= 3 => seen.active
             /\ call >= 4 => seen.ek
             /\ call >= 5 => seen.ak
             /\ call >= 8 => seen.quote
             /\ call = 9 => ValidGuest(seen)
             /\ verdict # "rejected"
  <2>1. Sound(machine) /\ ~troubled
    BY <1>1 DEF Sound
  <2>2. Last = "active" /\ keys
    BY <1>1, <2>1, RunningFact DEF Inv, Booted, Last, Sound
  <2>. QED
    BY <1>0, <1>1, <2>1, <2>2, RunningFact DEF Smooth
<1>2. ASSUME Advances, Running,
             call' >= 2 => seen'.device, call' >= 3 => seen'.active,
             call' >= 4 => seen'.ek, call' >= 5 => seen'.ak,
             call' >= 8 => seen'.quote, call' = 9 => ValidGuest(seen')
      PROVE  Smooth'
  <2>1. /\ UNCHANGED <<machine, unit, serial, qemu, verdict>>
        /\ (troubled => troubled') /\ unit = "running" /\ qemu = "running"
    BY <1>2, RunningFact DEF Advances
  <2>2. serial = <<>> /\ verdict # "rejected"
    BY <1>1, <1>2, <2>1
  <2>. QED
    BY <1>2, <2>1, <2>2 DEF Smooth, ValidGuest
<1>3. ASSUME Advances PROVE machine' = machine /\ (troubled => troubled')
  BY <1>3 DEF Advances
<1>4. CASE Provision
  <2>1. /\ UNCHANGED <<machine, serial, qemu, verdict, troubled>>
        /\ qemu = "running" /\ unit = "waiting" /\ call' = 1
    BY <1>4 DEF Provision
  <2>2. machine.tpm = "early" /\ machine.provisions
    BY <2>1 DEF Sound
  <2>3. unit' = "running"
    BY <1>4, <2>2 DEF Provision
  <2>4. serial = <<>> /\ verdict # "rejected"
    BY <1>0, <2>1 DEF Smooth
  <2>. QED
    BY <2>1, <2>3, <2>4 DEF Smooth
<1>5. CASE WaitForTpm
  <2>1. /\ Running /\ Advances /\ call' = 2
        /\ machine.tpm = "early" => seen'.device
    BY <1>5, WaitFact, Zenon
  <2>2. machine.tpm = "early"
    BY <1>1, <1>3, <2>1 DEF Sound
  <2>. QED
    BY <1>2, <2>1, <2>2
<1>6. CASE IsActive
  <2>1. /\ Running /\ Advances /\ call = 2 /\ seen'.device = seen.device
        /\ \/ troubled' = TRUE
           \/ /\ call' = IF seen.device THEN 3 ELSE 8
              /\ seen'.active = (Last = "active")
    BY <1>6, IsActiveFact, Zenon DEF Same
  <2>2. Last = "active" /\ seen.device
    BY <1>1, <1>3, <2>1
  <2>3. call' = 3 /\ seen'.active /\ seen'.device
    BY <2>1, <2>2
  <2>. QED
    BY <1>2, <2>1, <2>3
<1>7. CASE HandleEk
  <2>1. /\ Running /\ Advances /\ call = 3 /\ seen'.device = seen.device
        /\ seen'.active = seen.active
        /\ troubled' = TRUE \/ (call' = 4 /\ seen'.ek = keys)
    BY <1>7, HandleEkFact, Zenon DEF Same
  <2>2. keys /\ seen.device /\ seen.active
    BY <1>1, <1>3, <2>1
  <2>3. call' = 4 /\ seen'.ek /\ seen'.device /\ seen'.active
    BY <2>1, <2>2
  <2>. QED
    BY <1>2, <2>1, <2>3
<1>8. CASE HandleAk
  <2>1. /\ Running /\ Advances /\ call = 4 /\ seen'.device = seen.device
        /\ seen'.active = seen.active
        /\ \/ troubled' = TRUE
           \/ /\ seen'.ak = keys /\ seen'.ek = seen.ek
              /\ call' = IF seen.active /\ seen.ek /\ seen'.ak THEN 5 ELSE 8
    BY <1>8, HandleAkFact, Zenon DEF Same
  <2>2. keys /\ seen.device /\ seen.active /\ seen.ek
    BY <1>1, <1>3, <2>1
  <2>3. call' = 5 /\ seen'.ek /\ seen'.ak /\ seen'.device /\ seen'.active
    BY <2>1, <2>2
  <2>. QED
    BY <1>2, <2>1, <2>3
<1>9. CASE QuoteSelfCheck
  <2>1. /\ Running /\ Advances /\ call \in {5, 6, 7}
        /\ seen'.device = seen.device /\ seen'.active = seen.active
        /\ seen'.ek = seen.ek /\ seen'.ak = seen.ak
        /\ \/ troubled' = TRUE \/ ~machine.quotes
           \/ (call' = call + 1 /\ seen'.quote = (call = 7))
    BY <1>9, QuoteFact, Zenon DEF Same
  <2>2. machine.quotes /\ seen.device /\ seen.active /\ seen.ek /\ seen.ak
    BY <1>1, <1>3, <2>1 DEF Sound
  <2>3. call' = call + 1 /\ seen'.quote = (call = 7)
    BY <2>1, <2>2
  <2>4. seen'.ek /\ seen'.ak /\ seen'.device /\ seen'.active
    BY <2>1, <2>2
  <2>5. call' \in {6, 7, 8}
    BY <2>1, <2>3
  <2>6. ASSUME call' = 8 PROVE seen'.quote
    <3>1. call = 7
      BY <2>1, <2>3, <2>6
    <3>. QED
      BY <2>3, <3>1, Zenon
  <2>. QED
    BY <1>2, <2>1, <2>4, <2>5, <2>6
<1>10. CASE BootcClaim
  <2>1. /\ Running /\ Advances /\ call = 8 /\ call' = 9
        /\ troubled' = TRUE \/ seen' = Claimed({})
    BY <1>10, BootcFact, Zenon
  <2>2. /\ Sound(machine) /\ seen \in Receipts /\ keys
        /\ seen.device /\ seen.active /\ seen.ek /\ seen.ak /\ seen.quote
    BY <1>1, <1>3, <2>1
  <2>3. machine \in Guests /\ seen' = Claimed({})
    BY <2>1, BootCanaryAssumption DEF Inv, TypeOK
  <2>4. ValidGuest(seen')
    BY <2>2, <2>3, ClaimFact
    DEF ValidGuest, Sound, LogFound, BootcFound
  <2>. QED
    BY <1>2, <2>1, <2>4 DEF ValidGuest
<1>11. CASE WriteReceipt
  <2>1. /\ Running /\ call = 9 /\ unit' = "done" /\ (troubled => troubled')
        /\ UNCHANGED <<machine, boots, keys, call, spent, seen, qemu, verdict>>
    BY <1>11, WriteFact
  <2>2. PICK lines \in Seq({seen, None}) :
          /\ serial' = serial \o lines
          /\ machine.port \/ machine.console => troubled' \/ lines = <<seen>>
    BY <1>11, WriteFact
  <2>3. /\ Sound(machine) /\ serial = <<>> /\ ValidGuest(seen)
        /\ verdict # "rejected"
    BY <1>1, <2>1
  <2>4. serial' = <<seen>>
    BY <2>2, <2>3 DEF Sound
  <2>5. qemu' = "running" /\ serial' = <<seen'>> /\ ValidGuest(seen')
    BY <2>1, <2>3, <2>4 DEF Running
  <2>. QED
    BY <2>1, <2>3, <2>5 DEF Smooth, ValidGuest
<1>12. CASE UnitTimeout \/ Reset \/ HostTimeout \/ QemuFails
  BY <1>12 DEF UnitTimeout, Reset, HostTimeout, QemuFails
<1>13. CASE PowerOff
  BY <1>0, <1>13 DEF PowerOff, guestVars, Smooth, Sound, ValidGuest
<1>14. CASE Judge
  <2>1. UNCHANGED <<machine, guestVars, qemu, troubled>> /\ qemu # "running"
    BY <1>14 DEF Judge
  <2>2. Sound(machine) /\ ~troubled
    BY <2>1 DEF Sound
  <2>3. qemu = "off" /\ unit = "done" /\ serial = <<seen>> /\ ValidGuest(seen)
    BY <1>0, <2>1, <2>2 DEF Smooth
  <2>4. seen \in Receipts
    BY <2>3 DEF Inv, Booted
  <2>5. Len(serial) = 1 /\ serial[1] = seen /\ seen # None
    BY <1>0, <2>3, <2>4
  <2>6. verdict' = "accepted"
    BY <1>14, <2>3, <2>5 DEF Judge
  <2>. QED
    BY <2>1, <2>3, <2>6 DEF Smooth, guestVars, ValidGuest
<1>15. CASE UNCHANGED vars
  BY <1>0, <1>15 DEF vars, guestVars, Smooth, Sound, ValidGuest
<1>. QED
  BY <1>4, <1>5, <1>6, <1>7, <1>8, <1>9, <1>10, <1>11, <1>12, <1>13, <1>14,
     <1>15
  DEF Next, Guest

LEMMA CanaryInvariance ==
  Spec => []Inv
<1>1. Init => Inv
  <2> SUFFICES ASSUME Init PROVE Inv
    OBVIOUS
  <2>1. /\ 1 \in 1 .. Len(Calls) /\ 0 \in 0 .. UnitLimit
        /\ None \notin {"accepted", "rejected"}
    BY CallFact, BootCanaryAssumption
  <2>2. boots = <<>> /\ Len(boots) = 0 /\ serial = <<>> /\ Len(serial) = 0
    BY DEF Init
  <2>3. TypeOK
    <3>1. /\ <<>> \in Seq({"active", "skipped", "failed"})
          /\ <<>> \in Seq(Receipts \union {None})
      OBVIOUS
    <3>2. boots \in Seq({"active", "skipped", "failed"})
      BY <2>2, <3>1, Zenon
    <3>3. serial \in Seq(Receipts \union {None})
      BY <2>2, <3>1, Zenon
    <3>4. /\ machine \in Machines /\ keys \in BOOLEAN
          /\ unit \in {"waiting", "running", "done", "killed", "dependency"}
          /\ call \in 1 .. Len(Calls) /\ spent \in 0 .. UnitLimit
          /\ seen \in Receipts \union {None}
          /\ qemu \in {"running", "off", "limit", "failed"}
          /\ verdict \in {None, "accepted", "rejected"}
          /\ troubled \in BOOLEAN
      BY <2>1 DEF Init
    <3>. QED
      BY <3>2, <3>3, <3>4 DEF TypeOK
  <2>4. Booted
    BY <2>2 DEF Init, Booted
  <2>5. Truthful
    BY <2>1, <2>2 DEF Init, Truthful
  <2>6. Smooth
    BY <2>1, <2>2 DEF Init, Smooth
  <2>. QED
    BY <2>3, <2>4, <2>5, <2>6 DEF Inv
<1>2. Inv /\ [Next]_vars => Inv'
  BY TypeStep, BootedStep, TruthfulStep, SmoothStep DEF Inv
<1>. QED
  BY <1>1, <1>2, PTL DEF Spec

-----------------------------------------------------------------------------
(* Every variable of the canary and of the host has its type: the receipts on
   the serial line are whole receipts or garbled ones, and no step is charged
   more time than the unit has. *)
THEOREM CanaryTypeCorrect ==
  Spec => []TypeOK
<1>1. Inv => TypeOK
  BY DEF Inv
<1>. QED
  BY <1>1, CanaryInvariance, PTL

(* validate_guest trusts what the guest printed: an accepted receipt was written
   by a boot that provisioned its TPM and whose quote verified, whatever resets,
   garbled lines and time limits came between. *)
THEOREM AcceptedReceiptTrue ==
  Spec => []AcceptedIsTrue
<1>1. Inv => AcceptedIsTrue
  <2> SUFFICES ASSUME Inv, verdict = "accepted" PROVE AcceptedIsTrue
    BY DEF AcceptedIsTrue
  <2>1. serial[1] # None /\ ValidGuest(serial[1]) /\ Supported(serial[1])
    BY DEF Inv, Truthful
  <2>. QED
    BY <2>1 DEF AcceptedIsTrue, Inv, Booted, Supported, ValidGuest
<1>. QED
  BY <1>1, CanaryInvariance, PTL

(* A canary that fails on a guest that lacks nothing met a command that failed
   or used up its time, a garbled line, a reset, or the host's own limit: neither
   the order of the calls nor the time they take together rejects a guest. *)
THEOREM RejectionExplained ==
  Spec => []FailureExplained
<1>1. Inv => FailureExplained
  BY DEF Inv, TypeOK, Smooth, FailureExplained
<1>. QED
  BY <1>1, CanaryInvariance, PTL

(* With TimeoutStartSec= of five minutes or more, the unit is never killed: the
   receipt always has the time to be written. *)
THEOREM LimitsAreEnough ==
  ASSUME UnitLimit >= 10
  PROVE  Spec => []LimitsSuffice
<1>1. Init => Punctual
  BY GoneFact DEF Init, Punctual
<1>2. Inv /\ Punctual /\ [Next]_vars => Punctual'
  BY PunctualStep
<1>3. Punctual => LimitsSuffice
  BY DEF Punctual, LimitsSuffice
<1>. QED
  BY <1>1, <1>2, <1>3, CanaryInvariance, PTL DEF Spec

=============================================================================
