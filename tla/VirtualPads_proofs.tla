-------------------------- MODULE VirtualPads_proofs --------------------------
(***************************************************************************)
(* Theorems about VirtualPads, for any media objects, controllers and      *)
(* number of minors.                                                       *)
(***************************************************************************)
EXTENDS VirtualPads, TLAPS, FunctionTheorems, FiniteSetTheorems

-----------------------------------------------------------------------------
(***************************************************************************)
(* The inductive invariant.                                                *)
(***************************************************************************)

(* The operation in progress on m is about its pad c.                      *)
At(m, c, steps) == slot[m] = c /\ step[m] \in steps

(* A pad whose hwdb file exists; one that SDL has been told of.            *)
Written(m, c) == plugged[m][c] /\ ~At(m, c, {"write", "close"})
Announced(m, c) == plugged[m][c] /\ ~At(m, c, {"write", "announce", "erase", "close"})

IsPad(m, c) == pads[m][c] # NoMinor

(* An operation is about a pad that exists, and, but for the closing of a  *)
(* device, about one that is on record or was to be.                       *)
StepsHavePads ==
  /\ \A m \in Media :
       /\ step[m] # "idle" => IsPad(m, slot[m])
       /\ step[m] \in {"write", "announce", "retract", "erase"} => plugged[m][slot[m]]
  /\ \A m \in Media, c \in Controllers : plugged[m][c] => IsPad(m, c)

(* The kernel's devices are those of the pads, one each.                   *)
DevicesArePads ==
  /\ \A m, n \in Media, c, d \in Controllers :
       IsPad(m, c) /\ pads[m][c] = pads[n][d] => m = n /\ c = d
  /\ \A m \in Media, c \in Controllers : IsPad(m, c) => pads[m][c] \in devices
  /\ \A x \in devices : \E m \in Media, c \in Controllers : pads[m][c] = x

(* Each record is that of a pad, at the same place of its life, unless its *)
(* own last change failed.                                                 *)
RecordsArePads ==
  /\ \A m \in Media, c \in Controllers :
       IsPad(m, c) =>
         /\ pads[m][c] \in fileFailed \/ (pads[m][c] \in hwdb <=> Written(m, c))
         /\ pads[m][c] \in eventFailed \/ (pads[m][c] \in seen <=> Announced(m, c))
  /\ hwdb \ fileFailed \subseteq devices /\ seen \ eventFailed \subseteq devices

(* Whoever is not started, not fetched and not being cleared has no pad,   *)
(* and no operation in progress.                                           *)
OthersAreEmpty ==
  \A m \in Media :
    m \notin running /\ m # held /\ m \notin clearing =>
      step[m] = "idle" /\ \A c \in Controllers : ~IsPad(m, c)

IInv == TypeOK /\ StepsHavePads /\ DevicesArePads /\ RecordsArePads /\ OthersAreEmpty

-----------------------------------------------------------------------------
LEMMA NoMinorIsNone == NoMinor \notin Minors
BY PadsAssumption DEF Minors, NoMinor

LEMMA InvInit == Init => IInv
BY PadsAssumption, NoMinorIsNone
   DEF Init, IInv, TypeOK, StepsHavePads, DevicesArePads, RecordsArePads, OthersAreEmpty,
       Steps, IsPad, Written, Announced, At

(* Type correctness, one step per action.                                  *)
LEMMA TypeStep ==
  ASSUME TypeOK, StepsHavePads, [Next]_vars
  PROVE  TypeOK'
<1> USE PadsAssumption DEF TypeOK, Steps, Goto, server, records
<1>1. ASSUME NEW m \in Media, NEW c \in Controllers, Create(m, c)
      PROVE  /\ pads' \in [Media -> [Controllers -> Minors \cup {NoMinor}]]
             /\ plugged' \in [Media -> [Controllers -> BOOLEAN]]
             /\ step' \in [Media -> Steps] /\ slot' \in [Media -> Controllers]
             /\ clearing' \subseteq Media
             /\ devices' \subseteq Minors /\ UNCHANGED records
  <2>1. CASE \E n \in Minors, found \in BOOLEAN :
               /\ pads' = [pads EXCEPT ![m][c] = n]
               /\ plugged' = [plugged EXCEPT ![m][c] = found]
               /\ devices' = devices \cup {n}
               /\ step' = [step EXCEPT ![m] = IF found THEN "write" ELSE "idle"]
    BY <1>1, <2>1 DEF Create
  <2>2. CASE UNCHANGED <<pads, plugged, devices>> /\ step' = [step EXCEPT ![m] = "idle"]
    BY <1>1, <2>2 DEF Create
  <2> QED BY <1>1, <2>1, <2>2 DEF Create, Least
<1>2. ASSUME NEW m \in Media, NEW c \in Controllers, Destroy(m, c),
             UNCHANGED <<running, held, clearing>>
      PROVE  TypeOK'
  BY <1>2 DEF Destroy
<1>3. ASSUME NEW m \in Media, Start(m)
      PROVE  TypeOK'
  BY <1>1, <1>3 DEF Start
<1>4. ASSUME NEW m \in Media, NEW c \in Controllers, Arrival(m, c)
      PROVE  TypeOK'
  BY <1>1, <1>4 DEF Arrival
<1>5. ASSUME NEW m \in Media, NEW c \in Controllers, Departure(m, c)
      PROVE  TypeOK'
  BY <1>2, <1>5 DEF Departure
<1>6. ASSUME NEW m \in Media, Fetch(m) \/ Stop(m)
      PROVE  TypeOK'
  BY <1>6 DEF Fetch, Stop
<1>7. ASSUME NEW m \in Media, Clear(m)
      PROVE  TypeOK'
  BY <1>2, <1>7 DEF Clear, PadsOf
<1>8. ASSUME NEW m \in Media, WriteHwdb(m) \/ AnnouncePad(m)
      PROVE  TypeOK'
  <2>1. Minor(m) \in Minors
    BY <1>8 DEF WriteHwdb, AnnouncePad, StepsHavePads, IsPad, Minor
  <2> QED BY <1>8, <2>1 DEF WriteHwdb, AnnouncePad
<1>9. ASSUME NEW m \in Media, RetractPad(m) \/ RemoveHwdb(m) \/ CloseDevice(m)
      PROVE  TypeOK'
  <2>1. CASE RetractPad(m) \/ RemoveHwdb(m)
    <3>1. Minor(m) \in Minors
      BY <2>1 DEF RetractPad, RemoveHwdb, StepsHavePads, IsPad, Minor
    <3> QED BY <2>1, <3>1 DEF RetractPad, RemoveHwdb
  <2>2. CASE CloseDevice(m)
    BY <2>2 DEF CloseDevice
  <2> QED BY <1>9, <2>1, <2>2
<1>10. ASSUME Release
      PROVE  TypeOK'
  BY <1>10 DEF Release
<1>11. CASE UNCHANGED vars
  BY <1>11 DEF vars
<1> QED BY <1>3, <1>4, <1>5, <1>6, <1>7, <1>8, <1>9, <1>10, <1>11 DEF Next

(* Making a pad keeps the invariant, if it is for a media object that was  *)
(* started or fetched.                                                     *)
LEMMA CreateStep ==
  ASSUME IInv, TypeOK', NEW m \in Media, NEW c \in Controllers,
         step[m] = "idle", ~IsPad(m, c), Create(m, c),
         m \in running' \/ m = held', running \subseteq running', held' = held
  PROVE  IInv'
<1> USE NoMinorIsNone DEF IInv, TypeOK, Steps, records
<1>1. OthersAreEmpty'
  <2>1. \A x \in Media \ {m} : step'[x] = step[x] /\ pads'[x] = pads[x]
    BY DEF Create, Goto
  <2> QED BY <2>1 DEF OthersAreEmpty, IsPad, Create
<1>2. CASE UNCHANGED <<pads, plugged, devices, step>>
  BY <1>1, <1>2 DEF Create, IsPad, At, Written, Announced, StepsHavePads, DevicesArePads, RecordsArePads
<1>3. ASSUME NEW n \in Minors \ devices, NEW found \in BOOLEAN,
             devices' = devices \cup {n},
             pads' = [pads EXCEPT ![m][c] = n],
             plugged' = [plugged EXCEPT ![m][c] = found],
             step' = [step EXCEPT ![m] = IF found THEN "write" ELSE "idle"],
             slot' = [slot EXCEPT ![m] = c], UNCHANGED records
      PROVE  IInv'
  <2>1. /\ pads'[m][c] = n /\ plugged'[m][c] = found
        /\ \A x \in Media, d \in Controllers :
             x # m \/ d # c => pads'[x][d] = pads[x][d] /\ plugged'[x][d] = plugged[x][d]
    BY <1>3
  <2>2. /\ slot'[m] = c /\ step'[m] = IF found THEN "write" ELSE "idle"
        /\ \A x \in Media \ {m} : slot'[x] = slot[x] /\ step'[x] = step[x]
    BY <1>3
  <2>3. StepsHavePads'
    <3>1. ASSUME NEW x \in Media
          PROVE  /\ step'[x] # "idle" => IsPad(x, slot[x])'
                 /\ step'[x] \in {"write", "announce", "retract", "erase"} => plugged'[x][slot'[x]]
      <4>1. CASE x = m
        BY <2>1, <2>2, <4>1 DEF IsPad
      <4>2. CASE x # m
        BY <2>1, <2>2, <4>2 DEF StepsHavePads, IsPad
      <4> QED BY <4>1, <4>2
    <3>2. \A x \in Media, d \in Controllers : plugged'[x][d] => IsPad(x, d)'
      BY <2>1, SMTT(30) DEF StepsHavePads, IsPad
    <3> QED BY <3>1, <3>2 DEF StepsHavePads
  <2>4. DevicesArePads'
    <3>1. ASSUME NEW x \in Media, NEW y \in Media, NEW d \in Controllers, NEW e \in Controllers,
                 IsPad(x, d)', pads'[x][d] = pads'[y][e]
          PROVE  x = y /\ d = e
      BY <2>1, <3>1, <1>3 DEF DevicesArePads, IsPad
    <3>2. ASSUME NEW x \in Media, NEW d \in Controllers, IsPad(x, d)'
          PROVE  pads'[x][d] \in devices'
      BY <2>1, <3>2, <1>3 DEF DevicesArePads, IsPad
    <3>3. ASSUME NEW k \in devices'
          PROVE  \E x \in Media, d \in Controllers : pads'[x][d] = k
      <4>1. CASE k = n
        BY <2>1, <4>1
      <4>2. CASE k \in devices
        <5>1. PICK x \in Media, d \in Controllers : pads[x][d] = k
          BY <4>2 DEF DevicesArePads
        <5> QED BY <5>1, <2>1, <4>2 DEF IsPad
      <4> QED BY <4>1, <4>2, <1>3
    <3> QED BY <3>1, <3>2, <3>3 DEF DevicesArePads
  <2>5. RecordsArePads'
    <3>1. /\ hwdb' \ fileFailed' \subseteq devices' /\ seen' \ eventFailed' \subseteq devices'
          /\ n \notin hwdb' \ fileFailed' /\ n \notin seen' \ eventFailed'
      BY <1>3 DEF RecordsArePads
    <3>2. ASSUME NEW x \in Media, NEW d \in Controllers, IsPad(x, d)'
          PROVE  /\ pads'[x][d] \in fileFailed' \/ (pads'[x][d] \in hwdb' <=> Written(x, d)')
                 /\ pads'[x][d] \in eventFailed' \/ (pads'[x][d] \in seen' <=> Announced(x, d)')
      <4>1. CASE x = m /\ d = c
        BY <2>1, <2>2, <3>1, <4>1 DEF Written, Announced, At
      <4>2. CASE x # m \/ d # c
        BY <1>3, <2>1, <2>2, <3>2, <4>2 DEF Written, Announced, At, IsPad, RecordsArePads
      <4> QED BY <4>1, <4>2
    <3> QED BY <3>1, <3>2 DEF RecordsArePads
  <2> QED BY <1>1, <2>3, <2>4, <2>5
<1> QED
  <2>1. step' = [step EXCEPT ![m] = "idle"] => step' = step
    OBVIOUS
  <2> HIDE DEF IInv, TypeOK
  <2> QED BY <1>2, <1>3, <2>1 DEF Create, Least, Goto

LEMMA InvStep == IInv /\ [Next]_vars => IInv'
<1> SUFFICES ASSUME IInv, [Next]_vars
             PROVE  IInv'
  OBVIOUS
<1>0. TypeOK'
  BY TypeStep DEF IInv
<1> USE <1>0, NoMinorIsNone DEF IInv, TypeOK, Steps, IsPad, Goto, server, records, Minor
<1>1. ASSUME NEW m \in Media, Start(m)
      PROVE  IInv'
  <2>1. step[m] = "idle" /\ ~IsPad(m, 0) /\ Create(m, 0)
    BY <1>1, PadsAssumption DEF Start, Unlocked, PadsOf
  <2>2. m \in running' /\ running \subseteq running' /\ held' = held
    BY <1>1 DEF Start
  <2> HIDE DEF IInv, TypeOK, IsPad
  <2> QED BY <1>0, <2>1, <2>2, PadsAssumption, CreateStep
<1>2. ASSUME NEW m \in Media, Fetch(m)
      PROVE  IInv'
  BY <1>2, PadsAssumption DEF Fetch, StepsHavePads, DevicesArePads, RecordsArePads, OthersAreEmpty, Written, Announced, At
<1>3. ASSUME NEW m \in Media, NEW c \in Controllers, Arrival(m, c)
      PROVE  IInv'
  BY <1>3, CreateStep DEF Arrival, Unlocked, PadsOf
<1>4. ASSUME NEW m \in Media, NEW c \in Controllers, step[m] = "idle", c \in PadsOf(m),
             Destroy(m, c), UNCHANGED <<running, held>>, m \in clearing \/ m = held,
             UNCHANGED clearing
      PROVE  IInv'
  BY <1>4 DEF Destroy, PadsOf, StepsHavePads, DevicesArePads, RecordsArePads, OthersAreEmpty, Written, Announced, At
<1>5. ASSUME NEW m \in Media, NEW c \in Controllers, Departure(m, c)
      PROVE  IInv'
  BY <1>4, <1>5 DEF Departure, Unlocked
<1>6. ASSUME NEW m \in Media, Stop(m)
      PROVE  IInv'
  BY <1>6 DEF Stop, Unlocked, StepsHavePads, DevicesArePads, RecordsArePads, OthersAreEmpty, Written, Announced, At
<1>7. ASSUME NEW m \in Media, Clear(m)
      PROVE  IInv'
  <2>1. CASE \E c \in PadsOf(m) : Destroy(m, c) /\ UNCHANGED clearing
    BY <1>4, <1>7, <2>1 DEF Clear, PadsOf
  <2>2. CASE PadsOf(m) = {} /\ UNCHANGED <<pads, plugged, step, slot, devices, records>>
    BY <1>7, <2>2 DEF Clear, PadsOf, StepsHavePads, DevicesArePads, RecordsArePads, OthersAreEmpty, Written, Announced, At
  <2> QED BY <1>7, <2>1, <2>2 DEF Clear
<1>8. ASSUME NEW m \in Media, WriteHwdb(m)
      PROVE  IInv'
  <2>1. /\ UNCHANGED <<running, held, clearing, pads, plugged, slot, devices>>
        /\ IsPad(m, slot[m]) /\ plugged[m][slot[m]]
    BY <1>8 DEF WriteHwdb, StepsHavePads
  <2>2. StepsHavePads' /\ DevicesArePads' /\ OthersAreEmpty'
    BY <1>8, <2>1 DEF WriteHwdb, StepsHavePads, DevicesArePads, OthersAreEmpty
  <2>3. \A x \in Media, c \in Controllers :
          IsPad(x, c) /\ (x # m \/ c # slot[m]) =>
            /\ pads[x][c] # pads[m][slot[m]]
            /\ Written(x, c)' = Written(x, c) /\ Announced(x, c)' = Announced(x, c)
    BY <1>8, <2>1 DEF WriteHwdb, DevicesArePads, Written, Announced, At
  <2>4. Written(m, slot[m])' /\ Announced(m, slot[m])' = (step'[m] = "idle")
    BY <1>8, <2>1 DEF WriteHwdb, Written, Announced, At
  <2>5. RecordsArePads'
    <3>1. UNCHANGED <<seen, eventFailed>> /\ ~Announced(m, slot[m])
      BY <1>8 DEF WriteHwdb, Announced, At
    <3>2. /\ pads[m][slot[m]] \in fileFailed' \/ pads[m][slot[m]] \in hwdb'
          /\ \A n : n # pads[m][slot[m]] =>
               (n \in hwdb' <=> n \in hwdb) /\ (n \in fileFailed' <=> n \in fileFailed)
      BY <1>8 DEF WriteHwdb
    <3>3. step'[m] # "idle"
      BY <1>8 DEF WriteHwdb
    <3>4. ASSUME NEW x \in Media, NEW c \in Controllers, IsPad(x, c)
          PROVE  /\ pads[x][c] \in fileFailed' \/ (pads[x][c] \in hwdb' <=> Written(x, c)')
                 /\ pads[x][c] \in eventFailed' \/ (pads[x][c] \in seen' <=> Announced(x, c)')
      <4>1. CASE x = m /\ c = slot[m]
        BY <2>1, <2>4, <3>1, <3>2, <3>3, <4>1 DEF RecordsArePads
      <4>2. CASE x # m \/ c # slot[m]
        BY <2>3, <3>1, <3>2, <3>4, <4>2 DEF RecordsArePads
      <4> QED BY <4>1, <4>2
    <3>5. hwdb' \ fileFailed' \subseteq devices' /\ seen' \ eventFailed' \subseteq devices'
      <4>1. pads[m][slot[m]] \in devices
        BY <2>1 DEF DevicesArePads
      <4>2. ASSUME NEW n \in hwdb' \ fileFailed'
            PROVE  n \in devices
        BY <3>2, <4>1 DEF RecordsArePads
      <4> QED BY <2>1, <3>1, <4>2 DEF RecordsArePads
    <3> QED BY <2>1, <3>4, <3>5 DEF RecordsArePads
  <2> QED BY <2>2, <2>5
<1>9. ASSUME NEW m \in Media, AnnouncePad(m)
      PROVE  IInv'
  <2>1. /\ UNCHANGED <<running, held, clearing, pads, plugged, slot, devices>>
        /\ IsPad(m, slot[m]) /\ plugged[m][slot[m]]
    BY <1>9 DEF AnnouncePad, StepsHavePads
  <2>2. StepsHavePads' /\ DevicesArePads' /\ OthersAreEmpty'
    BY <1>9, <2>1 DEF AnnouncePad, StepsHavePads, DevicesArePads, OthersAreEmpty
  <2>3. \A x \in Media, c \in Controllers :
          IsPad(x, c) /\ (x # m \/ c # slot[m]) =>
            /\ pads[x][c] # pads[m][slot[m]]
            /\ Written(x, c)' = Written(x, c) /\ Announced(x, c)' = Announced(x, c)
    BY <1>9, <2>1 DEF AnnouncePad, DevicesArePads, Written, Announced, At
  <2>4. Written(m, slot[m])' /\ Announced(m, slot[m])' = (step'[m] = "idle")
    BY <1>9, <2>1 DEF AnnouncePad, Written, Announced, At
  <2>5. RecordsArePads'
    BY <1>9, <2>1, <2>3, <2>4 DEF AnnouncePad, RecordsArePads, DevicesArePads, Written, Announced, At
  <2> QED BY <2>2, <2>5
<1>10. ASSUME NEW m \in Media, RetractPad(m)
      PROVE  IInv'
  BY <1>10 DEF RetractPad, StepsHavePads, DevicesArePads, RecordsArePads, OthersAreEmpty, Written, Announced, At
<1>11. ASSUME NEW m \in Media, RemoveHwdb(m)
      PROVE  IInv'
  BY <1>11 DEF RemoveHwdb, StepsHavePads, DevicesArePads, RecordsArePads, OthersAreEmpty, Written, Announced, At
<1>12. ASSUME NEW m \in Media, CloseDevice(m)
      PROVE  IInv'
  BY <1>12 DEF CloseDevice, StepsHavePads, DevicesArePads, RecordsArePads, OthersAreEmpty, Written, Announced, At
<1>13. ASSUME Release
      PROVE  IInv'
  BY <1>13 DEF Release, Unlocked, StepsHavePads, DevicesArePads, RecordsArePads, OthersAreEmpty, Written, Announced, At
<1>14. CASE UNCHANGED vars
  BY <1>14 DEF vars, StepsHavePads, DevicesArePads, RecordsArePads, OthersAreEmpty, Written, Announced, At
<1> HIDE DEF IInv
<1> QED BY <1>1, <1>2, <1>3, <1>5, <1>6, <1>7, <1>8, <1>9, <1>10, <1>11, <1>12, <1>13, <1>14 DEF Next

-----------------------------------------------------------------------------
(***************************************************************************)
(* What it says.                                                           *)
(***************************************************************************)

(* As many devices as pads: the numbers of the pads are a bijection.       *)
LEMMA OneDeviceEach ==
  ASSUME IInv
  PROVE  Cardinality(devices) = Cardinality({s \in Slots : Of(pads, s) # NoMinor})
<1> DEFINE S == {s \in Slots : Of(pads, s) # NoMinor}
           f == [s \in S |-> Of(pads, s)]
<1> USE NoMinorIsNone DEF IInv, TypeOK, DevicesArePads, IsPad
<1>1. \A s \in S : s[1] \in Media /\ s[2] \in Controllers /\ s = <<s[1], s[2]>>
  BY DEF Slots
<1>2. \A s \in S : f[s] = pads[s[1]][s[2]] /\ f[s] \in devices
  BY <1>1 DEF Of
<1>3. f \in [S -> devices]
  BY <1>2
<1>4. ASSUME NEW s \in S, NEW t \in S, f[s] = f[t]
      PROVE  s = t
  <2>1. s[1] = t[1] /\ s[2] = t[2]
    BY <1>1, <1>2, <1>4 DEF Of
  <2>2. s = <<s[1], s[2]>> /\ t = <<t[1], t[2]>>
    BY <1>1, SMTT(20)
  <2> QED BY <2>1, <2>2, ZenonT(20)
<1>5. ASSUME NEW x \in devices
      PROVE  \E s \in S : f[s] = x
  <2>1. PICK m \in Media, c \in Controllers : pads[m][c] = x
    OBVIOUS
  <2>2. x # NoMinor
    OBVIOUS
  <2>3. <<m, c>> \in S /\ Of(pads, <<m, c>>) = x
    BY <2>1, <2>2 DEF Slots, Of
  <2> QED BY <2>3
<1>6. ExistsBijection(S, devices)
  <2> HIDE DEF f, S
  <2> QED BY <1>3, <1>4, <1>5 DEF ExistsBijection, Bijection, Injection, Surjection, IsInjective
<1>7. IsFiniteSet(devices)
  <2>1. IsFiniteSet(Minors)
    BY ONLY PadsAssumption, FS_Interval DEF Minors
  <2> QED BY <2>1, FS_Subset
<1> QED BY ONLY <1>6, <1>7, Fun_ExistsBijSymmetric, FS_Bijection

LEMMA InvImpliesPadsInv == IInv => PadsInv
<1> SUFFICES ASSUME IInv PROVE PadsInv
  OBVIOUS
<1> USE NoMinorIsNone
<1>1. RecordsMatchDevices
  <2>1. ASSUME NEW n \in seen \ (eventFailed \cup fileFailed)
        PROVE  n \in hwdb
    <3>1. PICK m \in Media, c \in Controllers : pads[m][c] = n
      BY DEF IInv, RecordsArePads, DevicesArePads
    <3>2. IsPad(m, c) /\ Announced(m, c)
      BY <3>1 DEF IInv, TypeOK, RecordsArePads, IsPad
    <3>3. Written(m, c)
      BY <3>2 DEF Announced, Written, At
    <3> QED BY <3>1, <3>2, <3>3 DEF IInv, RecordsArePads
  <2> QED BY <2>1 DEF IInv, RecordsArePads, RecordsMatchDevices
<1>2. NothingLeaks
  <2> SUFFICES ASSUME \A m \in Media : step[m] = "idle"
               PROVE  /\ devices = {Of(pads, s) : s \in Slots} \ {NoMinor}
                      /\ Cardinality(devices) = Cardinality({s \in Slots : Of(pads, s) # NoMinor})
                      /\ hwdb \ fileFailed = ToRecord \ fileFailed
                      /\ seen \ eventFailed = ToRecord \ eventFailed
    BY DEF NothingLeaks
  <2> DEFINE Numbers == {Of(pads, s) : s \in Slots}
  <2>1. ASSUME NEW x
        PROVE  x \in Numbers <=> \E m \in Media, c \in Controllers : pads[m][c] = x
    <3>1. ASSUME NEW m \in Media, NEW c \in Controllers, pads[m][c] = x
          PROVE  x \in Numbers
      BY <3>1, <<m, c>> \in Slots, Of(pads, <<m, c>>) = x DEF Of, Slots
    <3>2. ASSUME NEW s \in Slots, Of(pads, s) = x
          PROVE  \E m \in Media, c \in Controllers : pads[m][c] = x
      BY <3>2 DEF Of, Slots
    <3> QED BY <3>1, <3>2
  <2>2. ASSUME NEW x
        PROVE  x \in ToRecord <=> \E m \in Media, c \in Controllers : plugged[m][c] /\ pads[m][c] = x
    <3>1. ASSUME NEW m \in Media, NEW c \in Controllers, plugged[m][c], pads[m][c] = x
          PROVE  x \in ToRecord
      BY <3>1, <<m, c>> \in Slots, Of(pads, <<m, c>>) = x, Of(plugged, <<m, c>>) = plugged[m][c]
         DEF Of, Slots, ToRecord
    <3>2. ASSUME NEW s \in Slots, Of(plugged, s), Of(pads, s) = x
          PROVE  \E m \in Media, c \in Controllers : plugged[m][c] /\ pads[m][c] = x
      BY <3>2 DEF Of, Slots
    <3> QED BY <3>1, <3>2 DEF ToRecord
  <2> HIDE DEF Numbers, ToRecord
  <2>3. devices = Numbers \ {NoMinor}
    BY <2>1 DEF IInv, TypeOK, DevicesArePads, IsPad
  <2>4. \A m \in Media, c \in Controllers :
          IsPad(m, c) =>
            /\ pads[m][c] \in fileFailed \/ (pads[m][c] \in hwdb <=> plugged[m][c])
            /\ pads[m][c] \in eventFailed \/ (pads[m][c] \in seen <=> plugged[m][c])
    BY DEF IInv, RecordsArePads, Written, Announced, At
  <2>5. ASSUME NEW x
        PROVE  x \in ToRecord => \E m \in Media, c \in Controllers :
                                   IsPad(m, c) /\ plugged[m][c] /\ pads[m][c] = x
    BY <2>2 DEF IInv, StepsHavePads
  <2>6. ASSUME NEW x, x \in devices, NEW m \in Media, NEW c \in Controllers, pads[m][c] = x
        PROVE  IsPad(m, c) /\ (x \in ToRecord <=> plugged[m][c])
    BY <2>2, <2>6 DEF IInv, TypeOK, DevicesArePads, IsPad
  <2>7. hwdb \ fileFailed = ToRecord \ fileFailed
    <3>1. ASSUME NEW x \in hwdb \ fileFailed
          PROVE  x \in ToRecord
      BY <2>4, <2>6 DEF IInv, DevicesArePads, RecordsArePads
    <3>2. ASSUME NEW x \in ToRecord \ fileFailed
          PROVE  x \in hwdb
      BY <2>4, <2>5
    <3> QED BY <3>1, <3>2
  <2>8. seen \ eventFailed = ToRecord \ eventFailed
    <3>1. ASSUME NEW x \in seen \ eventFailed
          PROVE  x \in ToRecord
      BY <2>4, <2>6 DEF IInv, DevicesArePads, RecordsArePads
    <3>2. ASSUME NEW x \in ToRecord \ eventFailed
          PROVE  x \in seen
      BY <2>4, <2>5
    <3> QED BY <3>1, <3>2
  <2> QED BY <2>3, <2>7, <2>8, OneDeviceEach DEF Numbers
<1>3. GonePadsUnplugged
  BY DEF IInv, OthersAreEmpty, GonePadsUnplugged, Unlocked, PadsOf, IsPad
<1> QED BY <1>1, <1>2, <1>3 DEF IInv, PadsInv

(* However media objects start, stop and plug pads side by side, the faked *)
(* records are those of devices that exist, but for the records whose own  *)
(* last change failed, nothing leaks, and a media object that is gone has  *)
(* no pads.                                                                *)
THEOREM PadsInvHolds == Spec => []PadsInv
<1>1. IInv /\ [Next]_vars => IInv'
  BY InvStep
<1> QED BY InvInit, InvImpliesPadsInv, <1>1, PTL DEF Spec

(* A step retracts or erases the records of its own pad only.              *)
THEOREM OnlyOwnersRetractHolds == Spec => OnlyOwnersRetract
<1> DEFINE Owned(n) ==
             (n \in hwdb /\ n \notin hwdb') \/ (n \in seen /\ n \notin seen')
               => \E m \in Media :
                    step[m] \in {"retract", "erase"} /\ step'[m] # step[m] /\ Minor(m) = n
<1>1. IInv /\ [Next]_vars => [\A n \in Minors : Owned(n)]_vars
  <2> SUFFICES ASSUME IInv, Next, NEW n \in Minors
               PROVE  Owned(n)
    OBVIOUS
  <2>1. CASE \E m \in Media : RetractPad(m) \/ RemoveHwdb(m)
    <3>1. PICK m \in Media : RetractPad(m) \/ RemoveHwdb(m)
      BY <2>1
    <3>2. step[m] \in {"retract", "erase"} /\ step'[m] # step[m]
      BY <3>1 DEF RetractPad, RemoveHwdb, Goto, IInv, TypeOK
    <3>3. (n \in hwdb /\ n \notin hwdb') \/ (n \in seen /\ n \notin seen') => Minor(m) = n
      BY <3>1 DEF RetractPad, RemoveHwdb
    <3> QED BY <3>2, <3>3
  <2>2. CASE ~\E m \in Media : RetractPad(m) \/ RemoveHwdb(m)
    BY <2>2 DEF Next, Start, Fetch, Arrival, Departure, Stop, Clear, WriteHwdb, AnnouncePad,
                CloseDevice, Release, Create, Destroy, server, records
  <2> QED BY <2>1, <2>2
<1>2. IInv /\ [Next]_vars => IInv'
  BY InvStep
<1> QED BY InvInit, <1>1, <1>2, PTL DEF Spec, OnlyOwnersRetract
=============================================================================
