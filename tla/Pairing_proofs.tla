---------------------------- MODULE Pairing_proofs ----------------------------
(***************************************************************************)
(* Theorems about Pairing, for any devices and any number of attempts,     *)
(* whether the devices share addresses, uniqueids and so cache entries, or *)
(* not.                                                                    *)
(***************************************************************************)
EXTENDS Pairing, TLAPS

(* An attempt has one request at a time that may still be answered: it is  *)
(* under way, with the HTTP thread, or with the thread that waits for the  *)
(* PIN; and prog says which of the four it is.                             *)
WireInv ==
  \A m \in wire :
    /\ m.att \in Attempts /\ m.phase \in 1 .. 4
    /\ prog[m.att] = 2 * m.phase - 1
    /\ m.chal = seen[m.att]
    /\ m.phase = 1 => waiter[m.att] = "none"

HttpInv ==
  http # Idle =>
    /\ Att \in Attempts /\ http.req.phase \in 2 .. 4
    /\ prog[Att] = IF http.adding THEN 8 ELSE 2 * http.req.phase - 1
    /\ \A m \in wire : m.att # Att
    /\ http.adding => SignedByCert

WaiterInv ==
  \A a \in Attempts :
    /\ waiter[a] = "none" => promise[a] = None /\ a \notin pending
    /\ waiter[a] \in {"waiting", "expired", "cached"} => prog[a] = 1
    /\ waiter[a] # "none" => prog[a] # 0

(* A handshake has the PIN that was entered on its page, and a hash with a *)
(* challenge in it comes from the attempt whose salt and PIN it has.       *)
Genuine(e, pins) ==
  /\ e.pin # None => <<e.att, e.pin>> \in pins
  /\ e.hash.chal # None => e.att = e.hash.att /\ e.pin = e.hash.att

PinInv ==
  /\ \A a \in Attempts : promise[a] # None => <<a, promise[a]>> \in entered
  /\ \A k \in CacheKeys : Genuine(cache[k], entered)
  /\ Genuine(http.copy, entered)
  /\ http.adding => <<Att, Att>> \in entered

IInv == /\ TypeOK /\ WireInv /\ HttpInv /\ WaiterInv /\ PagesAreLive /\ PinInv
        /\ PairedByItsPin

-----------------------------------------------------------------------------
(***************************************************************************)
(* Type correctness.                                                       *)
(***************************************************************************)
LEMMA Phases == {0, 1, 2, 3} \subseteq LastPhases
BY DEF LastPhases

LEMMA NoCacheType == NoHash \in Hashes /\ NoCache \in PairCaches /\ Idle.req \in Requests
BY Phases DEF NoCache, PairCaches, NoHash, Hashes, MaybeAttempts, Idle, Requests

LEMMA TypeInit == Init => TypeOK
BY NoCacheType, PairingAssumption DEF Init, TypeOK, Idle, MaybeAttempts

LEMMA TypeStep ==
  ASSUME TypeOK, WireInv, HttpInv, [Next]_vars
  PROVE  TypeOK'
<1> USE NoCacheType DEF TypeOK, threads, clients, Answer, Refuse, Failed, Forget
<1>1. ASSUME NEW a \in Attempts, Begin(a) \/ \E k \in 1 .. 3 : Continue(a, k)
      PROVE  TypeOK'
  <2>1. \A k \in 1 .. 4 : Request(a, k) \in Requests
    BY DEF Request, Requests, MaybeAttempts
  <2>2. CASE Begin(a)
    BY <2>1, <2>2 DEF Begin
  <2>3. ASSUME NEW k \in 1 .. 3, Continue(a, k)
        PROVE  TypeOK'
    BY <2>1, <2>3 DEF Continue
  <2> QED BY <1>1, <2>2, <2>3
<1>2. ASSUME NEW a \in Attempts, NEW p \in Attempts, EnterPin(a, p)
      PROVE  TypeOK'
  BY <1>2 DEF EnterPin, MaybeAttempts
<1>3. ASSUME NEW m \in wire, Phase1(m)
      PROVE  TypeOK'
  <2>1. m.att \in Attempts
    BY DEF WireInv
  <2>2. Supersede(m.att) \subseteq Attempts
    BY <2>1 DEF Supersede
  <2>3. cache' \in [CacheKeys -> PairCaches] /\ prog' \in [Attempts -> 0 .. 9]
    BY <1>3 DEF Phase1
  <2> QED BY <1>3, <2>2, <2>3 DEF Phase1
<1>4. ASSUME NEW m \in wire, Lookup(m)
      PROVE  TypeOK'
  <2>1. m.att \in Attempts /\ m \in Requests
    BY DEF WireInv
  <2>2. cache[CacheKey(m.att)] \in PairCaches
    BY <2>1 DEF CacheKey
  <2>3. [req |-> m, copy |-> cache[CacheKey(m.att)], adding |-> FALSE]
          \in [req : Requests, copy : PairCaches, adding : BOOLEAN]
    BY <2>1, <2>2
  <2>4. http' \in [req : Requests, copy : PairCaches, adding : BOOLEAN]
    <3>1. CASE UNCHANGED http
      BY <3>1
    <3>2. CASE http' = [req |-> m, copy |-> cache[CacheKey(m.att)], adding |-> FALSE]
      BY <2>3, <3>2
    <3> QED BY <1>4, <3>1, <3>2 DEF Lookup
  <2>5. wire' \subseteq Requests /\ prog' \in [Attempts -> 0 .. 9]
    BY <1>4 DEF Lookup
  <2> QED BY <1>4, <2>4, <2>5 DEF Lookup
<1>5. Idle \in [req : Requests, copy : PairCaches, adding : BOOLEAN]
  BY DEF Idle
<1>6. Att \in MaybeAttempts /\ http.copy \in PairCaches
  BY DEF Att, Requests
<1>7. CASE Phase2
  <2>1. [http.copy EXCEPT !.phase = 2, !.chal = Att] \in PairCaches
    BY <1>6, Phases DEF PairCaches
  <2>2. cache' \in [CacheKeys -> PairCaches]
    BY <1>7, <2>1 DEF Phase2, Store, OutOfOrder
  <2> QED BY <1>5, <1>6, <1>7, <2>2 DEF Phase2, OutOfOrder, MaybeAttempts
<1>8. CASE Phase3
  <2>1. ClientHash \in Hashes
    BY <1>6 DEF Hashes, ClientHash, Requests, MaybeAttempts
  <2>2. [http.copy EXCEPT !.phase = 3, !.hash = ClientHash] \in PairCaches
    BY <1>6, <2>1, Phases DEF PairCaches
  <2>3. cache' \in [CacheKeys -> PairCaches]
    BY <1>8, <2>2 DEF Phase3, Store, OutOfOrder
  <2> QED BY <1>5, <1>8, <2>3 DEF Phase3, OutOfOrder
<1>9. CASE Phase4
  <2>1. [http EXCEPT !.adding = TRUE] \in [req : Requests, copy : PairCaches, adding : BOOLEAN]
    OBVIOUS
  <2>2. http' \in [req : Requests, copy : PairCaches, adding : BOOLEAN]
    BY <1>5, <1>9, <2>1 DEF Phase4
  <2>3. cache' \in [CacheKeys -> PairCaches] /\ prog' \in [Attempts -> 0 .. 9] /\ seen' = seen
    BY <1>9 DEF Phase4, OutOfOrder
  <2> QED BY <1>9, <2>2, <2>3 DEF Phase4
<1>10. CASE AddClient \/ NoPhase
  <2>1. Att \in Attempts
    BY <1>10 DEF AddClient, NoPhase, HttpInv, Idle, Handling
  <2>2. paired' \subseteq Devices
    BY <1>10, <2>1 DEF AddClient, NoPhase, HttpInv, Idle, SignedByCert
  <2> QED BY <1>5, <1>10, <2>1, <2>2 DEF AddClient, NoPhase
<1>11. ASSUME NEW a \in Attempts, Waiter(a)
       PROVE  TypeOK'
  <2>1. [att |-> a, pin |-> promise[a], phase |-> 1, chal |-> None, hash |-> NoHash]
          \in PairCaches
    BY Phases DEF PairCaches, MaybeAttempts
  <2> QED BY <1>11, <2>1 DEF Waiter, Expire, TimedOut, StoreHandshake, SendServerCert
<1>12. ASSUME NEW d \in Devices, Unpair(d)
       PROVE  TypeOK'
  BY <1>12 DEF Unpair
<1>13. CASE UNCHANGED vars
  BY <1>13 DEF vars
<1> QED BY <1>1, <1>2, <1>3, <1>4, <1>7, <1>8, <1>9, <1>10, <1>11, <1>12, <1>13
        DEF Next, Handle

-----------------------------------------------------------------------------
(***************************************************************************)
(* One request at a time: each action moves its attempt's request on.      *)
(***************************************************************************)
FlowInv == WireInv /\ HttpInv /\ WaiterInv

LEMMA FlowStep ==
  ASSUME TypeOK, FlowInv, [Next]_vars
  PROVE  FlowInv'
<1> TypeOK'
  BY TypeStep DEF FlowInv
<1> USE DEF TypeOK, FlowInv, WireInv, HttpInv, WaiterInv, threads, clients, Answer, Refuse, Failed, Att,
            SignedByCert
<1>1. ASSUME NEW a \in Attempts, Begin(a)
      PROVE  FlowInv'
  <2>1. waiter[a] = "none" /\ \A m \in wire : m.att # a
    BY <1>1 DEF Begin
  <2>2. WireInv'
    BY <1>1, <2>1 DEF Begin, Request
  <2>3. HttpInv'
    BY <1>1 DEF Begin, Request
  <2>4. WaiterInv'
    BY <1>1, <2>1 DEF Begin
  <2> QED BY <2>2, <2>3, <2>4
<1>2. ASSUME NEW a \in Attempts, NEW k \in 1 .. 3, Continue(a, k)
      PROVE  FlowInv'
  <2>1. \A m \in wire : m.att # a
    BY <1>2 DEF Continue, Requests
  <2>2. Request(a, k + 1).att = a /\ Request(a, k + 1).chal = seen[a]
        /\ Request(a, k + 1).phase = k + 1
    BY DEF Request
  <2>3. WireInv'
    BY <1>2, <2>1, <2>2 DEF Continue
  <2>4. HttpInv'
    BY <1>2, <2>2 DEF Continue
  <2>5. WaiterInv'
    BY <1>2 DEF Continue
  <2> QED BY <2>3, <2>4, <2>5
<1>3. ASSUME NEW a \in Attempts, NEW p \in Attempts, EnterPin(a, p)
      PROVE  FlowInv'
  BY <1>3 DEF EnterPin
<1>4. ASSUME NEW m \in wire, Phase1(m)
      PROVE  FlowInv'
  BY <1>4 DEF Phase1, Supersede, Requests
<1>5. ASSUME NEW m \in wire, Lookup(m)
      PROVE  FlowInv'
  BY <1>5 DEF Lookup, Requests, Idle
<1>6. CASE Phase2 \/ Phase3 \/ AddClient \/ NoPhase
  BY <1>6 DEF Phase2, Phase3, AddClient, NoPhase, OutOfOrder, Handling, Idle
<1>7. CASE Phase4
  <2>1. Att \in Attempts /\ wire' = wire /\ waiter' = waiter /\ seen' = seen
    BY <1>7 DEF Phase4, Phase4Matches, Handling, Idle, OutOfOrder
  <2>2. WireInv' /\ WaiterInv'
    BY <1>7, <2>1 DEF Phase4, Phase4Matches, Handling, Idle, OutOfOrder
  <2>3. HttpInv'
    BY <1>7, <2>1 DEF Phase4, Phase4Matches, Handling, Idle, OutOfOrder, ClientPair
  <2> QED BY <2>2, <2>3
<1>8. ASSUME NEW a \in Attempts, Waiter(a)
      PROVE  FlowInv'
  BY <1>8 DEF Waiter, Expire, TimedOut, StoreHandshake, SendServerCert
<1>9. ASSUME NEW d \in Devices, Unpair(d)
      PROVE  FlowInv'
  BY <1>9 DEF Unpair
<1>10. CASE UNCHANGED vars
  BY <1>10 DEF vars
<1> QED BY <1>1, <1>2, <1>3, <1>4, <1>5, <1>6, <1>7, <1>8, <1>9, <1>10 DEF Next, Handle

-----------------------------------------------------------------------------
(***************************************************************************)
(* Pages and PINs.                                                         *)
(***************************************************************************)
LEMMA PagesStep ==
  ASSUME TypeOK, FlowInv, PagesAreLive, [Next]_vars
  PROVE  PagesAreLive'
<1> USE DEF TypeOK, PagesAreLive, threads, clients, IpOf
<1>1. ASSUME NEW m \in wire, Phase1(m)
      PROVE  PagesAreLive'
  <2>1. m.att \in Attempts /\ promise[m.att] = None
    BY <1>1 DEF FlowInv, WireInv, WaiterInv, Phase1
  <2> QED BY <1>1, <2>1 DEF Phase1, Supersede
<1>2. ASSUME NEW a \in Attempts, NEW p \in Attempts, EnterPin(a, p)
      PROVE  PagesAreLive'
  BY <1>2 DEF EnterPin
<1>3. ASSUME NEW a \in Attempts, Waiter(a)
      PROVE  PagesAreLive'
  BY <1>3 DEF Waiter, Expire, TimedOut, StoreHandshake, SendServerCert
<1>4. CASE UNCHANGED <<pending, promise, waiter, dev, home>>
  BY <1>4
<1> QED BY <1>1, <1>2, <1>3, <1>4
        DEF Next, Handle, Begin, Continue, Lookup, Phase2, Phase3, Phase4, AddClient, NoPhase,
            Unpair, vars

LEMMA PinStep ==
  ASSUME TypeOK, FlowInv, PinInv, [Next]_vars
  PROVE  PinInv'
<1> USE DEF TypeOK, threads, clients
<1>1. Genuine(NoCache, entered)
  BY DEF Genuine, NoCache, NoHash
<1>2. ASSUME NEW k \in CacheKeys
      PROVE  [cache EXCEPT ![k] = NoCache] \in [CacheKeys -> PairCaches]
             /\ \A x \in CacheKeys : Genuine([cache EXCEPT ![k] = NoCache][x], entered)
  BY <1>1, NoCacheType DEF PinInv
<1>3. http # Idle => CacheKey(Att) \in CacheKeys /\ Att \in Attempts
  BY DEF FlowInv, HttpInv, CacheKey
<1>4. entered \subseteq entered'
  BY DEF Next, Handle, Waiter, Begin, Continue, EnterPin, Phase1, Lookup, Phase2, Phase3, Phase4,
         AddClient, NoPhase, Expire, TimedOut, StoreHandshake, SendServerCert, Unpair, vars
<1>5. \A k \in CacheKeys : Genuine(cache'[k], entered)
  <2>1. ASSUME NEW m \in wire, Phase1(m)
        PROVE  \A k \in CacheKeys : Genuine(cache'[k], entered)
    <3>1. CacheKey(m.att) \in CacheKeys
      BY DEF FlowInv, WireInv, CacheKey
    <3> QED BY <1>2, <2>1, <3>1 DEF Phase1, Forget, PinInv
  <2>2. CASE Phase2
    <3>1. Genuine([http.copy EXCEPT !.phase = 2, !.chal = Att], entered)
      BY DEF PinInv, Genuine, PairCaches
    <3> QED BY <1>2, <1>3, <2>2, <3>1 DEF Phase2, Store, OutOfOrder, Forget, PinInv, Handling, Idle
  <2>3. CASE Phase3
    <3>1. Genuine([http.copy EXCEPT !.phase = 3, !.hash = ClientHash], entered)
      BY DEF PinInv, Genuine, PairCaches, ClientHash, KeyIsRight
    <3> QED BY <1>2, <1>3, <2>3, <3>1 DEF Phase3, Store, OutOfOrder, Forget, PinInv, Handling, Idle
  <2>4. CASE Phase4 \/ AddClient
    BY <1>2, <1>3, <2>4
    DEF Phase4, Phase4Matches, AddClient, OutOfOrder, Forget, PinInv, Handling, Idle
  <2>5. ASSUME NEW a \in Attempts, Waiter(a)
        PROVE  \A k \in CacheKeys : Genuine(cache'[k], entered)
    <3>1. promise[a] # None => 
            Genuine([att |-> a, pin |-> promise[a], phase |-> 1, chal |-> None, hash |-> NoHash],
                    entered)
      BY DEF PinInv, Genuine, NoHash
    <3> QED BY <2>5, <3>1 DEF Waiter, Expire, TimedOut, StoreHandshake, SendServerCert, PinInv
  <2>6. CASE UNCHANGED cache
    BY <2>6 DEF PinInv
  <2> QED BY <2>1, <2>2, <2>3, <2>4, <2>5, <2>6
          DEF Next, Handle, Begin, Continue, EnterPin, Lookup, NoPhase, Unpair, vars
<1>6. Genuine(http'.copy, entered)
  <2>1. ASSUME NEW m \in wire, Lookup(m)
        PROVE  Genuine(http'.copy, entered)
    <3>1. Genuine(cache[CacheKey(m.att)], entered)
      BY DEF FlowInv, WireInv, PinInv, CacheKey
    <3> QED BY <2>1, <3>1 DEF Lookup, PinInv
  <2>2. CASE http' = Idle
    BY <1>1, <2>2 DEF Idle
  <2>3. CASE UNCHANGED http \/ http' = [http EXCEPT !.adding = TRUE]
    BY <2>3 DEF PinInv
  <2> QED BY <2>1, <2>2, <2>3
          DEF Next, Handle, Waiter, Begin, Continue, EnterPin, Phase1, Phase2, Phase3, Phase4,
              AddClient, NoPhase, Expire, TimedOut, StoreHandshake, SendServerCert, Unpair, vars
<1>7. http'.adding => <<http'.req.att, http'.req.att>> \in entered
  <2>1. CASE Phase4
    <3>1. Att \in Attempts /\ Att # None
      BY <1>3, <2>1 DEF Phase4, Phase4Matches, Handling, Idle, Attempts, None
    <3> QED BY <2>1, <3>1
            DEF Phase4, Phase4Matches, ClientPair, PinInv, Genuine, Idle, Att
  <2>2. CASE http' = Idle \/ UNCHANGED http
    BY <2>2 DEF Idle, PinInv, Att
  <2>3. ASSUME NEW m \in wire, Lookup(m)
        PROVE  http'.adding => <<http'.req.att, http'.req.att>> \in entered
    BY <2>3 DEF Lookup, PinInv, Att
  <2> QED BY <2>1, <2>2, <2>3
          DEF Next, Handle, Waiter, Begin, Continue, EnterPin, Phase1, Phase2, Phase3,
              AddClient, NoPhase, Expire, TimedOut, StoreHandshake, SendServerCert, Unpair, vars
<1>8. \A a \in Attempts : promise'[a] # None => <<a, promise'[a]>> \in entered'
  <2>1. ASSUME NEW a \in Attempts, NEW p \in Attempts, EnterPin(a, p)
        PROVE  \A b \in Attempts : promise'[b] # None => <<b, promise'[b]>> \in entered'
    BY <2>1 DEF EnterPin, PinInv
  <2>2. CASE UNCHANGED promise
    BY <1>4, <2>2 DEF PinInv
  <2> QED BY <2>1, <2>2
          DEF Next, Handle, Waiter, Begin, Continue, Phase1, Lookup, Phase2, Phase3, Phase4,
              AddClient, NoPhase, Expire, TimedOut, StoreHandshake, SendServerCert, Unpair, vars
<1> QED BY <1>4, <1>5, <1>6, <1>7, <1>8 DEF PinInv, Genuine, Att

(* An attempt that has been told it is paired stays so: nothing of its own *)
(* is left that could refuse it.                                           *)
LEMMA PairedStays ==
  ASSUME TypeOK, FlowInv, [Next]_vars, NEW a \in Attempts, prog[a] = 8
  PROVE  prog'[a] = 8
<1> USE DEF TypeOK, FlowInv, WireInv, HttpInv, WaiterInv, threads, clients, Answer, Refuse, Att
<1>1. ASSUME NEW b \in Attempts, Begin(b) \/ (\E k \in 1 .. 3 : Continue(b, k)) \/ Waiter(b)
      PROVE  prog'[a] = 8
  BY <1>1 DEF Begin, Continue, Waiter, Expire, TimedOut, StoreHandshake, SendServerCert
<1>2. ASSUME NEW m \in wire, Phase1(m) \/ Lookup(m)
      PROVE  prog'[a] = 8
  BY <1>2 DEF Phase1, Lookup, Requests
<1>3. CASE Phase2 \/ Phase3 \/ Phase4 \/ AddClient \/ NoPhase
  BY <1>3 DEF Phase2, Phase3, Phase4, Phase4Matches, AddClient, NoPhase, OutOfOrder, Handling, Idle
<1>4. CASE UNCHANGED prog
  BY <1>4
<1> QED BY <1>1, <1>2, <1>3, <1>4 DEF Next, Handle, EnterPin, Unpair, vars

LEMMA PairedStep ==
  ASSUME TypeOK, FlowInv, PinInv, PairedByItsPin, [Next]_vars
  PROVE  PairedByItsPin'
<1>1. dev' = dev /\ entered \subseteq entered'
  BY DEF Next, Handle, Waiter, Begin, Continue, EnterPin, Phase1, Lookup, Phase2, Phase3, Phase4,
         AddClient, NoPhase, Expire, TimedOut, StoreHandshake, SendServerCert, Unpair, clients, vars
<1>2. ASSUME NEW a \in Attempts, <<a, a>> \in entered, prog[a] = 8
      PROVE  a \in Begun' /\ dev'[a] = dev[a] /\ <<a, a>> \in entered' /\ prog'[a] = 8
  <2>1. prog'[a] = 8
    BY <1>2, PairedStays
  <2> QED BY <1>1, <1>2, <2>1 DEF Begun
<1>3. \A d \in paired : \E a \in Begun' : dev'[a] = d /\ <<a, a>> \in entered' /\ prog'[a] = 8
  <2>1. SUFFICES ASSUME NEW d \in paired
                 PROVE  \E a \in Begun' :
                          dev'[a] = d /\ <<a, a>> \in entered' /\ prog'[a] = 8
    OBVIOUS
  <2>2. PICK a \in Begun : dev[a] = d /\ <<a, a>> \in entered /\ prog[a] = 8
    BY DEF PairedByItsPin
  <2>3. a \in Attempts
    BY DEF Begun
  <2> QED BY <1>2, <2>2, <2>3
<1>4. CASE paired' \subseteq paired
  BY <1>3, <1>4 DEF PairedByItsPin
<1>5. CASE AddClient
  <2>1. Att \in Attempts /\ prog[Att] = 8 /\ <<Att, Att>> \in entered
    BY <1>5 DEF AddClient, PinInv, FlowInv, HttpInv, Idle
  <2>2. paired' = paired \cup {dev[Att]}
    BY <1>5 DEF AddClient, FlowInv, HttpInv, Idle, SignedByCert
  <2> QED BY <1>2, <1>3, <2>1, <2>2 DEF PairedByItsPin
<1> QED BY <1>4, <1>5
        DEF Next, Handle, Waiter, Begin, Continue, EnterPin, Phase1, Lookup, Phase2, Phase3, Phase4,
            NoPhase, Expire, TimedOut, StoreHandshake, SendServerCert, Unpair, vars

-----------------------------------------------------------------------------
LEMMA InvInit == Init => IInv
<1> SUFFICES ASSUME Init PROVE IInv
  OBVIOUS
<1>1. TypeOK
  BY TypeInit
<1>2. WireInv /\ HttpInv /\ WaiterInv /\ PagesAreLive /\ PairedByItsPin
  BY DEF Init, WireInv, HttpInv, WaiterInv, PagesAreLive, PairedByItsPin
<1>3. PinInv
  BY DEF Init, PinInv, Genuine, Idle, NoCache, NoHash
<1> QED BY <1>1, <1>2, <1>3 DEF IInv

LEMMA InvStep == IInv /\ [Next]_vars => IInv'
BY TypeStep, FlowStep, PagesStep, PinStep, PairedStep DEF IInv, FlowInv

(* A page that takes a PIN has a thread waiting behind it, and an address  *)
(* has at most one, however handshakes are begun, abandoned and expire.    *)
THEOREM PagesInvHolds == Spec => []PagesInv
<1>1. IInv => PagesInv
  BY DEF IInv, PagesInv
<1> QED BY InvInit, InvStep, <1>1, PTL DEF Spec

(* A client is paired only by its own PIN, entered on its own page, in an  *)
(* attempt that was told so.                                               *)
THEOREM PairedByItsPinHolds == Spec => []PairedByItsPin
<1>1. IInv => PairedByItsPin
  BY DEF IInv
<1> QED BY InvInit, InvStep, <1>1, PTL DEF Spec
=============================================================================
