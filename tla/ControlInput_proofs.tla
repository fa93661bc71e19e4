-------------------------- MODULE ControlInput_proofs --------------------------
(***************************************************************************)
(* Theorems about ControlInput, for any number of positions and any        *)
(* durations.                                                              *)
(***************************************************************************)
EXTENDS ControlInput, TLAPS

(* While the client counts as active, the one injection that its motion    *)
(* came between has been made, or is still to be made, but not both.       *)
OneOverride ==
  /\ overrides <= 1
  /\ overrides = 1 /\ Recently => chosen = Nowhere

(* A press of Back that is under way has produced Home once, or nothing.   *)
(* BTN_MODE is down for the client's Guide button or for Home, and for     *)
(* Home at least as long as Home itself.                                   *)
ChordInv ==
  /\ backHeld => taps = 0 /\ homes = IF homeFired THEN 1 ELSE 0
  /\ modeKey = (guide \/ homeDown)
  /\ homeDown => homeAge <= modeAge

-----------------------------------------------------------------------------
(***************************************************************************)
(* Type correctness.                                                       *)
(***************************************************************************)
LEMMA Zeros ==
  /\ 0 \in Positions /\ QuietTicks + 1 \in 0 .. QuietTicks + 1
  /\ 0 \in 0 .. HoldTicks /\ 0 \in 0 .. HomeTicks /\ 0 \in 0 .. 2
BY PointerAssumption, ChordAssumption DEF Positions

LEMMA ClosedType ==
  Closed \in [open : BOOLEAN, broken : BOOLEAN, primed : BOOLEAN, last : Positions,
              injected : Positions \cup {Nowhere}]
BY PointerAssumption DEF Closed, Positions, Origin

LEMMA TypeInit == Init => TypeOK
<1> SUFFICES ASSUME Init PROVE TypeOK
  OBVIOUS
<1>1. PointerTypeOK
  BY Zeros, ClosedType DEF Init, PointerInit, PointerTypeOK, Origin
<1>2. ChordTypeOK
  BY Zeros DEF Init, ChordInit, ChordTypeOK
<1> QED BY <1>1, <1>2 DEF Init, TypeOK

(* A packet, a tick and a new pad keep the types of the chord.             *)
LEMMA ChordTypes ==
  ASSUME ChordTypeOK
  PROVE  /\ \A back, home \in BOOLEAN : Update(back, home) => ChordTypeOK'
         /\ ChordTick => ChordTypeOK'
         /\ NewPad => ChordTypeOK'
         /\ UNCHANGED chordVars => ChordTypeOK'
<1> USE ChordAssumption DEF ChordTypeOK
<1>1. ASSUME NEW back \in BOOLEAN, NEW home \in BOOLEAN, Update(back, home)
      PROVE  ChordTypeOK'
  <2>1. {backHeld', homeFired', homeDown', modeKey', guide'} \subseteq BOOLEAN
    BY <1>1 DEF Update, HomeDown, FiredBefore, Fires
  <2>2. {pressAge'} \subseteq 0 .. HoldTicks /\ {homeAge', modeAge'} \subseteq 0 .. HomeTicks
    BY <1>1 DEF Update
  <2>3. {taps', homes'} \subseteq 0 .. 2
    BY <1>1 DEF Update, Count
  <2> QED BY <2>1, <2>2, <2>3
<1>2. ChordTick => ChordTypeOK'
  BY DEF ChordTick, Older
<1>3. NewPad => ChordTypeOK'
  BY Zeros DEF NewPad
<1>4. UNCHANGED chordVars => ChordTypeOK'
  BY DEF chordVars
<1> QED BY <1>1, <1>2, <1>3, <1>4

(* The client's motion, the watcher and the app keep those of the pointer. *)
LEMMA PointerTypes ==
  ASSUME PointerTypeOK
  PROVE  /\ SendMotion => PointerTypeOK'
         /\ \A x \in Positions : NoteClientMouse(x) => PointerTypeOK'
         /\ Watcher \/ Deliver \/ App => PointerTypeOK'
         /\ PointerTick => PointerTypeOK'
         /\ UNCHANGED pointerVars => PointerTypeOK'
<1> USE PointerAssumption DEF PointerTypeOK
<1>1. SendMotion => PointerTypeOK'
  BY DEF SendMotion
<1>2. ASSUME NEW x \in Positions, NoteClientMouse(x)
      PROVE  PointerTypeOK'
  BY <1>2 DEF NoteClientMouse
<1>3. Discover \/ XwaylandGone => PointerTypeOK'
  BY ClosedType DEF Discover, XwaylandGone, Opened
<1>4. Poll => PointerTypeOK'
  <2>1. Reported \in Positions
    BY DEF Reported, Origin, Positions
  <2> QED BY <2>1 DEF Poll
<1>5. Inject => PointerTypeOK'
  BY DEF Inject
<1>6. Deliver \/ App => PointerTypeOK'
  BY DEF Deliver, App, XwaylandStarts, XwaylandDies, AppFocus, AppMoves
<1>7. PointerTick => PointerTypeOK'
  BY DEF PointerTick
<1>8. UNCHANGED pointerVars => PointerTypeOK'
  BY DEF pointerVars
<1> QED BY <1>1, <1>2, <1>3, <1>4, <1>5, <1>6, <1>7, <1>8 DEF Watcher

LEMMA TypeStep ==
  ASSUME TypeOK, [Next]_vars
  PROVE  TypeOK'
BY ChordTypes, PointerTypes
DEF TypeOK, Next, Connect, Disconnect, MouseMove, ControllerMulti, ControllerLeaves, WatcherStep,
    AppStep, Tick, vars

-----------------------------------------------------------------------------
(***************************************************************************)
(* The invariants.                                                         *)
(***************************************************************************)
LEMMA OverrideStep ==
  ASSUME TypeOK, OneOverride, [Next]_vars
  PROVE  OneOverride'
<1> USE PointerAssumption DEF TypeOK, PointerTypeOK, OneOverride, Recently, Nowhere
<1>1. SendMotion => OneOverride'
  BY DEF SendMotion
<1>2. ASSUME NEW x \in Positions, NoteClientMouse(x)
      PROVE  OneOverride'
  BY <1>2 DEF NoteClientMouse
<1>3. Poll => OneOverride'
  BY DEF Poll, ClientQuiet
<1>4. Inject => OneOverride'
  BY DEF Inject
<1>5. Discover \/ XwaylandGone \/ Deliver \/ App \/ UNCHANGED pointerVars => OneOverride'
  BY DEF Discover, XwaylandGone, Deliver, App, XwaylandStarts, XwaylandDies, AppFocus, AppMoves,
         pointerVars
<1>6. PointerTick => OneOverride'
  BY DEF PointerTick
<1> QED BY <1>1, <1>2, <1>3, <1>4, <1>5, <1>6
        DEF Next, Connect, Disconnect, MouseMove, ControllerMulti, ControllerLeaves, WatcherStep,
            AppStep, Tick, Watcher, vars

LEMMA ChordStep ==
  ASSUME TypeOK, ChordInv, [Next]_vars
  PROVE  ChordInv'
<1> USE ChordAssumption DEF TypeOK, ChordTypeOK, ChordInv
<1>1. ASSUME NEW back \in BOOLEAN, NEW home \in BOOLEAN, Update(back, home)
      PROVE  ChordInv'
  <2>1. backHeld' => taps' = 0
    BY <1>1 DEF Update, Pressed, Released, Taps, Count
  <2>2. backHeld' => homes' = IF homeFired' THEN 1 ELSE 0
    BY <1>1 DEF Update, Pressed, Released, Fires, FiredBefore, Count
  <2>3. modeKey' = (guide' \/ homeDown')
    BY <1>1 DEF Update
  <2>4. homeDown' => homeAge' <= modeAge'
    BY <1>1 DEF Update, HomeDown
  <2> QED BY <2>1, <2>2, <2>3, <2>4
<1>2. ChordTick => ChordInv'
  BY DEF ChordTick, Older
<1>3. NewPad => ChordInv'
  BY DEF NewPad
<1>4. UNCHANGED chordVars => ChordInv'
  BY DEF chordVars
<1> QED BY <1>1, <1>2, <1>3, <1>4
        DEF Next, Connect, Disconnect, MouseMove, ControllerMulti, ControllerLeaves, WatcherStep,
            AppStep, Tick, vars

-----------------------------------------------------------------------------
(* A motion of an active client is overridden once at most, although the   *)
(* watcher and the control thread check and act without a common lock.     *)
THEOREM InputInvHolds == Spec => []InputInv
<1>1. Init => TypeOK /\ OneOverride
  BY TypeInit DEF Init, PointerInit, OneOverride
<1>2. TypeOK /\ OneOverride /\ [Next]_vars => (TypeOK /\ OneOverride)'
  BY TypeStep, OverrideStep
<1>3. TypeOK /\ OneOverride => InputInv
  BY DEF OneOverride, InputInv, ClientMotionKept
<1> QED BY <1>1, <1>2, <1>3, PTL DEF Spec

(* A press of Back ends in one tap or one Home, and Home is held for long  *)
(* enough, however the packets fall: for any thresholds.                   *)
THEOREM ChordOutcomesHold == Spec => ChordOutcomes
<1>1. Init => TypeOK /\ ChordInv
  BY TypeInit DEF Init, ChordInit, ChordInv
<1>2. TypeOK /\ ChordInv /\ [Next]_vars => (TypeOK /\ ChordInv)'
  BY TypeStep, ChordStep
<1>3. TypeOK /\ ChordInv /\ [Next]_vars =>
        [\A back, home \in BOOLEAN : ControllerMulti(back, home) =>
           /\ backHeld /\ ~backHeld' => taps' + homes' = 1
           /\ modeKey /\ ~modeKey' /\ ~guide => modeAge >= HomeTicks]_vars
  <2>1. SUFFICES ASSUME TypeOK, ChordInv, NEW back \in BOOLEAN, NEW home \in BOOLEAN,
                        ControllerMulti(back, home)
                 PROVE  /\ backHeld /\ ~backHeld' => taps' + homes' = 1
                        /\ modeKey /\ ~modeKey' /\ ~guide => modeAge >= HomeTicks
    OBVIOUS
  <2> USE ChordAssumption DEF TypeOK, ChordTypeOK, ChordInv, ControllerMulti, Update
  <2>2. backHeld /\ ~backHeld' => taps' + homes' = 1
    BY <2>1 DEF Pressed, Released, Taps, Fires, Count
  <2>3. modeKey /\ ~modeKey' /\ ~guide => modeAge >= HomeTicks
    BY <2>1 DEF HomeDown
  <2> QED BY <2>2, <2>3
<1> QED BY <1>1, <1>2, <1>3, PTL DEF Spec, ChordOutcomes
=============================================================================
