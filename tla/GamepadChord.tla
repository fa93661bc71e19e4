---------------------------- MODULE GamepadChord ----------------------------
(***************************************************************************)
(* The Back-hold chord of input::VirtualGamepad::update: a short press of  *)
(* Back is delivered as a tap when it ends, a long one presses Home        *)
(* (Guide) instead.  There is no timer: the state machine only moves when  *)
(* a controller packet arrives.                                            *)
(*                                                                         *)
(* Times are kept as ages: how long ago the press, or Home, was recorded.  *)
(* Ages stop growing at their threshold, beyond which nothing depends on   *)
(* them.                                                                   *)
(***************************************************************************)
EXTENDS Integers

CONSTANTS
  HoldTicks,    (* kHoldMs                                                  *)
  HomeTicks     (* kHomeHoldMs                                              *)

ASSUME ChordAssumption ==
  HoldTicks \in Nat \ {0} /\ HomeTicks \in Nat \ {0}

VARIABLES
  backHeld, homeFired, homeDown,
  pressAge,     (* now_ms - back_press_ms_, at most HoldTicks               *)
  homeAge,      (* now_ms - home_press_ms_, at most HomeTicks               *)
  modeKey,      (* BTN_MODE as the kernel sees it                           *)
  taps, homes,  (* history: what the current or last press of Back produced *)
  guide,        (* history: the client's own Guide button, last packet      *)
  modeAge       (* history: how long BTN_MODE is down, at most HomeTicks    *)

chordVars == <<backHeld, homeFired, homeDown, pressAge, homeAge, modeKey,
               taps, homes, guide, modeAge>>

ChordTypeOK ==
  /\ {backHeld, homeFired, homeDown, modeKey, guide} \subseteq BOOLEAN
  /\ pressAge \in 0 .. HoldTicks
  /\ {homeAge, modeAge} \subseteq 0 .. HomeTicks
  /\ {taps, homes} \subseteq 0 .. 2

ChordInit ==
  /\ backHeld = FALSE /\ homeFired = FALSE /\ homeDown = FALSE
  /\ pressAge = 0 /\ homeAge = 0
  /\ modeKey = FALSE
  /\ taps = 0 /\ homes = 0
  /\ guide = FALSE
  /\ modeAge = 0

-----------------------------------------------------------------------------
(***************************************************************************)
(* The pieces of update(), for a packet with Back pressed or not.          *)
(***************************************************************************)
Pressed(back) == back /\ ~backHeld
Released(back) == ~back /\ backHeld

(* Faulty variant: the flag of the last press is kept.                     *)
FiredBeforeKept(back) == homeFired

(* home_fired_ as the threshold check finds it.                            *)
FiredBefore(back) == homeFired /\ ~Pressed(back)

(* Crossing the threshold, once per press.                                 *)
Fires(back) ==
  back /\ ~FiredBefore(back) /\ ~Pressed(back) /\ pressAge >= HoldTicks

(* Faulty variant: Home never goes up.                                     *)
HomeDownStuck(back) == homeDown \/ Fires(back)

HomeDown(back) == Fires(back) \/ (homeDown /\ homeAge < HomeTicks)

Taps(back) == Released(back) /\ ~homeFired

(* One more outcome of this press, up to two; a new press starts afresh.   *)
Count(n, happened, back) ==
  LET before == IF Pressed(back) THEN 0 ELSE n
  IN IF happened /\ before < 2 THEN before + 1 ELSE before

(* update(): one packet, with the client's own Guide button up or down.    *)
Update(back, home) ==
  /\ backHeld' = back
  /\ pressAge' = IF back /\ ~Pressed(back) THEN pressAge ELSE 0
  /\ homeFired' = (FiredBefore(back) \/ Fires(back))
  /\ homeDown' = HomeDown(back)
  /\ homeAge' = IF homeDown /\ ~Fires(back) THEN homeAge ELSE 0
  /\ modeKey' = (home \/ HomeDown(back))
  /\ taps' = Count(taps, Taps(back), back)
  /\ homes' = Count(homes, Fires(back), back)
  /\ guide' = home
  /\ modeAge' = IF modeKey THEN modeAge ELSE 0

Older(age, counts, cap) == IF counts /\ age < cap THEN age + 1 ELSE age

ChordTick ==
  /\ pressAge' = Older(pressAge, backHeld, HoldTicks)
  /\ homeAge' = Older(homeAge, homeDown, HomeTicks)
  /\ modeAge' = Older(modeAge, modeKey, HomeTicks)
  /\ UNCHANGED <<backHeld, homeFired, homeDown, modeKey, taps, homes, guide>>

(* The pad is destroyed, and what it held with it.  A pad made in its      *)
(* place knows of no press.                                                *)
NewPad ==
  /\ backHeld' = FALSE /\ homeFired' = FALSE /\ homeDown' = FALSE
  /\ pressAge' = 0 /\ homeAge' = 0
  /\ modeKey' = FALSE
  /\ taps' = 0 /\ homes' = 0
  /\ guide' = FALSE
  /\ modeAge' = 0

=============================================================================
