----------------------------- MODULE ControlInput -----------------------------
(***************************************************************************)
(* The input of a client, as the control thread hands it to the media of a *)
(* running stream (handle_input of control.cpp, MediaSession of media.cpp):*)
(* mouse motion to the parent compositor, beside which PointerSync works,  *)
(* and controller packets to a virtual gamepad with its chord.             *)
(*                                                                         *)
(* One media, one client that connects and disconnects, one controller.    *)
(* Mouse and controller share the thread and the clock and no state, so a  *)
(* behaviour has one of them; both together would only add interleavings.  *)
(* Keys, buttons and scrolling are passed on as they come and left out.    *)
(***************************************************************************)
EXTENDS PointerSync, GamepadChord

VARIABLES
  device,       (* what the client uses                                     *)
  connected     (* the client's peer is in clients                          *)

vars == <<device, connected, pointerVars, chordVars>>

TypeOK ==
  /\ device \in {"mouse", "pad"} /\ connected \in BOOLEAN
  /\ PointerTypeOK /\ ChordTypeOK

Init ==
  /\ device \in {"mouse", "pad"}
  /\ connected = FALSE
  /\ PointerInit /\ ChordInit

(* What comes from a peer that is not connected is destroyed.              *)
Connect ==
  /\ ~connected /\ connected' = TRUE
  /\ UNCHANGED <<device, pointerVars, chordVars>>

Disconnect ==
  /\ connected /\ moving = Nowhere
  /\ connected' = FALSE
  /\ UNCHANGED <<device, pointerVars, chordVars>>

(* MOUSE_MOVE_REL or MOUSE_MOVE_ABS.                                       *)
MouseMove ==
  /\ device = "mouse" /\ connected
  /\ SendMotion \/ \E x \in Positions : NoteClientMouse(x)
  /\ UNCHANGED <<device, connected, chordVars>>

(* CONTROLLER_MULTI, of a controller that is in the mask.                  *)
ControllerMulti(back, home) ==
  /\ device = "pad" /\ connected
  /\ Update(back, home)
  /\ UNCHANGED <<device, connected, pointerVars>>

(* CONTROLLER_MULTI with the bit of the controller cleared.                *)
ControllerLeaves ==
  /\ device = "pad" /\ connected
  /\ NewPad
  /\ UNCHANGED <<device, connected, pointerVars>>

WatcherStep ==
  /\ device = "mouse"
  /\ Watcher \/ Deliver
  /\ UNCHANGED <<device, connected, chordVars>>

AppStep ==
  /\ device = "mouse"
  /\ App
  /\ UNCHANGED <<device, connected, chordVars>>

Tick ==
  /\ \/ device = "mouse" /\ PointerTick /\ UNCHANGED chordVars
     \/ device = "pad" /\ ChordTick /\ UNCHANGED pointerVars
  /\ UNCHANGED <<device, connected>>

Next ==
  \/ Connect \/ Disconnect
  \/ MouseMove
  \/ \E back, home \in BOOLEAN : ControllerMulti(back, home)
  \/ ControllerLeaves
  \/ WatcherStep \/ AppStep \/ Tick

Spec == Init /\ [][Next]_vars

(* The watcher polls for ever, gamescope takes in the pointer's motion,    *)
(* time passes, and a connected client goes on sending the state of its    *)
(* controller ("Moonlight streams controller packets continuously while a  *)
(* pad is connected", uinput.cpp).                                         *)
FairSpec ==
  /\ Spec
  /\ WF_vars(WatcherStep)
  /\ WF_vars(Tick)
  /\ SF_vars(\E back, home \in BOOLEAN : ControllerMulti(back, home))
-----------------------------------------------------------------------------
(***************************************************************************)
(* Properties.                                                             *)
(***************************************************************************)

(* Safety.  Types, and ClientMotionKept of PointerSync.                    *)
InputInv == TypeOK /\ ClientMotionKept

(* Action.  When a press of Back ends it has produced exactly one of a     *)
(* Back tap and a Home press, however the packets fell and also when it    *)
(* began while Home was still down from the press before it.  And Home is  *)
(* held long enough to be noticed ("a zero-length tap isn't detected by    *)
(* SDL/Steam", uinput.cpp): BTN_MODE goes up after HomeTicks at least, if  *)
(* the client's own Guide button had no part in it and its pad stays.      *)
ChordOutcomes ==
  [][\A back, home \in BOOLEAN : ControllerMulti(back, home) =>
       /\ backHeld /\ ~backHeld' => taps' + homes' = 1
       /\ modeKey /\ ~modeKey' /\ ~guide => modeAge >= HomeTicks]_vars

(* Liveness.  Home never sticks: while its client is connected again and   *)
(* again, and presses of Back no longer fire it, it goes up, with Back     *)
(* held or released.                                                       *)
HomeGoesUp ==
  []<>connected /\ <>[][homes' <= homes]_homes => []<>~homeDown

(***************************************************************************)
(* Statement of the repository that the code does not keep; no run checks  *)
(* it, README says what breaks it.                                         *)
(***************************************************************************)

(* Action.  "a >=750ms hold emits Home (BTN_MODE) and never emits Back"    *)
(* (uinput.cpp): the release of a Back that went down HoldTicks ago or     *)
(* more is not delivered as a tap.                                         *)
LongHoldNeverTaps ==
  [][backHeld /\ ~backHeld' /\ pressAge >= HoldTicks => taps' = 0]_vars
=============================================================================
