----------------------------- MODULE PointerSync -----------------------------
(***************************************************************************)
(* input::PointerSync (pointer_sync.cpp): a thread that polls the cursor   *)
(* of gamescope's Xwayland and repeats its motion on the pointer of the    *)
(* parent compositor, where the visible cursor is drawn, unless the client *)
(* itself is using the mouse.                                              *)
(*                                                                         *)
(* One Xwayland.  Positions lie on a line; 0 is the origin, which Xwayland *)
(* also reports while its surface has no pointer focus.  Time passes in    *)
(* ticks, the client is quiet for more than QuietTicks.  A motion of the   *)
(* parent's pointer reaches gamescope before the next poll (16 ms later)   *)
(* reads the cursor: pointer_sync.cpp counts on it ("the next poll reads   *)
(* back the injected position").                                           *)
(***************************************************************************)
EXTENDS Integers

CONSTANTS
  MaxPos,       (* positions are 0 .. MaxPos                                *)
  QuietTicks    (* 250 ms                                                   *)

ASSUME PointerAssumption == MaxPos \in Nat /\ QuietTicks \in Nat

Origin == 0
Positions == 0 .. MaxPos
Nowhere == -1

VARIABLES
  xwayland,     (* gamescope's Xwayland runs                                *)
  cursor,       (* where gamescope has its cursor                           *)
  focused,      (* its surface has the pointer                              *)
  parent,       (* the parent compositor's pointer                          *)
  flight,       (* last motion of it that gamescope has yet to see          *)
  conn,         (* the watcher's connection: Conn, or Closed                *)
  chosen,       (* position the watcher is about to inject                  *)
  moving,       (* motion the control thread has noted and not yet sent     *)
  quietFor,     (* ticks since last_client_ms_, at most QuietTicks + 1      *)
  overrides,    (* history: injections since the client's last motion that  *)
                (* fell before it was quiet, at most 2                      *)
  clientUsed    (* history: a client's motion since conn was made           *)

pointerVars == <<xwayland, cursor, focused, parent, flight, conn, chosen,
                 moving, quietFor, overrides, clientUsed>>

Closed == [open |-> FALSE, broken |-> FALSE, primed |-> FALSE, last |-> Origin,
           injected |-> Nowhere]
Opened == [Closed EXCEPT !.open = TRUE]

PointerTypeOK ==
  /\ xwayland \in BOOLEAN /\ focused \in BOOLEAN /\ clientUsed \in BOOLEAN
  /\ cursor \in Positions /\ parent \in Positions
  /\ {flight, chosen, moving} \subseteq Positions \cup {Nowhere}
  /\ conn \in [open : BOOLEAN, broken : BOOLEAN, primed : BOOLEAN, last : Positions,
               injected : Positions \cup {Nowhere}]
  /\ quietFor \in 0 .. QuietTicks + 1
  /\ overrides \in 0 .. 2

PointerInit ==
  /\ xwayland = FALSE /\ cursor = Origin /\ focused = TRUE
  /\ parent = Origin /\ flight = Nowhere
  /\ conn = Closed /\ chosen = Nowhere /\ moving = Nowhere
  /\ quietFor = QuietTicks + 1
  /\ overrides = 0 /\ clientUsed = FALSE

-----------------------------------------------------------------------------
(***************************************************************************)
(* gamescope and the app.                                                  *)
(***************************************************************************)
XwaylandStarts ==
  /\ ~xwayland /\ ~conn.open
  /\ xwayland' = TRUE
  /\ cursor' \in Positions
  /\ UNCHANGED <<focused, parent, flight, conn, chosen, moving, quietFor,
                 overrides, clientUsed>>

XwaylandDies ==
  /\ xwayland
  /\ xwayland' = FALSE
  /\ conn' = [conn EXCEPT !.broken = conn.open]
  /\ UNCHANGED <<cursor, focused, parent, flight, chosen, moving, quietFor,
                 overrides, clientUsed>>

(* Steam moves gamescope's cursor from inside (XTest, libei).              *)
AppMoves(x) ==
  /\ xwayland
  /\ cursor' = x
  /\ UNCHANGED <<xwayland, focused, parent, flight, conn, chosen, moving,
                 quietFor, overrides, clientUsed>>

AppFocus ==
  /\ xwayland
  /\ focused' = ~focused
  /\ UNCHANGED <<xwayland, cursor, parent, flight, conn, chosen, moving,
                 quietFor, overrides, clientUsed>>

App == XwaylandStarts \/ XwaylandDies \/ AppFocus \/ \E x \in Positions : AppMoves(x)

(* The parent's pointer motion reaches gamescope.                          *)
Deliver ==
  /\ flight # Nowhere
  /\ cursor' = IF xwayland THEN flight ELSE cursor
  /\ flight' = Nowhere
  /\ UNCHANGED <<xwayland, focused, parent, conn, chosen, moving, quietFor,
                 overrides, clientUsed>>

Recently == quietFor <= QuietTicks

(***************************************************************************)
(* The control thread: mouse_move_rel and mouse_move_abs note the client's *)
(* activity, then send the motion.                                         *)
(***************************************************************************)
NoteClientMouse(x) ==
  /\ moving = Nowhere
  /\ moving' = x
  /\ quietFor' = 0
  /\ clientUsed' = TRUE
  /\ overrides' = IF Recently THEN overrides ELSE 0
  /\ UNCHANGED <<xwayland, cursor, focused, parent, flight, conn, chosen>>

SendMotion ==
  /\ moving # Nowhere
  /\ parent' = moving /\ flight' = moving
  /\ moving' = Nowhere
  /\ overrides' = 0
  /\ UNCHANGED <<xwayland, cursor, focused, conn, chosen, quietFor, clientUsed>>

(***************************************************************************)
(* The watcher.                                                            *)
(***************************************************************************)
Discover ==
  /\ xwayland /\ ~conn.open
  /\ conn' = Opened
  /\ clientUsed' = (moving # Nowhere)
  /\ UNCHANGED <<xwayland, cursor, focused, parent, flight, chosen, moving,
                 quietFor, overrides>>

XwaylandGone ==
  /\ conn.broken /\ chosen = Nowhere
  /\ conn' = Closed
  /\ UNCHANGED <<xwayland, cursor, focused, parent, flight, chosen, moving,
                 quietFor, overrides, clientUsed>>

(* Faulty variant: client activity is not looked at.                       *)
ClientAssumedQuiet == TRUE

ClientQuiet == quietFor > QuietTicks

Reported == IF focused THEN cursor ELSE Origin

Near(x, y) == x - y \in {-1, 0, 1}

(* Faulty variant: a motion is measured from one poll to the next.         *)
FarFromLastPoll(x) == conn.injected = Nowhere \/ ~Near(x, conn.last)

(* From the position injected last: it is not known where the parent's     *)
(* pointer is.                                                             *)
Far(x) == conn.injected = Nowhere \/ ~Near(x, conn.injected)

(* A poll: the first records the position only, as one of the origin and   *)
(* one while the client is active do.                                      *)
Poll ==
  /\ conn.open /\ ~conn.broken /\ chosen = Nowhere /\ flight = Nowhere
  /\ ~conn.primed \/ Reported # conn.last
  /\ conn' = [conn EXCEPT !.primed = TRUE, !.last = Reported]
  /\ chosen' = IF conn.primed /\ Reported # Origin /\ ClientQuiet /\ Far(Reported)
                 THEN Reported ELSE Nowhere
  /\ UNCHANGED <<xwayland, cursor, focused, parent, flight, moving, quietFor,
                 overrides, clientUsed>>

(* inject_: past note_client_mouse, straight to the compositor.            *)
Inject ==
  /\ chosen # Nowhere
  /\ parent' = chosen /\ flight' = chosen
  /\ conn' = [conn EXCEPT !.injected = chosen]
  /\ chosen' = Nowhere
  /\ overrides' = IF Recently /\ overrides < 2 THEN overrides + 1 ELSE overrides
  /\ UNCHANGED <<xwayland, cursor, focused, moving, quietFor, clientUsed>>

Watcher == Discover \/ XwaylandGone \/ Poll \/ Inject

PointerTick ==
  /\ quietFor <= QuietTicks
  /\ quietFor' = quietFor + 1
  /\ UNCHANGED <<xwayland, cursor, focused, parent, flight, conn, chosen,
                 moving, overrides, clientUsed>>

-----------------------------------------------------------------------------
(***************************************************************************)
(* Properties, checked by ControlInput.                                    *)
(***************************************************************************)

(* Safety.  A motion of the client is overridden at most once while the    *)
(* client counts as active: by an injection whose check it came after.     *)
(* The watcher checks and injects in two steps, the control thread notes   *)
(* and sends in two steps, with no lock between them.                      *)
ClientMotionKept == overrides <= 1

Followed ==
  conn.injected # Nowhere /\ ~conn.broken /\ focused /\ cursor # Origin

(* Liveness.  Once the app leaves its cursor alone, the parent's pointer   *)
(* comes to rest within a pixel of it, however it was moved before (also   *)
(* in steps of one pixel), as far as the watcher had anything to inject,   *)
(* the surface has focus and the client did not use the mouse.             *)
PointerFollows ==
  <>[][~App]_pointerVars =>
    <>[](Followed /\ ~clientUsed => Near(parent, cursor))

(***************************************************************************)
(* Statement of the repository that the code does not keep; no run checks  *)
(* it, README says what breaks it.                                         *)
(***************************************************************************)

(* Liveness.  "Re-injects it ... so the two stay in step"                  *)
(* (pointer_sync.hpp): also after the client used the mouse.               *)
StayInStep ==
  <>[][~App /\ moving' = moving]_pointerVars =>
    <>[](Followed => Near(parent, cursor))
=============================================================================
