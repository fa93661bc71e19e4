----------------------------- MODULE VirtualPads -----------------------------
(***************************************************************************)
(* The virtual gamepads of all media objects, and the two records of them  *)
(* that the server fakes because no udevd runs in the container: the hwdb  *)
(* file named after a device's minor number, and the add and remove events *)
(* sent to SDL and Steam (uinput.cpp, fake_udev.cpp, media.cpp).  Faking   *)
(* is best-effort: a file that cannot be written or removed and an event   *)
(* that cannot be sent are logged at most, and the plugging goes on.       *)
(*                                                                         *)
(* A media object guards its own pads with gamepad_mtx_, but two media     *)
(* objects exist side by side while one is stopped and the next started,   *)
(* on different threads, and the kernel hands a freed minor number to the  *)
(* next device that is created.                                            *)
(***************************************************************************)
EXTENDS FiniteSets, Integers

CONSTANTS
  Media,        (* media objects                                            *)
  Controllers,  (* controller numbers of a client                           *)
  MaxMinors,    (* minor numbers the kernel can give out                    *)
  MaxFailures,  (* bound on the records that stand failed at a time         *)
  NoMedia       (* the control thread handles no input                      *)

ASSUME PadsAssumption ==
  /\ 0 \in Controllers /\ NoMedia \notin Media
  /\ MaxMinors \in Nat /\ MaxFailures \in Nat

Minors == 1 .. MaxMinors
NoMinor == 0

Slots == Media \X Controllers
Of(f, s) == f[s[1]][s[2]]

(* Where the thread that holds m's gamepad_mtx_ stands.                    *)
Steps == {"idle", "write", "announce", "retract", "erase", "close"}

VARIABLES
  running,      (* media objects that were started and not yet stopped      *)
  held,         (* the one the control thread has a pointer to, or NoMedia  *)
  pads,         (* gamepads_ of each: the minor number of each pad          *)
  plugged,      (* udev_plugged_ of each pad                                *)
  step, slot,   (* the operation in progress on each media object           *)
  clearing,     (* that operation is part of stop() or of the destructor    *)
  devices,      (* minors of the input devices the kernel has               *)
  hwdb,         (* minors that have an hwdb file                            *)
  seen,         (* minors SDL has been told of                              *)
  fileFailed,   (* history: minors whose file was to change and did not     *)
  eventFailed   (* history: minors whose last event could not be sent       *)

records == <<hwdb, seen, fileFailed, eventFailed>>
vars == <<running, held, pads, plugged, step, slot, clearing, devices, records>>
server == <<running, held, clearing>>

TypeOK ==
  /\ running \subseteq Media
  /\ held \in Media \cup {NoMedia}
  /\ pads \in [Media -> [Controllers -> Minors \cup {NoMinor}]]
  /\ plugged \in [Media -> [Controllers -> BOOLEAN]]
  /\ step \in [Media -> Steps]
  /\ slot \in [Media -> Controllers]
  /\ clearing \subseteq Media
  /\ devices \subseteq Minors
  /\ {hwdb, seen, fileFailed, eventFailed} \subseteq SUBSET Minors

Init ==
  /\ running = {}
  /\ held = NoMedia
  /\ pads = [m \in Media |-> [c \in Controllers |-> NoMinor]]
  /\ plugged = [m \in Media |-> [c \in Controllers |-> FALSE]]
  /\ step = [m \in Media |-> "idle"]
  /\ slot = [m \in Media |-> 0]
  /\ clearing = {}
  /\ devices = {}
  /\ hwdb = {} /\ seen = {}
  /\ fileFailed = {} /\ eventFailed = {}

Minor(m) == pads[m][slot[m]]
PadsOf(m) == {c \in Controllers : pads[m][c] # NoMinor}

(* The kernel's choice: the least free minor.                              *)
Least(n) == n \in Minors \ devices /\ \A x \in Minors \ devices : n <= x

Goto(m, l) == step' = [step EXCEPT ![m] = l]

MayFail == Cardinality(fileFailed) + Cardinality(eventFailed) < MaxFailures

-----------------------------------------------------------------------------
(***************************************************************************)
(* VirtualGamepad::create, up to UI_DEV_CREATE and what follows it.        *)
(***************************************************************************)

(* /dev/uinput may be missing, or the event node may not be found: then    *)
(* there is no pad, or one that is never announced.                        *)
Create(m, c) ==
  /\ slot' = [slot EXCEPT ![m] = c]
  /\ \/ /\ Goto(m, "idle")
        /\ UNCHANGED <<pads, plugged, devices>>
     \/ \E n \in Minors, found \in BOOLEAN :
          /\ Least(n)
          /\ devices' = devices \cup {n}
          /\ pads' = [pads EXCEPT ![m][c] = n]
          /\ plugged' = [plugged EXCEPT ![m][c] = found]
          /\ Goto(m, IF found THEN "write" ELSE "idle")
  /\ UNCHANGED <<clearing, records>>

(* fake_udev::plug: hwdb first, then the event.                            *)
WriteHwdb(m) ==
  /\ step[m] = "write"
  /\ \/ hwdb' = hwdb \cup {Minor(m)} /\ fileFailed' = fileFailed \ {Minor(m)}
     \/ MayFail /\ UNCHANGED hwdb /\ fileFailed' = fileFailed \cup {Minor(m)}
  /\ Goto(m, "announce")
  /\ UNCHANGED <<server, pads, plugged, slot, devices, seen, eventFailed>>

AnnouncePad(m) ==
  /\ step[m] = "announce"
  /\ \/ seen' = seen \cup {Minor(m)} /\ eventFailed' = eventFailed \ {Minor(m)}
     \/ MayFail /\ UNCHANGED seen /\ eventFailed' = eventFailed \cup {Minor(m)}
  /\ Goto(m, "idle")
  /\ UNCHANGED <<server, pads, plugged, slot, devices, hwdb, fileFailed>>

(***************************************************************************)
(* VirtualGamepad::~VirtualGamepad.                                        *)
(***************************************************************************)
Destroy(m, c) ==
  /\ slot' = [slot EXCEPT ![m] = c]
  /\ Goto(m, IF plugged[m][c] THEN "retract" ELSE "close")
  /\ UNCHANGED <<pads, plugged, devices, records>>

(* fake_udev::unplug: the event first, then the hwdb file.                 *)
RetractPad(m) ==
  /\ step[m] = "retract"
  /\ \/ seen' = seen \ {Minor(m)} /\ eventFailed' = eventFailed \ {Minor(m)}
     \/ MayFail /\ UNCHANGED seen /\ eventFailed' = eventFailed \cup {Minor(m)}
  /\ Goto(m, "erase")
  /\ UNCHANGED <<server, pads, plugged, slot, devices, hwdb, fileFailed>>

(* Faulty variant: every file is removed.                                  *)
RemoveHwdbAll(m) ==
  /\ step[m] = "erase"
  /\ hwdb' = {} /\ fileFailed' = {}
  /\ Goto(m, "close")
  /\ UNCHANGED <<server, pads, plugged, slot, devices, seen, eventFailed>>

RemoveHwdb(m) ==
  /\ step[m] = "erase"
  /\ \/ hwdb' = hwdb \ {Minor(m)} /\ fileFailed' = fileFailed \ {Minor(m)}
     \/ MayFail /\ UNCHANGED hwdb /\ fileFailed' = fileFailed \cup {Minor(m)}
  /\ Goto(m, "close")
  /\ UNCHANGED <<server, pads, plugged, slot, devices, seen, eventFailed>>

(* UI_DEV_DESTROY and close: the minor is free again.                      *)
CloseDevice(m) ==
  /\ step[m] = "close"
  /\ devices' = devices \ {Minor(m)}
  /\ pads' = [pads EXCEPT ![m][slot[m]] = NoMinor]
  /\ plugged' = [plugged EXCEPT ![m][slot[m]] = FALSE]
  /\ Goto(m, "idle")
  /\ UNCHANGED <<server, slot, records>>

-----------------------------------------------------------------------------
(***************************************************************************)
(* MediaSession: who creates and destroys pads, each under the mutex.      *)
(***************************************************************************)
Unlocked(m) == step[m] = "idle" /\ m \notin clearing

(* start(), for a new object: controller 0 is cold-plugged.                *)
Start(m) ==
  /\ m \notin running /\ held # m
  /\ Unlocked(m)
  /\ PadsOf(m) = {}
  /\ Create(m, 0)
  /\ running' = running \cup {m}
  /\ UNCHANGED held

(* The control thread fetches the current media for one input packet.      *)
Fetch(m) ==
  /\ held = NoMedia
  /\ m \in running
  /\ held' = m
  /\ UNCHANGED <<running, clearing, pads, plugged, step, slot, devices, records>>

(* Faulty variant: a second pad for a controller that already has one.     *)
ArrivalAgain(m, c) ==
  /\ held = m
  /\ Unlocked(m)
  /\ Create(m, c)
  /\ UNCHANGED <<running, held>>

(* gamepad_arrival, and gamepad_update with the controller's bit set; the  *)
(* media may have been stopped since the control thread fetched it.        *)
Arrival(m, c) ==
  /\ held = m
  /\ Unlocked(m)
  /\ c \notin PadsOf(m)
  /\ Create(m, c)
  /\ UNCHANGED <<running, held>>

(* gamepad_update without it.                                              *)
Departure(m, c) ==
  /\ held = m
  /\ Unlocked(m)
  /\ c \in PadsOf(m)
  /\ Destroy(m, c)
  /\ UNCHANGED server

(* Faulty variant: the destructor leaves the pads of a late arrival.       *)
ReleaseOnly ==
  /\ held # NoMedia
  /\ Unlocked(held)
  /\ held' = NoMedia
  /\ UNCHANGED <<running, clearing, pads, plugged, step, slot, devices, records>>

(* The packet is handled; of a stopped media this is the last pointer, and *)
(* ~MediaSession stops it again.                                           *)
Release ==
  /\ held # NoMedia
  /\ Unlocked(held)
  /\ held' = NoMedia
  /\ clearing' = IF held \in running THEN clearing ELSE clearing \cup {held}
  /\ UNCHANGED <<running, pads, plugged, step, slot, devices, records>>

(* stop(): gamepads_.clear(), one pad after the other under the lock.      *)
Stop(m) ==
  /\ m \in running
  /\ Unlocked(m)
  /\ running' = running \ {m}
  /\ clearing' = clearing \cup {m}
  /\ UNCHANGED <<held, pads, plugged, step, slot, devices, records>>

Clear(m) ==
  /\ m \in clearing
  /\ step[m] = "idle"
  /\ \/ /\ \E c \in PadsOf(m) : Destroy(m, c)
        /\ UNCHANGED clearing
     \/ /\ PadsOf(m) = {}
        /\ clearing' = clearing \ {m}
        /\ UNCHANGED <<pads, plugged, step, slot, devices, records>>
  /\ UNCHANGED <<running, held>>

Next ==
  \/ \E m \in Media :
       \/ Start(m)
       \/ Fetch(m)
       \/ \E c \in Controllers : Arrival(m, c) \/ Departure(m, c)
       \/ Stop(m)
       \/ Clear(m)
       \/ WriteHwdb(m) \/ AnnouncePad(m)
       \/ RetractPad(m) \/ RemoveHwdb(m) \/ CloseDevice(m)
  \/ Release

Spec == Init /\ [][Next]_vars
-----------------------------------------------------------------------------
(***************************************************************************)
(* Properties.                                                             *)
(***************************************************************************)

(* Safety.  What is on record is there: an hwdb file and an announcement   *)
(* always stand for a device that exists, although minors are reused the   *)
(* moment a device is destroyed and another media object creates pads on   *)
(* another thread, and SDL is told of no device that has no file.  (A      *)
(* stale file would make a new device inherit tags, a stale announcement   *)
(* leaves a dead joystick in the game.)  Only a record whose own last      *)
(* change failed may be stale or missing.                                  *)
RecordsMatchDevices ==
  /\ hwdb \ fileFailed \subseteq devices
  /\ seen \ eventFailed \subseteq devices
  /\ seen \ (eventFailed \cup fileFailed) \subseteq hwdb

(* The minors of the pads that were to be announced.                       *)
ToRecord == {Of(pads, s) : s \in {x \in Slots : Of(plugged, x)}}

(* Safety.  When no operation is in progress, no device is left that no    *)
(* map of pads refers to, and exactly the pads that were to be announced   *)
(* are on record: nothing leaks over starts, stops and hotplugs.  What a   *)
(* failure leaves behind is confined to its own minor, and mended when the *)
(* next pad with that minor is plugged.                                    *)
NothingLeaks ==
  (\A m \in Media : step[m] = "idle") =>
    /\ devices = {Of(pads, s) : s \in Slots} \ {NoMinor}
    /\ Cardinality(devices) = Cardinality({s \in Slots : Of(pads, s) # NoMinor})
    /\ hwdb \ fileFailed = ToRecord \ fileFailed
    /\ seen \ eventFailed = ToRecord \ eventFailed

(* Safety.  A media object that is gone has taken its pads with it, those  *)
(* included that a packet fetched before stop() created after it.          *)
GonePadsUnplugged ==
  \A m \in Media :
    m \notin running /\ m # held /\ Unlocked(m) => PadsOf(m) = {}

(* Safety.  Types and the three above.                                     *)
PadsInv == TypeOK /\ RecordsMatchDevices /\ NothingLeaks /\ GonePadsUnplugged

(* Action.  The records of one device never change because of another's:   *)
(* what a step retracts or erases is that of the pad being destroyed.      *)
OnlyOwnersRetract ==
  [][\A n \in Minors :
       (n \in hwdb /\ n \notin hwdb') \/ (n \in seen /\ n \notin seen')
         => \E m \in Media :
              step[m] \in {"retract", "erase"} /\ step'[m] # step[m]
              /\ Minor(m) = n]_vars
=============================================================================
