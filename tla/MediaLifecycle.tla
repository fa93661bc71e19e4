--------------------------- MODULE MediaLifecycle ---------------------------
(***************************************************************************)
(* What the server promises about media objects, whatever its threads do:  *)
(* an object is built by one PLAY, is current at most once, and is freed   *)
(* only after it was retired and gave back every resource it held (the     *)
(* encoder, the sound server's stream, the virtual gamepads).  At most one *)
(* object is current and at most one is being built.                       *)
(***************************************************************************)
CONSTANT Mids

VARIABLES
  stage,        (* absent, building, current or retired                     *)
  busy          (* the objects that hold a resource                         *)

lifecycleVars == <<stage, busy>>

In(st) == {m \in Mids : stage[m] = st}

LifecycleInit ==
  /\ stage = [m \in Mids |-> "absent"]
  /\ busy = {}

(* Starting may grab resources, all, some or none.                         *)
Build(m) ==
  /\ stage[m] = "absent"
  /\ In("building") = {}
  /\ stage' = [stage EXCEPT ![m] = "building"]
  /\ busy' \in {busy, busy \cup {m}}

Publish(m) ==
  /\ stage[m] = "building"
  /\ In("current") = {}
  /\ stage' = [stage EXCEPT ![m] = "current"]
  /\ UNCHANGED busy

Retire(m) ==
  /\ stage[m] = "current"
  /\ stage' = [stage EXCEPT ![m] = "retired"]
  /\ UNCHANGED busy

(* Resources come and go while the object exists: a gamepad is plugged,    *)
(* the audio pipeline is rebuilt, the object is stopped.                   *)
Change(m) ==
  /\ stage[m] # "absent"
  /\ busy' \in {busy \cup {m}, busy \ {m}}
  /\ UNCHANGED stage

Free(m) ==
  /\ stage[m] = "retired"
  /\ m \notin busy
  /\ stage' = [stage EXCEPT ![m] = "absent"]
  /\ UNCHANGED busy

(* The process is gone and starts anew.                                    *)
Restart ==
  /\ stage' = [m \in Mids |-> "absent"]
  /\ busy' = {}

LifecycleNext ==
  \/ \E m \in Mids : Build(m) \/ Publish(m) \/ Retire(m) \/ Change(m) \/ Free(m)
  \/ Restart

LifecycleSpec == LifecycleInit /\ [][LifecycleNext]_lifecycleVars
=============================================================================
