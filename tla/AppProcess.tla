----------------------------- MODULE AppProcess -----------------------------
(***************************************************************************)
(* The app (Steam under gamescope) that a media object launches: the       *)
(* detached thread that waits for the compositor and forks it, the pid it  *)
(* leaves in app_pid_, and the process group itself.                       *)
(*                                                                         *)
(* app_pid_ is shared between the object and the thread, and the thread    *)
(* outlives the object: nothing joins it.                                  *)
(***************************************************************************)
EXTENDS MediaSession

VARIABLES
  appPid,       (* app_pid_ holds a pid                                     *)
  watcher,      (* the detached thread: none, waiting for the compositor,   *)
                (* launching (has its message), forked (pid not yet stored) *)
  app,          (* none, forked (child before setsid), running, gone        *)
  missed,       (* history: stop() signalled the group before it existed    *)
  killed        (* stop() got to SIGKILL: the group outlived SIGTERM's 5 s  *)

appVars == <<appPid, watcher, app, missed, killed>>

AppTypeOK ==
  /\ appPid \in [Mids -> BOOLEAN]
  /\ watcher \in [Mids -> {"none", "waiting", "launching", "forked"}]
  /\ app \in [Mids -> {"none", "forked", "running", "gone"}]
  /\ missed \in [Mids -> BOOLEAN]
  /\ killed \in [Mids -> BOOLEAN]

AppInit ==
  /\ appPid = [m \in Mids |-> FALSE]
  /\ watcher = [m \in Mids |-> "none"]
  /\ app = [m \in Mids |-> "none"]
  /\ missed = [m \in Mids |-> FALSE]
  /\ killed = [m \in Mids |-> FALSE]

AppAlive(m) == app[m] \in {"forked", "running"}

(* kill(-pid, 0) finds a group: not before setsid, not after the last exit.*)
GroupAlive(m) == app[m] = "running"

(* Nothing of an earlier object is left in place m.                        *)
NoResidue(m) == watcher[m] = "none" /\ ~AppAlive(m)

(* watch_wayland_and_launch: only a pipeline that came up is watched.      *)
StartWatch(m, ok) ==
  /\ watcher' = [watcher EXCEPT ![m] = IF ok THEN "waiting" ELSE "none"]
  /\ appPid' = [appPid EXCEPT ![m] = FALSE]
  /\ app' = [app EXCEPT ![m] = "none"]
  /\ missed' = [missed EXCEPT ![m] = FALSE]
  /\ killed' = [killed EXCEPT ![m] = FALSE]

(* The compositor's message; the bus is flushed when the pipeline stops.   *)
WatcherPop(m) ==
  /\ watcher[m] = "waiting"
  /\ video[m]
  /\ watcher' = [watcher EXCEPT ![m] = "launching"]
  /\ UNCHANGED <<appPid, app, missed, killed>>

(* 200 polls without the message.                                          *)
WatcherGiveUp(m) ==
  /\ watcher[m] = "waiting"
  /\ watcher' = [watcher EXCEPT ![m] = "none"]
  /\ UNCHANGED <<appPid, app, missed, killed>>

(* launch_app: no script or a failed fork yields no pid.                   *)
WatcherFork(m, ok) ==
  /\ watcher[m] = "launching"
  /\ watcher' = [watcher EXCEPT ![m] = IF ok THEN "forked" ELSE "none"]
  /\ app' = IF ok THEN [app EXCEPT ![m] = "forked"] ELSE app
  /\ UNCHANGED <<appPid, missed, killed>>

WatcherStore(m) ==
  /\ watcher[m] = "forked"
  /\ watcher' = [watcher EXCEPT ![m] = "none"]
  /\ appPid' = [appPid EXCEPT ![m] = TRUE]
  /\ UNCHANGED <<app, missed, killed>>

AppSetsid(m) ==
  /\ app[m] = "forked"
  /\ app' = [app EXCEPT ![m] = "running"]
  /\ UNCHANGED <<appPid, watcher, missed, killed>>

(* By a signal, by a failed setuid or exec, by a crash, by the user.       *)
AppExit(m) ==
  /\ AppAlive(m)
  /\ app' = [app EXCEPT ![m] = "gone"]
  /\ UNCHANGED <<appPid, watcher, missed, killed>>

(* stop(): app_pid_->exchange(-1).                                         *)
ExchangePid(m) ==
  /\ appPid' = [appPid EXCEPT ![m] = FALSE]
  /\ UNCHANGED <<watcher, app, missed, killed>>

(* stop(): the poll sees no group.  A child that has not called setsid yet *)
(* looks the same as one that is gone (ESRCH), and is missed.              *)
SeeGroupGone(m) ==
  /\ ~GroupAlive(m)
  /\ missed' = [missed EXCEPT ![m] = missed[m] \/ app[m] = "forked"]
  /\ UNCHANGED <<appPid, watcher, app, killed>>

(* stop(): the group is still there when SIGTERM's time is up.             *)
SendSigkill(m) ==
  /\ GroupAlive(m)
  /\ ~killed[m]
  /\ killed' = [killed EXCEPT ![m] = TRUE]
  /\ UNCHANGED <<appPid, watcher, app, missed>>

(* The container restarts: every process in it dies.                       *)
AppReset ==
  /\ appPid' = [m \in Mids |-> FALSE]
  /\ watcher' = [m \in Mids |-> "none"]
  /\ app' = [m \in Mids |-> "none"]
  /\ missed' = [m \in Mids |-> FALSE]
  /\ killed' = [m \in Mids |-> FALSE]

WatcherSteps(m) ==
  \/ WatcherPop(m)
  \/ WatcherGiveUp(m)
  \/ \E ok \in BOOLEAN : WatcherFork(m, ok)
  \/ WatcherStore(m)
=============================================================================
