----------------------------- MODULE SessionApps -----------------------------
(***************************************************************************)
(* SessionLifecycle together with the apps the media objects launch: the   *)
(* detached launcher threads and the app processes run between the steps   *)
(* of the three handler threads, and stop() really waits for an app.       *)
(***************************************************************************)
EXTENDS SessionLifecycle, AppProcess

allVars == <<vars, appVars>>

AppsTypeOK == TypeOK /\ AppTypeOK

AppsInit == Init /\ AppInit

(* Faulty variants: the pid is cleared and nobody kills; no wait at all; a *)
(* wait that only the group's end ends.                                    *)
ExchangeAndForget(t) ==
  /\ StopExchange(t, FALSE)
  /\ ExchangePid(ref[t])

WaitedForNothing(t) == StopWaited(t) /\ UNCHANGED appVars

WaitedForever(t) == StopWaited(t) /\ SeeGroupGone(ref[t])

(* The pid is taken once; only a stop that got it waits.                   *)
ExchangeApp(t) ==
  /\ StopExchange(t, appPid[ref[t]])
  /\ ExchangePid(ref[t])

(* SIGTERM's polls run out with the group still there.                     *)
EscalateApp(t) ==
  /\ pc[t] = "kill"
  /\ SendSigkill(ref[t])
  /\ UNCHANGED vars

(* The wait ends when a poll finds no group, or when SIGKILL's polls too   *)
(* have run out ("still lingering"); an app may outlive both.              *)
WaitedForApp(t) ==
  /\ StopWaited(t)
  /\ \/ SeeGroupGone(ref[t])
     \/ (killed[ref[t]] /\ GroupAlive(ref[t]) /\ UNCHANGED appVars)

StartWithApp(m, ok, plugged) ==
  /\ PlayStart(m, ok, plugged)
  /\ StartWatch(m, ok)

(* A place whose launcher or app is still there is not used again, so that *)
(* a leaked app keeps its own variables.                                   *)
Usable == {m \in Mids : IsFree(m) /\ NoResidue(m)}

PlayAgain(s) ==
  /\ Play(s)
  /\ Usable # {}
  /\ UNCHANGED appVars

StopApp(t) ==
  \/ ExchangeApp(t)
  \/ EscalateApp(t)
  \/ WaitedForApp(t)
  \/ (StopMedia(t) /\ UNCHANGED appVars)

PlayApp ==
  \/ (PlayMedia /\ UNCHANGED appVars)
  \/ \E m \in Mids, ok, plugged \in BOOLEAN :
        IsLeast(m, Usable) /\ StartWithApp(m, ok, plugged)

AppsNext ==
  \/ ((Https \/ Control) /\ UNCHANGED appVars)
  \/ \E s \in Sids, ch \in Channels : Announce(s, ch) /\ UNCHANGED appVars
  \/ \E s \in Sids : PlayAgain(s)
  \/ PlayApp
  \/ \E t \in Threads : StopApp(t)
  \/ (Crash /\ AppReset)
  \/ \E m \in Mids :
       (WatcherSteps(m) \/ AppSetsid(m) \/ AppExit(m)) /\ UNCHANGED vars

AppsSpec == AppsInit /\ [][AppsNext]_allVars

(* Threads inside a handler run on, launchers run on and a forked child    *)
(* calls setsid.  Nothing makes an app end, not even SIGKILL.              *)
BusyWithApp(t) ==
  CASE t = "https"   -> (ResumeKey /\ UNCHANGED appVars) \/ StopApp(t)
    [] t = "rtsp"    -> PlayApp \/ StopApp(t)
    [] t = "control" ->
         ((\E b \in BOOLEAN : InputApply(b)) /\ UNCHANGED appVars) \/ StopApp(t)

AppsFairSpec ==
  /\ AppsSpec
  /\ \A t \in Threads : WF_allVars(BusyWithApp(t))
  /\ \A m \in Mids : WF_allVars((WatcherSteps(m) \/ AppSetsid(m)) /\ UNCHANGED vars)
-----------------------------------------------------------------------------
(***************************************************************************)
(* Properties.                                                             *)
(***************************************************************************)

(* An app that stop() could not end: its launcher is still at work or      *)
(* stored the pid too late, stop() looked for the group before the child's *)
(* setsid, or the group outlived SIGTERM's and SIGKILL's waits.            *)
Excused(m) == watcher[m] # "none" \/ appPid[m] \/ missed[m] \/ killed[m]

(* Action.  A media object that is destroyed leaves an app behind only     *)
(* through the launch window, or if the app has outlived SIGKILL: any app  *)
(* whose pid was stored in time is gone by then, or lingers after every    *)
(* signal stop() has.  (A restart of the container leaves no app behind.)  *)
LeakOnlyInLaunchWindow ==
  [][\A m \in Mids : phase[m] = "dying" /\ phase'[m] = "none" /\ AppAlive(m)'
       => Excused(m)]_allVars

(* Action.  When PLAY starts new pipelines, an app that still runs belongs *)
(* to an object another thread still holds, or is one that stop() could    *)
(* not end: PLAY never leaves the previous session's app, its pid known    *)
(* and no SIGKILL tried, beside the new one (main.cpp).                    *)
PlayLaunchesAlone ==
  [][\A m \in Mids : pc["rtsp"] = "start" /\ pc'["rtsp"] = "startAudio" /\ AppAlive(m)
       => \/ phase[m] = "none" /\ Excused(m)
          \/ \E t \in {"https", "control"} : ref[t] = m]_allVars

(* Liveness.  An app whose pid is known is gone, or has been sent SIGKILL, *)
(* some time after its media left media_holder: no step of stop() is lost  *)
(* whichever thread runs it, and an app that ignores SIGTERM is not left.  *)
KnownAppDies ==
  \A m \in Mids :
    (phase[m] = "live" /\ ~BeingStarted(m) /\ holder # m /\ appPid[m] /\ GroupAlive(m))
       ~> (~GroupAlive(m) \/ killed[m])

(***************************************************************************)
(* Statements of the repository that the code does not keep; no run checks *)
(* them, README says what breaks them.                                     *)
(***************************************************************************)

(* Safety.  Two apps never run at once: they would "collide on the X11     *)
(* display" (main.cpp).                                                    *)
NoAppCollision == \A m, n \in Mids : AppAlive(m) /\ AppAlive(n) => m = n

(* Safety.  stop() does "BLOCK until the app's process group is gone"      *)
(* (media.cpp): past its wait, the object has no app.                      *)
NoAppPastTheWait ==
  \A t \in Threads : pc[t] = "closeVideo" => ~AppAlive(ref[t])
=============================================================================
