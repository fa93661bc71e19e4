-------------------------- MODULE SessionLifecycle --------------------------
(***************************************************************************)
(* The life of streaming sessions in steam-stream-server: three threads    *)
(* (HTTPS, RTSP, ENet control) that share the session registry and the one *)
(* media_holder of main.cpp, and the media objects they pass around.       *)
(*                                                                         *)
(* A thread's handler is cut where it takes or leaves a lock, reads an     *)
(* atomic, or runs long without a lock; pc[t] is where thread t stands,    *)
(* arg[t] the session it works for, ref[t] the shared_ptr to a media       *)
(* object it holds, and ret[t] where it continues once it drops that       *)
(* reference.                                                              *)
(***************************************************************************)
EXTENDS MediaSession

CONSTANT
  Peers         (* ENet peers (the control host accepts four)               *)

Threads == {"https", "rtsp", "control"}

StopPcs == {"exchange", "kill", "closeVideo", "closeAudio"}
PlayPcs == {"playLookup", "playRead", "playCheck", "playTake",
            "resume", "rebuild", "retarget", "start", "startAudio", "publish"}
Pcs == {"idle", "resumeKey", "take", "input", "drop"} \cup StopPcs \cup PlayPcs

VARIABLES
  holder,       (* media_holder                                             *)
  pc, arg, ref, ret,
  rikey,        (* the key in the /resume request being handled             *)
  peers,        (* clients: the session each connected peer is bound to     *)
  rotated       (* history: sessions whose key /resume changed since the    *)
                (* last PLAY for them began                                 *)

threadVars == <<pc, arg, ref, ret, rikey>>
vars == <<registryVars, mediaVars, holder, threadVars, peers, rotated>>

TypeOK ==
  /\ RegistryTypeOK
  /\ MediaTypeOK
  /\ holder \in Mids \cup {NoMedia}
  /\ pc \in [Threads -> Pcs]
  /\ arg \in [Threads -> Sids \cup {NoSession}]
  /\ ref \in [Threads -> Mids \cup {NoMedia}]
  /\ ret \in [Threads -> {"idle", "playTake", "start"}]
  /\ rikey \in Keys \cup {NoKey}
  /\ peers \in [Peers -> Sids \cup {NoSession}]
  /\ rotated \subseteq Sids

Init ==
  /\ RegistryInit
  /\ MediaInit
  /\ holder = NoMedia
  /\ pc = [t \in Threads |-> "idle"]
  /\ arg = [t \in Threads |-> NoSession]
  /\ ref = [t \in Threads |-> NoMedia]
  /\ ret = [t \in Threads |-> "idle"]
  /\ rikey = NoKey
  /\ peers = [p \in Peers |-> NoSession]
  /\ rotated = {}

Goto(t, l) == pc' = [pc EXCEPT ![t] = l]

(* The handler of t returns: its locals are gone.                          *)
Finish(t) ==
  /\ Goto(t, "idle")
  /\ arg' = [arg EXCEPT ![t] = NoSession]

-----------------------------------------------------------------------------
(***************************************************************************)
(* HTTPS: /launch, /resume and /cancel, one request at a time.             *)
(***************************************************************************)

(* A client that already has a session is handed that session unchanged.   *)
Launch(ip, k) ==
  /\ pc["https"] = "idle"
  /\ GetByClientIp(ip) = NoSession
  /\ AddSession(ip, k)
  /\ UNCHANGED <<mediaVars, holder, threadVars, peers, rotated>>

ResumeMove(ip, k) ==
  /\ pc["https"] = "idle"
  /\ ResumeTarget(ip) # NoSession
  /\ MoveClient(ResumeTarget(ip), ip)
  /\ Goto("https", "resumeKey")
  /\ arg' = [arg EXCEPT !["https"] = ResumeTarget(ip)]
  /\ rikey' = k
  /\ UNCHANGED <<mediaVars, holder, ref, ret, peers, rotated>>

ResumeKey ==
  /\ pc["https"] = "resumeKey"
  /\ RotateKey(arg["https"], rikey)
  /\ rotated' = IF rikey \in {NoKey, aesKey[arg["https"]]}
                  THEN rotated
                  ELSE rotated \cup {arg["https"]}
  /\ rikey' = NoKey
  /\ Finish("https")
  /\ UNCHANGED <<mediaVars, holder, ref, ret, peers>>

(* /cancel removes the session, then runs stop_session on the same thread. *)
Cancel(ip) ==
  /\ pc["https"] = "idle"
  /\ GetByClientIp(ip) # NoSession
  /\ RemoveSession(GetByClientIp(ip))
  /\ Goto("https", "take")
  /\ arg' = [arg EXCEPT !["https"] = GetByClientIp(ip)]
  /\ UNCHANGED <<mediaVars, holder, ref, ret, rikey, peers, rotated>>

-----------------------------------------------------------------------------
(***************************************************************************)
(* stop_session, MediaSession::stop and the release of a reference, on     *)
(* whichever thread runs them.                                             *)
(***************************************************************************)

(* Faulty variants: no id check; the pointer is copied, not swapped out.   *)
TakeAny(t) ==
  /\ pc[t] = "take"
  /\ holder # NoMedia
  /\ ref' = [ref EXCEPT ![t] = holder]
  /\ holder' = NoMedia
  /\ Goto(t, "exchange")
  /\ UNCHANGED <<registryVars, mediaVars, arg, ret, rikey, peers, rotated>>

TakeCopy(t) ==
  /\ pc[t] = "take"
  /\ IF holder # NoMedia /\ owner[holder] = arg[t]
       THEN ref' = [ref EXCEPT ![t] = holder] /\ Goto(t, "exchange") /\ UNCHANGED arg
       ELSE Finish(t) /\ UNCHANGED ref
  /\ UNCHANGED <<registryVars, mediaVars, holder, ret, rikey, peers, rotated>>

(* The id must match, so that a stale stop spares a newer session.         *)
Take(t) ==
  /\ pc[t] = "take"
  /\ IF holder # NoMedia /\ owner[holder] = arg[t]
       THEN /\ ref' = [ref EXCEPT ![t] = holder]
            /\ holder' = NoMedia
            /\ Goto(t, "exchange")
            /\ UNCHANGED arg
       ELSE /\ Finish(t)
            /\ UNCHANGED <<ref, holder>>
  /\ UNCHANGED <<registryVars, mediaVars, ret, rikey, peers, rotated>>

(* app_pid_->exchange(-1): is there an app to kill?                        *)
StopExchange(t, hadPid) ==
  /\ pc[t] = "exchange"
  /\ Goto(t, IF hadPid THEN "kill" ELSE "closeVideo")
  /\ UNCHANGED <<registryVars, mediaVars, holder, arg, ref, ret, rikey, peers, rotated>>

(* SIGTERM to steam, SIGTERM to the group, SIGKILL; every wait is bounded. *)
StopWaited(t) ==
  /\ pc[t] = "kill"
  /\ Goto(t, "closeVideo")
  /\ UNCHANGED <<registryVars, mediaVars, holder, arg, ref, ret, rikey, peers, rotated>>

StopVideo(t) ==
  /\ pc[t] = "closeVideo"
  /\ CloseVideo(ref[t])
  /\ Goto(t, "closeAudio")
  /\ UNCHANGED <<registryVars, holder, arg, ref, ret, rikey, peers, rotated>>

StopAudio(t) ==
  /\ pc[t] = "closeAudio"
  /\ CloseAudio(ref[t])
  /\ Goto(t, "drop")
  /\ UNCHANGED <<registryVars, holder, arg, ref, ret, rikey, peers, rotated>>

SharedBy(m, t) == holder = m \/ \E u \in Threads \ {t} : ref[u] = m

(* The thread lets go of its reference and carries on at ret[t].           *)
Release(t) ==
  /\ ref' = [ref EXCEPT ![t] = NoMedia]
  /\ Goto(t, ret[t])
  /\ ret' = [ret EXCEPT ![t] = "idle"]
  /\ arg' = IF ret[t] = "idle" THEN [arg EXCEPT ![t] = NoSession] ELSE arg

(* Faulty variants: a destructor that does not stop; a plain pointer that  *)
(* is deleted while others hold it; one that is never deleted.             *)
DropUnstopped(t) ==
  /\ pc[t] = "drop"
  /\ IF SharedBy(ref[t], t) THEN UNCHANGED mediaVars ELSE Destroy(ref[t])
  /\ Release(t)
  /\ UNCHANGED <<registryVars, holder, rikey, peers, rotated>>

DropDeletes(t) ==
  /\ pc[t] = "drop"
  /\ Destroy(ref[t])
  /\ Release(t)
  /\ UNCHANGED <<registryVars, holder, rikey, peers, rotated>>

DropLeaks(t) ==
  /\ pc[t] = "drop"
  /\ Release(t)
  /\ UNCHANGED <<registryVars, mediaVars, holder, rikey, peers, rotated>>

(* Whoever drops the last reference runs ~MediaSession, that is stop().    *)
Drop(t) ==
  /\ pc[t] = "drop"
  /\ \/ /\ SharedBy(ref[t], t)
        /\ Release(t)
        /\ UNCHANGED mediaVars
     \/ /\ ~SharedBy(ref[t], t)
        /\ phase[ref[t]] = "live"
        /\ BeginDestructor(ref[t])
        /\ Goto(t, "exchange")
        /\ UNCHANGED <<arg, ref, ret>>
     \/ /\ ~SharedBy(ref[t], t)
        /\ phase[ref[t]] = "dying"
        /\ Destroy(ref[t])
        /\ Release(t)
  /\ UNCHANGED <<registryVars, holder, rikey, peers, rotated>>

-----------------------------------------------------------------------------
(***************************************************************************)
(* RTSP: ANNOUNCE, and PLAY with the callback of main.cpp.                 *)
(***************************************************************************)
Announce(s, ch) ==
  /\ pc["rtsp"] = "idle"
  /\ s \in registry
  /\ SetChannels(s, ch)
  /\ UNCHANGED <<mediaVars, holder, threadVars, peers, rotated>>

(* The connection found s in the registry; from here on it only holds the  *)
(* session object.  MaxMedia bounds the media objects that coexist: a      *)
(* PLAY that needs one more waits in PlayStart until another is freed.     *)
Play(s) ==
  /\ pc["rtsp"] = "idle"
  /\ s \in registry
  /\ Goto("rtsp", "playLookup")
  /\ arg' = [arg EXCEPT !["rtsp"] = s]
  /\ rotated' = rotated \ {s}
  /\ UNCHANGED <<registryVars, mediaVars, holder, ref, ret, rikey, peers>>

PlayLookup ==
  /\ pc["rtsp"] = "playLookup"
  /\ IF GetById(arg["rtsp"]) # NoSession
       THEN Goto("rtsp", "playRead") /\ UNCHANGED arg
       ELSE Finish("rtsp")
  /\ UNCHANGED <<registryVars, mediaVars, holder, ref, ret, rikey, peers, rotated>>

PlayRead ==
  /\ pc["rtsp"] = "playRead"
  /\ ref' = [ref EXCEPT !["rtsp"] = holder]
  /\ Goto("rtsp", IF holder = NoMedia THEN "playTake" ELSE "playCheck")
  /\ UNCHANGED <<registryVars, mediaVars, holder, arg, ret, rikey, peers, rotated>>

CanResume(m, s) == owner[m] = s /\ IsActive(m)

(* Faulty variant: every PLAY is a fresh launch.                           *)
PlayCheckFresh ==
  /\ pc["rtsp"] = "playCheck"
  /\ Goto("rtsp", "drop")
  /\ ret' = [ret EXCEPT !["rtsp"] = "playTake"]
  /\ UNCHANGED <<registryVars, mediaVars, holder, arg, ref, rikey, peers, rotated>>

PlayCheck ==
  /\ pc["rtsp"] = "playCheck"
  /\ IF CanResume(ref["rtsp"], arg["rtsp"])
       THEN Goto("rtsp", "resume") /\ UNCHANGED ret
       ELSE Goto("rtsp", "drop") /\ ret' = [ret EXCEPT !["rtsp"] = "playTake"]
  /\ UNCHANGED <<registryVars, mediaVars, holder, arg, ref, rikey, peers, rotated>>

(* RESUME: another layout closes the audio pipeline and rebuilds it.       *)
PlayResume ==
  /\ pc["rtsp"] = "resume"
  /\ IF audioCh[ref["rtsp"]] # channels[arg["rtsp"]]
       THEN Goto("rtsp", "rebuild") /\ CloseAudio(ref["rtsp"])
       ELSE Goto("rtsp", "retarget") /\ UNCHANGED mediaVars
  /\ UNCHANGED <<registryVars, holder, arg, ref, ret, rikey, peers, rotated>>

PlayRebuild(ok) ==
  /\ pc["rtsp"] = "rebuild"
  /\ ReopenAudio(ref["rtsp"], arg["rtsp"], ok)
  /\ Goto("rtsp", "retarget")
  /\ UNCHANGED <<registryVars, holder, arg, ref, ret, rikey, peers, rotated>>

PlayRetarget ==
  /\ pc["rtsp"] = "retarget"
  /\ PushKey(ref["rtsp"])
  /\ Goto("rtsp", "drop")
  /\ UNCHANGED <<registryVars, holder, arg, ref, ret, rikey, peers, rotated>>

(* Faulty variants: the previous object stays in the holder; it is taken   *)
(* out but not stopped before the next one starts.                         *)
PlayTakeCopy ==
  /\ pc["rtsp"] = "playTake"
  /\ ref' = [ref EXCEPT !["rtsp"] = holder]
  /\ Goto("rtsp", IF holder = NoMedia THEN "start" ELSE "exchange")
  /\ ret' = [ret EXCEPT !["rtsp"] = IF holder = NoMedia THEN "idle" ELSE "start"]
  /\ UNCHANGED <<registryVars, mediaVars, holder, arg, rikey, peers, rotated>>

PlayTakeUnstopped ==
  /\ pc["rtsp"] = "playTake"
  /\ holder' = NoMedia
  /\ Goto("rtsp", "start")
  /\ UNCHANGED <<registryVars, mediaVars, arg, ref, ret, rikey, peers, rotated>>

(* FRESH LAUNCH: the previous object is taken out and stopped first.       *)
PlayTake ==
  /\ pc["rtsp"] = "playTake"
  /\ holder' = NoMedia
  /\ ref' = [ref EXCEPT !["rtsp"] = holder]
  /\ Goto("rtsp", IF holder = NoMedia THEN "start" ELSE "exchange")
  /\ ret' = [ret EXCEPT !["rtsp"] = IF holder = NoMedia THEN "idle" ELSE "start"]
  /\ UNCHANGED <<registryVars, mediaVars, arg, rikey, peers, rotated>>

PlayStart(m, ok, plugged) ==
  /\ pc["rtsp"] = "start"
  /\ IsFree(m)
  /\ CreateWithVideo(m, arg["rtsp"], ok, plugged)
  /\ ref' = [ref EXCEPT !["rtsp"] = m]
  /\ Goto("rtsp", "startAudio")
  /\ UNCHANGED <<registryVars, holder, arg, ret, rikey, peers, rotated>>

PlayStartAudio(ok) ==
  /\ pc["rtsp"] = "startAudio"
  /\ OpenAudio(ref["rtsp"], arg["rtsp"], ok)
  /\ Goto("rtsp", "publish")
  /\ UNCHANGED <<registryVars, holder, arg, ref, ret, rikey, peers, rotated>>

(* The local shared_ptr outlives the lock: it is dropped afterwards.       *)
PlayPublish ==
  /\ pc["rtsp"] = "publish"
  /\ holder' = ref["rtsp"]
  /\ Goto("rtsp", "drop")
  /\ UNCHANGED <<registryVars, mediaVars, arg, ref, ret, rikey, peers, rotated>>

-----------------------------------------------------------------------------
(***************************************************************************)
(* ENet control: connect, disconnect, input, termination.  (An IDR request *)
(* reads the holder under the lock and changes no state.)                  *)
(***************************************************************************)

(* match_session: the running session, if the peer shows its secret or     *)
(* comes from its address.                                                 *)
Matches(s, secret, ip) == s # NoSession /\ (s = secret \/ clientIp[s] = ip)

Connect(p, secret, ip) ==
  /\ pc["control"] = "idle"
  /\ peers[p] = NoSession
  /\ Matches(GetRunning, secret, ip)
  /\ peers' = [peers EXCEPT ![p] = GetRunning]
  /\ UNCHANGED <<registryVars, mediaVars, holder, threadVars, rotated>>

Disconnect(p) ==
  /\ pc["control"] = "idle"
  /\ peers[p] # NoSession
  /\ peers' = [peers EXCEPT ![p] = NoSession]
  /\ UNCHANGED <<registryVars, mediaVars, holder, threadVars, rotated>>

(* Input goes to whatever media is current, not to the peer's session.     *)
Input(p) ==
  /\ pc["control"] = "idle"
  /\ peers[p] # NoSession
  /\ holder # NoMedia
  /\ ref' = [ref EXCEPT !["control"] = holder]
  /\ Goto("control", "input")
  /\ UNCHANGED <<registryVars, mediaVars, holder, arg, ret, rikey, peers, rotated>>

InputApply(b) ==
  /\ pc["control"] = "input"
  /\ SetPads(ref["control"], b)
  /\ Goto("control", "drop")
  /\ UNCHANGED <<registryVars, holder, arg, ref, ret, rikey, peers, rotated>>

(* TERMINATION runs stop_session; the registry is not touched.             *)
Terminate(p) ==
  /\ pc["control"] = "idle"
  /\ peers[p] # NoSession
  /\ Goto("control", "take")
  /\ arg' = [arg EXCEPT !["control"] = peers[p]]
  /\ UNCHANGED <<registryVars, mediaVars, holder, ref, ret, rikey, peers, rotated>>

-----------------------------------------------------------------------------
(***************************************************************************)
(* stop() works on the same plain pointers that RESUME and the input path  *)
(* use, without a lock.  When one thread tears an object down while        *)
(* another uses it, the outcome may be a use after free: the process, PID  *)
(* 1 of the container, dies and the container is restarted.                *)
(***************************************************************************)
TearingDown(t, m) == ref[t] = m /\ pc[t] \in {"closeVideo", "closeAudio"}
Using(t, m) == ref[t] = m /\ pc[t] \in {"resume", "rebuild", "retarget", "input"}

Crash ==
  /\ \E m \in Mids, t, u \in Threads : TearingDown(t, m) /\ Using(u, m)
  /\ RegistryReset
  /\ MediaReset
  /\ holder' = NoMedia
  /\ pc' = [t \in Threads |-> "idle"]
  /\ arg' = [t \in Threads |-> NoSession]
  /\ ref' = [t \in Threads |-> NoMedia]
  /\ ret' = [t \in Threads |-> "idle"]
  /\ rikey' = NoKey
  /\ peers' = [p \in Peers |-> NoSession]
  /\ rotated' = {}

Https ==
  \/ \E ip \in Ips, k \in Keys : Launch(ip, k) \/ ResumeMove(ip, k)
  \/ ResumeKey
  \/ \E ip \in Ips : Cancel(ip)

(* The steps of a stop that do not touch the app, and all of them.         *)
StopMedia(t) == Take(t) \/ StopVideo(t) \/ StopAudio(t) \/ Drop(t)

Stop(t) ==
  \/ StopMedia(t)
  \/ \E hadPid \in BOOLEAN : StopExchange(t, hadPid)
  \/ StopWaited(t)

(* The steps of a PLAY that has begun, but for the one that starts a       *)
(* pipeline, and all of them.                                              *)
PlayMedia ==
  \/ PlayLookup
  \/ PlayRead
  \/ PlayCheck
  \/ PlayResume
  \/ \E ok \in BOOLEAN : PlayRebuild(ok)
  \/ PlayRetarget
  \/ PlayTake
  \/ \E ok \in BOOLEAN : PlayStartAudio(ok)
  \/ PlayPublish

IsLeast(m, S) == m \in S /\ \A x \in S : m <= x

PlaySteps ==
  \/ PlayMedia
  \/ \E m \in Mids, ok, plugged \in BOOLEAN :
        IsLeast(m, {x \in Mids : IsFree(x)}) /\ PlayStart(m, ok, plugged)

Rtsp ==
  \/ \E s \in Sids : Play(s) \/ \E ch \in Channels : Announce(s, ch)
  \/ PlaySteps

Control ==
  \/ \E p \in Peers, secret \in Sids \cup {NoSession}, ip \in Ips :
        Connect(p, secret, ip)
  \/ \E p \in Peers : Disconnect(p) \/ Input(p) \/ Terminate(p)
  \/ \E b \in BOOLEAN : InputApply(b)

Next ==
  \/ Https
  \/ Rtsp
  \/ Control
  \/ \E t \in Threads : Stop(t)
  \/ Crash

Spec == Init /\ [][Next]_vars

(* A thread that is inside a handler keeps running.                        *)
Busy(t) ==
  CASE t = "https"   -> ResumeKey \/ Stop(t)
    [] t = "rtsp"    -> PlaySteps \/ Stop(t)
    [] t = "control" -> (\E b \in BOOLEAN : InputApply(b)) \/ Stop(t)

Fairness == \A t \in Threads : WF_vars(Busy(t))

FairSpec == Spec /\ Fairness
-----------------------------------------------------------------------------
(***************************************************************************)
(* Properties.                                                             *)
(***************************************************************************)

(* Some holder of a shared_ptr will still drop m.                          *)
Referenced(m) == holder = m \/ \E t \in Threads : ref[t] = m

(* m is under construction on the RTSP thread, not yet published.          *)
BeingStarted(m) == ref["rtsp"] = m /\ pc["rtsp"] \in {"startAudio", "publish"}

Stopping(t, m) == ref[t] = m /\ pc[t] \in StopPcs

(* Safety.  No two threads are inside MediaSession::stop() of one object:  *)
(* a cancel, a termination, a fresh PLAY and a destructor never tear the   *)
(* same pipelines down twice at once (stop() takes no lock).               *)
SingleStopper ==
  \A m \in Mids, t, u \in Threads : Stopping(t, m) /\ Stopping(u, m) => t = u

(* Safety.  Pipelines and gamepads never outlive the last reference to     *)
(* their object, whatever order RESUME, input and stop() ran in: there is  *)
(* always a thread that will still close them.                             *)
LiveMediaIsOwned == \A m \in Mids : ~Quiet(m) => Referenced(m)

(* The threads together implement the abstract life of a media object.     *)
StageOf(m) ==
  IF phase[m] = "none" THEN "absent"
  ELSE IF BeingStarted(m) THEN "building"
  ELSE IF holder = m THEN "current" ELSE "retired"

Stage == [m \in Mids |-> StageOf(m)]

Lifecycle ==
  INSTANCE MediaLifecycle WITH stage <- Stage, busy <- {m \in Mids : ~Quiet(m)}

(* Refinement.  Every step of the three threads is a step of that life or  *)
(* leaves it alone: in particular nothing is freed before it was taken out *)
(* of media_holder and closed, and no second object becomes current.       *)
ImplementsLifecycle == Lifecycle!LifecycleSpec

(* Action.  A PLAY publishes into an empty media_holder; overwriting an    *)
(* object there would run its blocking teardown under media_mtx.           *)
PublishIntoEmpty ==
  [][holder' \notin {holder, NoMedia} => holder = NoMedia]_vars

(* Action.  The HTTPS and control threads close running video only for the *)
(* session they were asked to stop: neither a stale peer or request of an  *)
(* earlier session, nor a destructor that happens to run on their thread   *)
(* because they drop the last reference, kills a newer stream.  Only a     *)
(* PLAY replaces another session's media.                                  *)
StaleStopSparesNewer ==
  [][\A t \in {"https", "control"}, m \in Mids :
       pc[t] = "closeVideo" /\ ref[t] = m /\ video[m] /\ ~video'[m]
         => owner[m] = arg[t]]_vars

(* Action.  A PLAY for a session whose media is running never takes that   *)
(* media out for a relaunch, whatever happened between its check and its   *)
(* take ("must NOT tear down/relaunch the app", main.cpp).                 *)
ResumeNeverRelaunches ==
  [][pc["rtsp"] = "playTake" /\ ref'["rtsp"] # NoMedia
       => ~CanResume(ref'["rtsp"], arg["rtsp"])]_vars

(***************************************************************************)
(* The inductive invariant behind the properties above: who holds which    *)
(* object at each point of the handlers, and what is still open in it.     *)
(***************************************************************************)
RefPcs == StopPcs \cup {"drop", "input", "playCheck", "resume", "rebuild",
                        "retarget", "startAudio", "publish"}

(* A thread holds a reference exactly inside the blocks that declare one,  *)
(* and objects exist exactly as long as something refers to them.          *)
RefsMatchPcs == \A t \in Threads : ref[t] # NoMedia <=> pc[t] \in RefPcs

ExistsWhileReferenced == \A m \in Mids : phase[m] # "none" <=> Referenced(m)

HolderIsLive == holder # NoMedia => phase[holder] = "live"

(* An object belongs to a session, and a handler that needs its session    *)
(* still knows it, across the stops it runs on the way.                    *)
SessionsAreKnown ==
  /\ \A m \in Mids : phase[m] # "none" => owner[m] \in Sids
  /\ \A t \in Threads :
       /\ pc[t] \in PlayPcs \cup {"take", "resumeKey"} => arg[t] \in Sids
       /\ ret[t] # "idle" => arg[t] \in Sids /\ pc[t] \in StopPcs \cup {"drop"}

(* What is being stopped, or may be destroyed, is out of media_holder.     *)
StoppedIsTakenOut == \A t \in Threads : pc[t] \in StopPcs => holder # ref[t]

DyingIsExclusive ==
  \A t \in Threads :
    ref[t] # NoMedia /\ phase[ref[t]] = "dying"
      => /\ pc[t] \in StopPcs \cup {"drop"}
         /\ \A u \in Threads : ref[u] = ref[t] => u = t
         /\ pc[t] = "closeAudio" => ~video[ref[t]] /\ ~pads[ref[t]]
         /\ pc[t] = "drop" => Quiet(ref[t])

(* From the moment PLAY has emptied media_holder it stays empty, and the   *)
(* object under construction is known to nobody else.                      *)
PlayOwnsTheHolder ==
  /\ pc["rtsp"] \in {"start", "startAudio", "publish"} \/ ret["rtsp"] = "start"
       => holder = NoMedia
  /\ \A m \in Mids : BeingStarted(m) =>
        /\ phase[m] = "live"
        /\ \A t \in Threads : ref[t] = m => t = "rtsp"

AbsentIsQuiet == \A m \in Mids : phase[m] = "none" => Quiet(m)

Ownership ==
  /\ RefsMatchPcs
  /\ ExistsWhileReferenced
  /\ HolderIsLive
  /\ SessionsAreKnown
  /\ StoppedIsTakenOut
  /\ SingleStopper
  /\ DyingIsExclusive
  /\ PlayOwnsTheHolder
  /\ AbsentIsQuiet

(***************************************************************************)
(* What the two action properties about stops and relaunches rest on:      *)
(* running video is in custody of somebody who knows whose it is, and      *)
(* nothing but PLAY puts media into the holder that PLAY looked into.      *)
(***************************************************************************)
StopsBeforeVideo == {"exchange", "kill", "closeVideo"}

RunningVideoIsInCustody ==
  \A m \in Mids : video[m] =>
    /\ phase[m] = "live"
    /\ \/ holder = m
       \/ BeingStarted(m)
       \/ \E t \in Threads : ref[t] = m /\ pc[t] \in StopsBeforeVideo

StoppersKnowTheSession ==
  \A t \in Threads \ {"rtsp"} :
    pc[t] \in StopsBeforeVideo /\ phase[ref[t]] = "live" => owner[ref[t]] = arg[t]

PlaySawTheHolder ==
  /\ pc["rtsp"] \in {"playCheck", "resume", "rebuild", "retarget"}
       => holder \in {NoMedia, ref["rtsp"]}
  /\ pc["rtsp"] = "playTake" \/ ret["rtsp"] = "playTake"
       => holder = NoMedia \/ ~CanResume(holder, arg["rtsp"])

Custody == RunningVideoIsInCustody /\ StoppersKnowTheSession /\ PlaySawTheHolder

(* Safety.  A client address has at most one session, through launches,    *)
(* cancels and resumes that move a session to another device.              *)
OneSessionPerClient ==
  \A s, x \in registry : clientIp[s] = clientIp[x] => s = x

(* Safety.  Between PLAYs, the running audio payloader lags behind the     *)
(* session key only if a /resume rotated the key since the last PLAY of    *)
(* that session began: completing the PLAY always heals it.                *)
AudioKeyFollowsResume ==
  holder # NoMedia =>
    LET s == owner[holder] IN
      (pc["rtsp"] = "idle" /\ s \in registry /\ audio[holder]
        /\ audioKey[holder] # aesKey[s]) => s \in rotated

(* Safety.  When nothing is in progress, the media that runs belongs to a  *)
(* registered session, so that a /cancel can still tear it down: "registry *)
(* removal alone leaves the app + pipelines orphaned" (state.hpp).         *)
NoOrphanMedia ==
  (holder # NoMedia /\ \A t \in Threads : pc[t] = "idle")
    => owner[holder] \in registry

(* Liveness.  Every handler returns: no PLAY, cancel or termination blocks *)
(* its thread for ever, even when the app ignores every signal.            *)
HandlersReturn == \A t \in Threads : pc[t] # "idle" ~> pc[t] = "idle"

(* Liveness.  Media that left media_holder is destroyed, and so closed.    *)
RetiredMediaIsDestroyed ==
  \A m \in Mids : (phase[m] # "none" /\ holder # m) ~> (holder = m \/ phase[m] = "none")

(***************************************************************************)
(* Statements of the repository that the code does not keep; no run checks *)
(* them, README says what breaks them.                                     *)
(***************************************************************************)

(* Action.  stop_session only ever runs for a session that has left the    *)
(* registry: TERMINATION is the "same teardown as HTTP /cancel"            *)
(* (control.hpp).                                                          *)
StopMeansRemoved ==
  [][\A t \in Threads : pc[t] = "take" /\ pc'[t] # "take"
       => arg[t] \notin registry]_vars

(* Safety.  A registered session's own secret admits its client to the     *)
(* control channel: the "get_running() + secret/IP check suffices"         *)
(* (control.cpp).                                                          *)
SecretSuffices == \A s \in registry : Matches(GetRunning, s, clientIp[s])
=============================================================================
