---------------------------- MODULE MediaSession ----------------------------
(***************************************************************************)
(* The media objects (media::MediaSession): the two GStreamer pipelines    *)
(* and the virtual gamepads.                                               *)
(*                                                                         *)
(* An object is created by a fresh PLAY, kept alive by shared_ptr          *)
(* references, and destroyed when the last one is dropped.  This module    *)
(* has the state of the objects and the effect of each piece of their      *)
(* operations; which thread runs a piece, and when, is SessionLifecycle.   *)
(* The app that an object launches is in AppProcess.                       *)
(***************************************************************************)
EXTENDS SessionRegistry

CONSTANT MaxMedia   (* bound on media objects that exist at the same time    *)

ASSUME MediaAssumption == MaxMedia \in Nat

Mids == 1 .. MaxMedia
NoMedia == 0        \* a null shared_ptr

VARIABLES
  phase,        (* none, live, dying (in the destructor)                    *)
  owner,        (* session_->session_id, 0 before creation                  *)
  video,        (* video_pipeline_ is not null                              *)
  audio,        (* audio_pipeline_ is not null                              *)
  audioKey,     (* key baked into the audio payloader                       *)
  audioCh,      (* audio_channels_                                          *)
  pads          (* gamepads_ is not empty                                   *)

mediaVars == <<phase, owner, video, audio, audioKey, audioCh, pads>>

MediaTypeOK ==
  /\ phase \in [Mids -> {"none", "live", "dying"}]
  /\ owner \in [Mids -> Sids \cup {NoSession}]
  /\ video \in [Mids -> BOOLEAN]
  /\ audio \in [Mids -> BOOLEAN]
  /\ audioKey \in [Mids -> Keys \cup {NoKey}]
  /\ audioCh \in [Mids -> Channels]
  /\ pads \in [Mids -> BOOLEAN]

MediaInit ==
  /\ phase = [m \in Mids |-> "none"]
  /\ owner = [m \in Mids |-> NoSession]
  /\ video = [m \in Mids |-> FALSE]
  /\ audio = [m \in Mids |-> FALSE]
  /\ audioKey = [m \in Mids |-> NoKey]
  /\ audioCh = [m \in Mids |-> Stereo]
  /\ pads = [m \in Mids |-> FALSE]

(* No object occupies m.                                                   *)
IsFree(m) == phase[m] = "none"

(* Nothing of m uses the encoder, the sound server or /dev/uinput.         *)
Quiet(m) == ~video[m] /\ ~audio[m] /\ ~pads[m]

IsActive(m) == video[m]

(***************************************************************************)
(* MediaSession::start, in the two halves that read the session.           *)
(***************************************************************************)

(* Both the video pipeline and gamepad 0 may fail; start goes on anyway.   *)
CreateWithVideo(m, s, ok, plugged) ==
  /\ phase' = [phase EXCEPT ![m] = "live"]
  /\ owner' = [owner EXCEPT ![m] = s]
  /\ audioCh' = [audioCh EXCEPT ![m] = channels[s]]
  /\ video' = [video EXCEPT ![m] = ok]
  /\ pads' = [pads EXCEPT ![m] = plugged]
  /\ UNCHANGED <<audio, audioKey>>

(* build_audio_pipeline bakes the key in; launch() may fail.               *)
OpenAudio(m, s, ok) ==
  /\ audio' = [audio EXCEPT ![m] = ok]
  /\ audioKey' = [audioKey EXCEPT ![m] = aesKey[s]]
  /\ UNCHANGED <<phase, owner, video, audioCh, pads>>

(***************************************************************************)
(* rebuild_audio, in its two halves, and retarget.                         *)
(***************************************************************************)
CloseAudio(m) ==
  /\ audio' = [audio EXCEPT ![m] = FALSE]
  /\ UNCHANGED <<phase, owner, video, audioKey, audioCh, pads>>

ReopenAudio(m, s, ok) ==
  /\ audio' = [audio EXCEPT ![m] = ok]
  /\ audioKey' = [audioKey EXCEPT ![m] = aesKey[s]]
  /\ audioCh' = [audioCh EXCEPT ![m] = channels[s]]
  /\ UNCHANGED <<phase, owner, video, pads>>

(* Faulty variant: the live payloader keeps the key it was built with.     *)
PushKeyNever(m) == UNCHANGED mediaVars

PushKey(m) ==
  /\ audioKey' = IF audio[m] /\ aesKey[owner[m]] # NoKey
                   THEN [audioKey EXCEPT ![m] = aesKey[owner[m]]]
                   ELSE audioKey
  /\ UNCHANGED <<phase, owner, video, audio, audioCh, pads>>

(***************************************************************************)
(* MediaSession::stop after the app is dealt with: gamepads, pointer sync  *)
(* and video first, then audio (CloseAudio).                               *)
(***************************************************************************)
CloseVideo(m) ==
  /\ pads' = [pads EXCEPT ![m] = FALSE]
  /\ video' = [video EXCEPT ![m] = FALSE]
  /\ UNCHANGED <<phase, owner, audio, audioKey, audioCh>>

BeginDestructor(m) ==
  /\ phase' = [phase EXCEPT ![m] = "dying"]
  /\ UNCHANGED <<owner, video, audio, audioKey, audioCh, pads>>

(* The memory is freed; a pipeline or pad still open here would be leaked. *)
Destroy(m) ==
  /\ phase' = [phase EXCEPT ![m] = "none"]
  /\ owner' = [owner EXCEPT ![m] = NoSession]
  /\ audioKey' = [audioKey EXCEPT ![m] = NoKey]
  /\ audioCh' = [audioCh EXCEPT ![m] = Stereo]
  /\ UNCHANGED <<video, audio, pads>>

(* gamepad_arrival and gamepad_update, on whatever state the object is in: *)
(* afterwards there are pads or there are none.                            *)
SetPads(m, b) ==
  /\ pads' = [pads EXCEPT ![m] = b]
  /\ UNCHANGED <<phase, owner, video, audio, audioKey, audioCh>>

(* A restart of the process.                                               *)
MediaReset ==
  /\ phase' = [m \in Mids |-> "none"]
  /\ owner' = [m \in Mids |-> NoSession]
  /\ video' = [m \in Mids |-> FALSE]
  /\ audio' = [m \in Mids |-> FALSE]
  /\ audioKey' = [m \in Mids |-> NoKey]
  /\ audioCh' = [m \in Mids |-> Stereo]
  /\ pads' = [m \in Mids |-> FALSE]
=============================================================================
