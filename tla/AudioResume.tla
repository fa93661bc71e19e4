----------------------------- MODULE AudioResume -----------------------------
(***************************************************************************)
(* The audio of a running session while its client reconnects: /launch and *)
(* /resume on the HTTPS thread hand out a new key, the PLAY that follows   *)
(* on the RTSP thread rebuilds the pipeline if the channels have changed,  *)
(* drops the destination and pushes the key into the payloader; meanwhile  *)
(* the streaming thread encrypts and sends, and the listener follows the   *)
(* pings.  Extends RtpSink, where the packets go, with what they are        *)
(* encrypted under; how they are numbered is in AudioPayloader.            *)
(*                                                                         *)
(* Every connection of a client brings a new rikey and rikeyid: a pair is  *)
(* worth the number of the connection, and a packet the pair it is under.  *)
(***************************************************************************)
EXTENDS RtpSink

CONSTANTS
  Layouts,      (* channel counts a client may ask for                      *)
  MaxResumes    (* bound on the connections after the first                 *)

ASSUME ResumeAssumption == Layouts # {} /\ MaxResumes \in Nat

VARIABLES
  clientKey,    (* the key of the client in session                         *)
  sessionKey,   (* aes_key and aes_iv of the StreamSession, set together    *)
  channels,     (* audio.channels of the StreamSession                      *)
  playDue,      (* the client in session has not sent its PLAY yet          *)
  play,         (* RTSP thread: idle or where it is in the PLAY handler     *)
  read,         (* key and iv as the PLAY handler read them under the lock  *)
  audioChannels,(* audio_channels_                                          *)
  alive,        (* audio_pipeline_ is not null                              *)
  aesKey, aesIv,(* aes_key, aes_iv of the payloader                         *)
  stream,       (* streaming thread: idle, encrypting, delivering           *)
  derived,      (* the iv derive_iv was given                               *)
  packet        (* the packet being delivered                               *)

Keys == 0 .. MaxResumes
NoPacket == [key |-> 0, iv |-> 0]

payloaderVars == <<aesKey, aesIv, stream, derived, packet>>
resumeVars == <<clientKey, sessionKey, channels, playDue>>
playVars == <<play, read, audioChannels, alive>>
vars == <<sinkVars, payloaderVars, resumeVars, playVars>>

TypeOK ==
  /\ SinkTypeOK
  /\ {clientKey, sessionKey, read, aesKey, aesIv, derived} \subseteq Keys
  /\ {channels, audioChannels} \subseteq Layouts
  /\ {playDue, alive} \subseteq BOOLEAN
  /\ play \in {"idle", "build", "take", "launch", "drop", "read", "key", "iv"}
  /\ stream \in {"idle", "encrypt", "deliver"}
  /\ packet \in [key : Keys, iv : Keys]

(* MediaSession::start has been, for a client with key 0.                  *)
Init ==
  /\ SinkInit
  /\ clientKey = 0 /\ sessionKey = 0 /\ read = 0
  /\ channels = CHOOSE ch \in Layouts : TRUE
  /\ audioChannels = channels
  /\ playDue = FALSE /\ play = "idle" /\ alive = TRUE
  /\ aesKey = 0 /\ aesIv = 0
  /\ stream = "idle" /\ derived = 0 /\ packet = NoPacket

(***************************************************************************)
(* HTTPS and, for the channels, the ANNOUNCE that comes between the answer *)
(* and PLAY.  Every connection of a client has a new key.  ANNOUNCE is     *)
(* handled by the thread that handles PLAY, never within one.              *)
(***************************************************************************)
Connect(c, ch) ==
  /\ clientKey < MaxResumes /\ play = "idle"
  /\ Reconnect(c)
  /\ clientKey' = clientKey + 1
  /\ channels' = ch
  /\ playDue' = TRUE
  /\ UNCHANGED <<payloaderVars, playVars>>

Resume(c, ch) ==
  /\ Connect(c, ch)
  /\ sessionKey' = clientKey + 1

(* A /launch is given the session that its address has, with its old key.  *)
LaunchAgain(c, ch) ==
  /\ Connect(c, ch)
  /\ UNCHANGED sessionKey

(* A /resume of which PLAY has not come yet is overtaken by another while  *)
(* PLAY is handled: only the key is new, its ANNOUNCE waits.               *)
ResumeDuringPlay(c) ==
  /\ clientKey < MaxResumes /\ play # "idle"
  /\ Reconnect(c)
  /\ clientKey' = clientKey + 1 /\ sessionKey' = clientKey + 1
  /\ playDue' = TRUE
  /\ UNCHANGED <<payloaderVars, channels, playVars>>

(***************************************************************************)
(* RTSP: PLAY for the running session.                                     *)
(***************************************************************************)
Play ==
  /\ play = "idle" /\ playDue
  /\ playDue' = FALSE
  /\ play' = IF audioChannels # channels THEN "build" ELSE "drop"
  /\ UNCHANGED <<payloaderVars, clientKey, sessionKey, channels, read, audioChannels, alive, sinkVars>>

(* rebuild_audio: the change of the old pipeline to NULL stops the flow of *)
(* packets and waits for the one that is under way.                        *)
BuildStops ==
  /\ play = "build"
  /\ alive' = FALSE
  /\ play' = "take"
  /\ UNCHANGED <<sinkVars, payloaderVars, resumeVars, read, audioChannels>>

(* The text of the new one takes key and iv from the session without the   *)
(* lock, one after the other.                                              *)
BuildTakesKey ==
  /\ play = "take"
  /\ stream = "idle"
  /\ aesKey' = sessionKey
  /\ play' = "launch"
  /\ UNCHANGED <<sinkVars, aesIv, stream, derived, packet, resumeVars, read, audioChannels, alive>>

(* launch: gst_parse_launch or the change to PLAYING may fail.  Either way *)
(* the channels count as built.                                            *)
BuildLaunches ==
  /\ play = "launch"
  /\ alive' \in BOOLEAN
  /\ aesIv' = sessionKey
  /\ audioChannels' = channels
  /\ play' = "drop"
  /\ UNCHANGED <<sinkVars, aesKey, stream, derived, packet, resumeVars, read>>

(* retarget: the destination, then the key, if there is a pipeline; the    *)
(* two properties are set one after the other, without a lock that the     *)
(* streaming thread takes.                                                 *)
PlayDrops ==
  /\ play = "drop"
  /\ Retarget
  /\ play' = IF alive THEN "read" ELSE "idle"
  /\ UNCHANGED <<payloaderVars, resumeVars, read, audioChannels, alive>>

PlayReads ==
  /\ play = "read"
  /\ read' = sessionKey
  /\ play' = "key"
  /\ UNCHANGED <<sinkVars, payloaderVars, resumeVars, audioChannels, alive>>

PlaySetsKey ==
  /\ play = "key"
  /\ aesKey' = read
  /\ play' = "iv"
  /\ UNCHANGED <<sinkVars, aesIv, stream, derived, packet, resumeVars, read, audioChannels, alive>>

(* Faulty variant: the key is refreshed and the iv forgotten.              *)
PlaySetsNoIv ==
  /\ play = "iv"
  /\ play' = "idle"
  /\ UNCHANGED <<sinkVars, payloaderVars, resumeVars, read, audioChannels, alive>>

PlaySetsIv ==
  /\ play = "iv"
  /\ aesIv' = read
  /\ play' = "idle"
  /\ UNCHANGED <<sinkVars, aesKey, stream, derived, packet, resumeVars, read, audioChannels, alive>>

PlaySteps ==
  \/ BuildStops \/ BuildTakesKey \/ BuildLaunches
  \/ PlayDrops \/ PlayReads \/ PlaySetsKey \/ PlaySetsIv

(***************************************************************************)
(* The streaming thread: the packet is pushed through the appsink before   *)
(* the next one is taken.  FEC packets go the same way, in the same list.  *)
(***************************************************************************)

(* create_rtp_audio_buffer: the iv is read, with the sequence number added *)
(* to it; then the key is.                                                 *)
DeriveIv ==
  /\ stream = "idle" /\ alive
  /\ derived' = aesIv
  /\ stream' = "encrypt"
  /\ UNCHANGED <<sinkVars, aesKey, aesIv, packet, resumeVars, playVars>>

Push ==
  /\ stream = "encrypt"
  /\ packet' = [key |-> aesKey, iv |-> derived]
  /\ derived' = 0
  /\ stream' = "deliver"
  /\ UNCHANGED <<sinkVars, aesKey, aesIv, resumeVars, playVars>>

(* on_new_sample: send() for the packet.                                   *)
Deliver ==
  /\ stream = "deliver"
  /\ \/ SendCheck /\ UNCHANGED <<stream, packet>>
     \/ (Drop \/ Send) /\ stream' = "idle"
        /\ packet' = NoPacket
  /\ UNCHANGED <<aesKey, aesIv, derived, resumeVars, playVars>>

Stream == DeriveIv \/ Push \/ Deliver

Network ==
  \/ Ping
  \/ \E c \in Sources : LatePing(c) \/ Lose(c)

SinkAlone == UNCHANGED <<payloaderVars, resumeVars, playVars>>

Next ==
  \/ (Network \/ Listener) /\ SinkAlone
  \/ \E c \in Sources, ch \in Layouts : Resume(c, ch) \/ LaunchAgain(c, ch)
  \/ \E c \in Sources : ResumeDuringPlay(c)
  \/ Play \/ PlaySteps
  \/ Stream

Spec == Init /\ [][Next]_vars

(* The threads run.  A client sends its PLAY and pings on and on, and the  *)
(* network does not lose every ping.                                       *)
FairSpec ==
  /\ Spec
  /\ WF_vars(Ping /\ SinkAlone)
  /\ \A c \in Sources : SF_vars(Receive(c) /\ SinkAlone)
  /\ WF_vars((Judge \/ Announce) /\ SinkAlone)
  /\ WF_vars(Play) /\ WF_vars(PlaySteps)
  /\ WF_vars(Stream)
-----------------------------------------------------------------------------
(***************************************************************************)
(* Properties.                                                             *)
(***************************************************************************)

(* Safety.  Types, and: nothing is sent blind, however PLAY falls between  *)
(* the steps of the listener and of the streaming thread.                  *)
StreamInv == TypeOK /\ SendsOnlyToPingers

(* Action.  Once PLAY has been handled, a packet leaves under the pair     *)
(* that PLAY pushed: no packet that is begun after it is under an older    *)
(* key or iv, nor under halves of two pairs.                               *)
FreshPairAfterPlay ==
  [][Push /\ play = "idle" /\ alive
       => packet'.key = read /\ (packet'.iv = read \/ derived # aesIv)]_vars

(* Liveness.  A client that resumes, once or several times, from wherever  *)
(* and with whatever channels, ends up with a stream that is sent to its   *)
(* source under its own key and iv; unless the pipeline could not be       *)
(* rebuilt, or it came by a /launch.                                       *)
HeardByClient ==
  /\ []<>(sender = "send")
  /\ <>[](sender = "send" => dest = client /\ packet.key = clientKey /\ packet.iv = clientKey)

ResumedIsHeard ==
  \/ HeardByClient
  \/ <>[]~alive
  \/ <>[](clientKey # sessionKey)

(***************************************************************************)
(* Statements of the repository that the code does not keep; no run checks *)
(* them, README says what breaks them.                                     *)
(***************************************************************************)

(* Action.  After a retarget it is the client of the session that the      *)
(* listener discovers: retarget drops "the stale destination so the        *)
(* listener re-discovers the reconnected client" (media.cpp).              *)
RediscoversClient ==
  [][listener = "judge" /\ first /\ dest # NoSource => dest' = client]_vars

(* Liveness.  A /launch of a client that has a session is a resume:        *)
(* "Re-launching would clobber the live session; resume instead"           *)
(* (servers.cpp); so its audio is heard as well.                           *)
LaunchIsHeard == HeardByClient \/ <>[]~alive
=============================================================================
