-------------------------- MODULE AudioResume_proofs --------------------------
(***************************************************************************)
(* Theorems about AudioResume, for any sources and layouts and any bounds  *)
(* on moves and resumes.                                                   *)
(***************************************************************************)
EXTENDS AudioResume, TLAPS

(* Whatever the destination is or is about to be set to has pinged, before *)
(* have_client says that it may be read.                                   *)
DestinationsHavePinged ==
  /\ wire \subseteq pinged
  /\ listener # "idle" => from \in pinged
  /\ listener = "announce" => dest = from
  /\ haveClient \/ sender = "send" => dest \in pinged

(* PLAY leaves the pair it read in the payloader, if there is one.         *)
PlayLeavesItsPair ==
  /\ play = "iv" => aesKey = read
  /\ play = "idle" /\ alive => aesKey = read /\ aesIv = read

-----------------------------------------------------------------------------
(***************************************************************************)
(* Type correctness.                                                       *)
(***************************************************************************)
LEMMA TypeInit == Init => TypeOK
<1> SUFFICES ASSUME Init PROVE TypeOK
  OBVIOUS
<1>1. FirstSource \in Sources
  BY SinkAssumption DEF FirstSource
<1>2. channels \in Layouts
  BY ResumeAssumption DEF Init
<1>3. 0 \in 0 .. MaxMoves /\ 0 \in Keys
  BY SinkAssumption, ResumeAssumption DEF Keys
<1>4. SinkTypeOK
  BY <1>1, <1>3 DEF Init, SinkInit, SinkTypeOK
<1> QED BY <1>2, <1>3, <1>4 DEF Init, TypeOK, NoPacket

(* Each operation on the sink keeps its types.                             *)
LEMMA SinkTypes ==
  ASSUME SinkTypeOK
  PROVE  /\ Ping => SinkTypeOK'
         /\ \A c \in Sources :
              /\ LatePing(c) => SinkTypeOK'
              /\ Lose(c) => SinkTypeOK'
              /\ Reconnect(c) => SinkTypeOK'
         /\ Listener => SinkTypeOK'
         /\ SendCheck \/ Drop \/ Send \/ Retarget => SinkTypeOK'
         /\ UNCHANGED sinkVars => SinkTypeOK'
<1> USE SinkAssumption DEF SinkTypeOK, threadVars, networkVars
<1>1. Ping => SinkTypeOK'
  BY DEF Ping
<1>2. ASSUME NEW c \in Sources
      PROVE  /\ LatePing(c) => SinkTypeOK'
             /\ Lose(c) => SinkTypeOK'
             /\ Reconnect(c) => SinkTypeOK'
  BY DEF LatePing, Lose, Reconnect
<1>3. ASSUME NEW c \in Sources, Receive(c)
      PROVE  SinkTypeOK'
  BY <1>3 DEF Receive
<1>4. Judge \/ Announce => SinkTypeOK'
  BY DEF Judge, Announce, PingDone
<1>5. SendCheck \/ Drop \/ Send \/ Retarget => SinkTypeOK'
  BY DEF SendCheck, Drop, Send, Retarget, sinkVars
<1>6. UNCHANGED sinkVars => SinkTypeOK'
  BY DEF sinkVars
<1> QED BY <1>1, <1>2, <1>3, <1>4, <1>5, <1>6 DEF Listener

LEMMA TypeStep ==
  ASSUME TypeOK, [Next]_vars
  PROVE  TypeOK'
<1> USE SinkTypes, ResumeAssumption
    DEF TypeOK, Keys, payloaderVars, resumeVars, playVars
<1>1. ASSUME Network \/ Listener, SinkAlone
      PROVE  TypeOK'
  BY <1>1 DEF Network, SinkAlone
<1>2. ASSUME NEW c \in Sources, NEW ch \in Layouts, Resume(c, ch) \/ LaunchAgain(c, ch)
      PROVE  TypeOK'
  <2>1. clientKey + 1 \in Keys
    BY <1>2 DEF Resume, LaunchAgain, Connect
  <2>2. SinkTypeOK'
    BY <1>2 DEF Resume, LaunchAgain, Connect
  <2> QED BY <1>2, <2>1, <2>2 DEF Resume, LaunchAgain, Connect
<1>3. ASSUME NEW c \in Sources, ResumeDuringPlay(c)
      PROVE  TypeOK'
  BY <1>3 DEF ResumeDuringPlay
<1>4. ASSUME Play
      PROVE  TypeOK'
  BY <1>4 DEF Play
<1>5. ASSUME PlaySteps
      PROVE  TypeOK'
  BY <1>5 DEF PlaySteps, BuildStops, BuildTakesKey, BuildLaunches, PlayDrops, PlayReads,
              PlaySetsKey, PlaySetsIv
<1>6. ASSUME Stream
      PROVE  TypeOK'
  BY <1>6 DEF Stream, DeriveIv, Push, Deliver, NoPacket
<1>7. CASE UNCHANGED vars
  BY <1>7 DEF vars
<1> QED BY <1>1, <1>2, <1>3, <1>4, <1>5, <1>6, <1>7 DEF Next

-----------------------------------------------------------------------------
(***************************************************************************)
(* The two invariants.                                                     *)
(***************************************************************************)
LEMMA DestinationsStep ==
  ASSUME TypeOK, DestinationsHavePinged, [Next]_vars
  PROVE  DestinationsHavePinged'
<1> USE DEF TypeOK, SinkTypeOK, DestinationsHavePinged, threadVars, networkVars
<1>1. Ping => DestinationsHavePinged'
  BY DEF Ping
<1>2. ASSUME NEW c \in Sources, LatePing(c) \/ Lose(c) \/ Reconnect(c)
      PROVE  DestinationsHavePinged'
  BY <1>2 DEF LatePing, Lose, Reconnect
<1>3. ASSUME NEW c \in Sources, Receive(c)
      PROVE  DestinationsHavePinged'
  BY <1>3 DEF Receive
<1>4. Judge => DestinationsHavePinged'
  BY DEF Judge, PingDone
<1>5. Announce => DestinationsHavePinged'
  BY DEF Announce, PingDone
<1>6. SendCheck \/ Drop \/ Send \/ Retarget => DestinationsHavePinged'
  BY DEF SendCheck, Drop, Send, Retarget, sinkVars
<1>7. UNCHANGED sinkVars => DestinationsHavePinged'
  BY DEF sinkVars
<1> QED BY <1>1, <1>2, <1>3, <1>4, <1>5, <1>6, <1>7
        DEF Next, Network, Listener, Resume, LaunchAgain, Connect, ResumeDuringPlay, Play,
            PlaySteps, BuildStops, BuildTakesKey, BuildLaunches, PlayDrops, PlayReads,
            PlaySetsKey, PlaySetsIv, Stream, DeriveIv, Push, Deliver, vars

LEMMA PairStep ==
  ASSUME PlayLeavesItsPair, [Next]_vars
  PROVE  PlayLeavesItsPair'
<1> USE DEF PlayLeavesItsPair, payloaderVars, playVars
<1>1. CASE Play \/ PlaySteps
  BY <1>1 DEF Play, PlaySteps, BuildStops, BuildTakesKey, BuildLaunches, PlayDrops, PlayReads,
              PlaySetsKey, PlaySetsIv
<1>2. CASE ~(Play \/ PlaySteps)
  <2>1. UNCHANGED <<play, read, alive, aesKey, aesIv>>
    BY <1>2 DEF Next, SinkAlone, Resume, LaunchAgain, Connect, ResumeDuringPlay, Stream,
                DeriveIv, Push, Deliver, vars
  <2> QED BY <2>1
<1> QED BY <1>1, <1>2

-----------------------------------------------------------------------------
(* Nothing is ever sent to the zeroed destination or to a source that has  *)
(* not pinged, although listener, streaming thread and PLAY take no lock.  *)
THEOREM StreamInvHolds == Spec => []StreamInv
<1>1. Init => TypeOK /\ DestinationsHavePinged
  BY TypeInit DEF Init, SinkInit, DestinationsHavePinged
<1>2. TypeOK /\ DestinationsHavePinged /\ [Next]_vars => (TypeOK /\ DestinationsHavePinged)'
  BY TypeStep, DestinationsStep
<1>3. TypeOK /\ DestinationsHavePinged => StreamInv
  BY DEF DestinationsHavePinged, StreamInv, SendsOnlyToPingers
<1> QED BY <1>1, <1>2, <1>3, PTL DEF Spec

(* A packet begun after PLAY is under the pair that PLAY pushed, whatever  *)
(* was rebuilt and however the streaming thread and PLAY interleave.       *)
THEOREM FreshPairAfterPlayHolds == Spec => FreshPairAfterPlay
<1>1. Init => PlayLeavesItsPair
  BY DEF Init, PlayLeavesItsPair
<1>2. PlayLeavesItsPair /\ [Next]_vars => PlayLeavesItsPair'
  BY PairStep
<1>3. PlayLeavesItsPair /\ [Next]_vars =>
        [Push /\ play = "idle" /\ alive
           => packet'.key = read /\ (packet'.iv = read \/ derived # aesIv)]_vars
  BY DEF PlayLeavesItsPair, Push
<1> QED BY <1>1, <1>2, <1>3, PTL DEF Spec, FreshPairAfterPlay
=============================================================================
