----------------------------- MODULE RtpStreams -----------------------------
(***************************************************************************)
(* The two RTP streams of a session, each numbered by a payloader of its   *)
(* own on a streaming thread of its own.                                   *)
(*                                                                         *)
(* They share no state, so every behaviour of one is met with the other at *)
(* rest: their steps need not be interleaved.                              *)
(***************************************************************************)
EXTENDS VideoPayloader, AudioPayloader

rtpVars == <<videoVars, audioVars>>

RtpInit == VideoInit /\ AudioInit

AudioAtRest == slots[0] = Empty
VideoAtRest == pkts = <<>>

RtpNext ==
  \/ AudioAtRest /\ PushVideo /\ UNCHANGED audioVars
  \/ VideoAtRest /\ PushAudio /\ UNCHANGED videoVars

RtpSpec == RtpInit /\ [][RtpNext]_rtpVars
=============================================================================
