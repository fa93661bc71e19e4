------------------------------- MODULE RtpSink -------------------------------
(***************************************************************************)
(* Where the RTP of one stream goes (UDPSink of media.cpp): the listener   *)
(* thread that discovers the client from its pings, the streaming thread   *)
(* that sends to it, and the RTSP thread whose retarget() drops the        *)
(* destination when a client reconnects.  No lock is taken.                *)
(*                                                                         *)
(* Pings are datagrams: they may be lost, repeated and late.  A source is  *)
(* an address with a port.  AudioResume composes the sink with what it     *)
(* sends and with the resumes.                                             *)
(***************************************************************************)
EXTENDS Naturals

CONSTANTS
  Sources,      (* the sources of pings                                     *)
  NoSource,     (* the zeroed destination of a new sink                     *)
  MaxMoves      (* bound on reconnections and on late pings                 *)

ASSUME SinkAssumption ==
  Sources # {} /\ NoSource \notin Sources /\ MaxMoves \in Nat

VARIABLES
  haveClient,   (* have_client                                              *)
  dest,         (* dest                                                     *)
  listener,     (* listener thread: idle, judging a ping, or has stored it  *)
  from,         (* the source of the ping being handled                     *)
  first,        (* bool first                                               *)
  sender,       (* streaming thread: idle, or has found have_client set     *)
  wire,         (* pings under way                                          *)
  client,       (* the source that the client in session pings from         *)
  pinged,       (* history: sources that have pinged                        *)
  moves         (* history: reconnections and late pings so far             *)

threadVars == <<haveClient, dest, listener, from, first, sender>>
networkVars == <<wire, client, pinged, moves>>
sinkVars == <<threadVars, networkVars>>

SinkTypeOK ==
  /\ haveClient \in BOOLEAN
  /\ {dest, from} \subseteq Sources \cup {NoSource}
  /\ listener \in {"idle", "judge", "announce"} /\ first \in BOOLEAN
  /\ sender \in {"idle", "send"}
  /\ wire \subseteq Sources /\ pinged \subseteq Sources
  /\ client \in Sources
  /\ moves \in 0 .. MaxMoves

(* Which one does not matter.                                              *)
FirstSource == CHOOSE c \in Sources : TRUE

SinkInit ==
  /\ haveClient = FALSE
  /\ dest = NoSource
  /\ listener = "idle" /\ from = NoSource /\ first = FALSE
  /\ sender = "idle"
  /\ wire = {}
  /\ client = FirstSource
  /\ pinged = {}
  /\ moves = 0

(***************************************************************************)
(* The clients and the network.                                            *)
(***************************************************************************)
Ping ==
  /\ wire' = wire \cup {client}
  /\ pinged' = pinged \cup {client}
  /\ UNCHANGED <<threadVars, client, moves>>

(* A ping of an earlier source that was delayed, or repeated on the way.   *)
LatePing(c) ==
  /\ c \in pinged /\ moves < MaxMoves
  /\ wire' = wire \cup {c}
  /\ moves' = moves + 1
  /\ UNCHANGED <<threadVars, client, pinged>>

Lose(c) ==
  /\ c \in wire
  /\ wire' = wire \ {c}
  /\ UNCHANGED <<threadVars, client, pinged, moves>>

(* The client reconnects, or another one resumes, from this source on.     *)
Reconnect(c) ==
  /\ moves < MaxMoves
  /\ client' = c
  /\ moves' = moves + 1
  /\ UNCHANGED <<threadVars, wire, pinged>>

(***************************************************************************)
(* The listener thread.                                                    *)
(***************************************************************************)
Receive(c) ==
  /\ listener = "idle"
  /\ c \in wire
  /\ wire' = wire \ {c}
  /\ from' = c
  /\ first' = ~haveClient
  /\ listener' = "judge"
  /\ UNCHANGED <<haveClient, dest, sender, client, pinged, moves>>

(* Faulty variant: only the first ping counts.                             *)
MovedNever == FALSE

Moved == ~first /\ dest # from

PingDone == listener' = "idle" /\ from' = NoSource /\ first' = FALSE

(* Faulty variant: the flag is set before the destination is.              *)
JudgeFlagFirst ==
  /\ listener = "judge"
  /\ haveClient' = TRUE
  /\ IF first \/ Moved
       THEN listener' = "announce" /\ UNCHANGED <<from, first>>
       ELSE PingDone
  /\ UNCHANGED <<dest, sender, networkVars>>

Judge ==
  /\ listener = "judge"
  /\ IF first \/ Moved
       THEN dest' = from /\ listener' = "announce" /\ UNCHANGED <<from, first>>
       ELSE PingDone /\ UNCHANGED dest
  /\ UNCHANGED <<haveClient, sender, networkVars>>

Announce ==
  /\ listener = "announce"
  /\ haveClient' = TRUE
  /\ PingDone
  /\ UNCHANGED <<dest, sender, networkVars>>

Listener == (\E c \in Sources : Receive(c)) \/ Judge \/ Announce

(***************************************************************************)
(* The streaming thread, for each packet, and the RTSP thread.             *)
(***************************************************************************)
SendCheck ==
  /\ sender = "idle" /\ haveClient
  /\ sender' = "send"
  /\ UNCHANGED <<haveClient, dest, listener, from, first, networkVars>>

Drop ==
  /\ sender = "idle" /\ ~haveClient
  /\ UNCHANGED sinkVars

(* sendto(dest).                                                           *)
Send ==
  /\ sender = "send"
  /\ sender' = "idle"
  /\ UNCHANGED <<haveClient, dest, listener, from, first, networkVars>>

Retarget ==
  /\ haveClient' = FALSE
  /\ UNCHANGED <<dest, listener, from, first, sender, networkVars>>
-----------------------------------------------------------------------------
(***************************************************************************)
(* Properties.                                                             *)
(***************************************************************************)

(* Safety.  Nothing is sent to the zeroed destination or to a source that  *)
(* has not pinged.  Once the streaming thread, which takes no lock, has    *)
(* seen the flag up, the destination it will read is good.                 *)
SendsOnlyToPingers == sender = "send" => dest \in pinged
=============================================================================
