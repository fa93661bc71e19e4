---------------------------- MODULE RtspConnection ----------------------------
(***************************************************************************)
(* The RTSP server's connections (rtsp_server.cpp).  Each request comes on *)
(* a connection of its own, in as many TCP segments as the network makes   *)
(* of it; one thread runs all handlers, and is busy while a PLAY starts    *)
(* the media.                                                              *)
(*                                                                         *)
(* A request is known by the byte at which each of its parts is complete.  *)
(* OPTIONS, DESCRIBE and SETUP change nothing and end like an ANNOUNCE     *)
(* without a body: "OTHER" stands for them.                                *)
(*                                                                         *)
(* There is no timeout here because the code's never expires: the wait on  *)
(* deadline_ is started before expires_after(), which cancels it.          *)
(***************************************************************************)
EXTENDS Naturals

CONSTANTS
  Conns,        (* connections, one request each                            *)
  BodyLength,   (* of an ANNOUNCE                                           *)
  NoConn        (* no handler is running                                    *)

ASSUME RtspAssumption == BodyLength \in Nat \ {0} /\ NoConn \notin Conns

Verbs == {"ANNOUNCE", "PLAY", "OTHER"}

(* Bytes up to "CSeq:", then up to "Content-length: ", its two digits, the *)
(* end of that line and the blank line.                                    *)
SeqEnd == 1
KeyEnd == 2
ValueEnd == KeyEnd + 2
LineEnd == ValueEnd + 2
HeaderEnd == LineEnd + 2

(* The body ends with an "m=" line, which holds no parameter.              *)
ParametersEnd == HeaderEnd + BodyLength - 2

Length(v) == IF v = "ANNOUNCE" THEN HeaderEnd + BodyLength ELSE SeqEnd + 1

VARIABLES
  stage,        (* of each connection                                       *)
  verb,         (* its request                                              *)
  sent,         (* bytes the client has sent                                *)
  prev_read,    (* bytes the server has kept                                *)
  shut,         (* the client has closed its side                           *)
  reply,        (* status of the response, 0 when none was sent             *)
  split,        (* history: a read of this request ended inside its header  *)
  busy,         (* connection whose PLAY occupies the thread                *)
  announced,    (* what ANNOUNCE left in the session                        *)
  playing,      (* StreamSession::playing                                   *)
  registered    (* get_for_rtsp finds the session                           *)

conns == <<stage, verb, sent, prev_read, shut, reply, split>>
vars == <<conns, busy, announced, playing, registered>>

Stages == {"idle", "connected", "reading", "starting", "closed"}

(* "cut": some of the client's parameters were not there when it was read. *)
Params == {"unset", "client", "cut"}

Counted == \A c \in Conns : prev_read[c] <= sent[c] /\ sent[c] <= Length(verb[c])

TypeOK ==
  /\ stage \in [Conns -> Stages]
  /\ verb \in [Conns -> Verbs]
  /\ sent \in [Conns -> Nat] /\ prev_read \in [Conns -> Nat]
  /\ Counted
  /\ shut \in [Conns -> BOOLEAN] /\ split \in [Conns -> BOOLEAN]
  /\ reply \in [Conns -> {0, 200, 400}]
  /\ busy \in Conns \cup {NoConn}
  /\ announced \in Params
  /\ playing \in BOOLEAN /\ registered \in BOOLEAN

Init ==
  /\ stage = [c \in Conns |-> "idle"]
  /\ verb \in [Conns -> Verbs]
  /\ sent = [c \in Conns |-> 0]
  /\ prev_read = [c \in Conns |-> 0]
  /\ shut = [c \in Conns |-> FALSE]
  /\ reply = [c \in Conns |-> 0]
  /\ split = [c \in Conns |-> FALSE]
  /\ busy = NoConn
  /\ announced = "unset"
  /\ playing = FALSE
  /\ registered = TRUE

-----------------------------------------------------------------------------
(***************************************************************************)
(* The client and the network.                                             *)
(***************************************************************************)
Connect(c) ==
  /\ stage[c] = "idle"
  /\ stage' = [stage EXCEPT ![c] = "connected"]
  /\ UNCHANGED <<verb, sent, prev_read, shut, reply, split, busy, announced, playing,
                 registered>>

(* One more segment arrives.                                               *)
Segment(c, n) ==
  /\ stage[c] \in {"connected", "reading"}
  /\ ~shut[c]
  /\ n \in (sent[c] + 1) .. Length(verb[c])
  /\ sent' = [sent EXCEPT ![c] = n]
  /\ UNCHANGED <<stage, verb, prev_read, shut, reply, split, busy, announced, playing,
                 registered>>

(* The client hangs up, or its connection is reset.                        *)
Shut(c) ==
  /\ stage[c] \in {"connected", "reading"}
  /\ ~shut[c]
  /\ shut' = [shut EXCEPT ![c] = TRUE]
  /\ UNCHANGED <<stage, verb, sent, prev_read, reply, split, busy, announced, playing,
                 registered>>

(***************************************************************************)
(* What a read of `total' bytes in all amounts to.                         *)
(***************************************************************************)

(* Faulty variants: the body alone is counted; a header line too many is.  *)
TotalLengthBody == BodyLength
TotalLengthLong == BodyLength + LineEnd + 4

(* Content-length, plus where its value ends, plus two: the blank line is  *)
(* not counted, and the last two bytes of the body, which say nothing the  *)
(* session keeps, are not waited for.                                      *)
TotalLength == BodyLength + ValueEnd + 2

(* More bytes are needed than have been read.  Without the end of its line *)
(* cl_end is npos and the sum wraps to the value plus one: that is still   *)
(* more than a header when all digits are there, and less when they are    *)
(* not (1308 and 1, 13, 130).                                              *)
Incomplete(v, total) ==
  v = "ANNOUNCE" /\ total >= ValueEnd /\ total < TotalLength

(* "Content-length: " is there and not one digit: std::stoi throws.        *)
Throws(v, total) == v = "ANNOUNCE" /\ total = KeyEnd

(* The parser needs the request line and CSeq, and takes what follows as   *)
(* it comes.                                                               *)
Parses(total) == total > SeqEnd

-----------------------------------------------------------------------------
(***************************************************************************)
(* The server; handlers run one at a time.                                 *)
(***************************************************************************)

(* handle_accept and start(): a client that is already gone is dropped.    *)
Accept(c) ==
  /\ busy = NoConn
  /\ stage[c] = "connected"
  /\ \/ stage' = [stage EXCEPT ![c] = "reading"]
     \/ /\ shut[c]
        /\ stage' = [stage EXCEPT ![c] = "closed"]
  /\ UNCHANGED <<verb, sent, prev_read, shut, reply, split, busy, announced, playing,
                 registered>>

(* Faulty variant: a request that is answered goes on being read.          *)
AnswerOnly(c, status) ==
  /\ reply' = [reply EXCEPT ![c] = @ + status]
  /\ UNCHANGED stage

Answer(c, status) ==
  /\ reply' = [reply EXCEPT ![c] = status]
  /\ stage' = [stage EXCEPT ![c] = "closed"]

(* message_handler, for a request that was parsed from `total' bytes.      *)
Serve(c, total) ==
  \/ /\ verb[c] = "OTHER"
     /\ Answer(c, 200)
     /\ UNCHANGED <<busy, announced, playing>>
  \/ /\ verb[c] = "ANNOUNCE"
     /\ announced' = IF total >= ParametersEnd THEN "client" ELSE "cut"
     /\ Answer(c, 200)
     /\ UNCHANGED <<busy, playing>>
  \/ /\ verb[c] = "PLAY"
     /\ playing' = TRUE
     /\ busy' = c
     /\ stage' = [stage EXCEPT ![c] = "starting"]
     /\ UNCHANGED <<reply, announced>>

(* No reply: a throwing handler, or a request for no known session.        *)
Drop(c) ==
  /\ stage' = [stage EXCEPT ![c] = "closed"]
  /\ UNCHANGED <<reply, busy, announced, playing>>

(* The completion of async_read: read on, drop, refuse or handle.          *)
Read(c) ==
  /\ busy = NoConn
  /\ stage[c] = "reading"
  /\ \E total \in (prev_read[c] + 1) .. sent[c] :
       /\ split' = [split EXCEPT ![c] = @ \/ total < ValueEnd]
       /\ prev_read' = [prev_read EXCEPT ![c] = total]
       /\ IF Incomplete(verb[c], total)
            THEN UNCHANGED <<stage, reply, busy, announced, playing>>
          ELSE IF Throws(verb[c], total) THEN Drop(c)
          ELSE IF ~Parses(total)
            THEN Answer(c, 400) /\ UNCHANGED <<busy, announced, playing>>
          ELSE IF registered THEN Serve(c, total) ELSE Drop(c)
  /\ UNCHANGED <<verb, sent, shut, registered>>

(* The rest of the request never comes: 400 to whoever still listens.      *)
ReadError(c) ==
  /\ busy = NoConn
  /\ stage[c] = "reading"
  /\ shut[c] /\ prev_read[c] = sent[c]
  /\ Answer(c, 400)
  /\ UNCHANGED <<verb, sent, prev_read, shut, split, busy, announced, playing,
                 registered>>

(* on_play returns, whatever became of the media, and PLAY is answered.    *)
Played(c) ==
  /\ busy = c
  /\ busy' = NoConn
  /\ Answer(c, 200)
  /\ UNCHANGED <<verb, sent, prev_read, shut, split, announced, playing, registered>>

(* /cancel, on another thread, removes the session.                        *)
Unregister ==
  /\ registered
  /\ registered' = FALSE
  /\ UNCHANGED <<conns, busy, announced, playing>>

Handle(c) == Accept(c) \/ Read(c) \/ ReadError(c) \/ Played(c)

(* Every request has been dealt with.                                      *)
Done ==
  /\ \A c \in Conns : stage[c] = "closed"
  /\ UNCHANGED vars

Next ==
  \/ \E c \in Conns :
       \/ Connect(c)
       \/ \E n \in 1 .. (HeaderEnd + BodyLength) : Segment(c, n)
       \/ Shut(c)
       \/ Handle(c)
  \/ Unregister
  \/ Done

Spec == Init /\ [][Next]_vars

(* The io_context runs every ready handler.  Clients promise nothing.      *)
FairSpec == Spec /\ \A c \in Conns : SF_vars(Handle(c))
-----------------------------------------------------------------------------
(***************************************************************************)
(* Properties.                                                             *)
(***************************************************************************)

(* Safety.  "Keep reading until we have Content-length bytes", as far as   *)
(* it holds: with an unsplit header the body is waited for, however many   *)
(* segments it comes in.                                                   *)
WholeHeaderMeansWholeBody ==
  (\A c \in Conns : verb[c] = "ANNOUNCE" => ~split[c]) =>
    /\ announced # "cut"
    /\ \A c \in Conns :
         verb[c] = "ANNOUNCE" /\ reply[c] = 200 => announced = "client"

(* Safety.  Types and the above.                                           *)
ReadInv == TypeOK /\ WholeHeaderMeansWholeBody

(* Action.  A connection is answered at most once, and an answered one is  *)
(* never acted upon again, by whatever bytes still arrive on it.           *)
AnsweredOnce ==
  [][\A c \in Conns :
       reply[c] # 0 => UNCHANGED <<reply[c], prev_read[c], stage[c]>>]_vars

(* Liveness.  A request whose last byte has been sent is dealt with, while *)
(* the client keeps its side open and waits: the server never waits for    *)
(* bytes that will not come, and a PLAY that occupies the thread or a      *)
(* handler that throws does not keep the others from their turn.           *)
SentRequestsEnd ==
  \A c \in Conns : sent[c] = Length(verb[c]) ~> stage[c] = "closed"

(***************************************************************************)
(* Statement of the repository that the code does not keep; no run checks  *)
(* it, README says what breaks it.                                         *)
(***************************************************************************)

(* Safety.  "keep reading until we have Content-length bytes"              *)
(* (rtsp_server.cpp): an ANNOUNCE that was answered 200 has left all of    *)
(* the client's parameters in the session.                                 *)
AnnounceApplied == announced # "cut"
=============================================================================
