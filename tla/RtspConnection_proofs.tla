------------------------- MODULE RtspConnection_proofs -------------------------
(***************************************************************************)
(* Theorems about RtspConnection, for any connections and any length of    *)
(* the body.                                                               *)
(***************************************************************************)
EXTENDS RtspConnection, TLAPS

(* A reply ends its connection, and the thread is busy with a PLAY that    *)
(* has not been answered.                                                  *)
RepliesEnd ==
  /\ \A c \in Conns : reply[c] # 0 => stage[c] = "closed"
  /\ \A c \in Conns : busy = c => stage[c] = "starting" /\ verb[c] = "PLAY"

-----------------------------------------------------------------------------
(***************************************************************************)
(* Reads.                                                                  *)
(***************************************************************************)

(* What is not Incomplete from an unsplit header on holds all parameters.  *)
LEMMA WholeBody ==
  ASSUME NEW total \in Nat, total >= ValueEnd, ~Incomplete("ANNOUNCE", total)
  PROVE  total >= ParametersEnd
BY RtspAssumption
DEF Incomplete, TotalLength, ParametersEnd, HeaderEnd, LineEnd, ValueEnd, KeyEnd

LEMMA Lengths == \A v : Length(v) \in Nat
BY RtspAssumption DEF Verbs, Length, HeaderEnd, LineEnd, ValueEnd, KeyEnd, SeqEnd

LEMMA TypeInit == Init => TypeOK
<1> SUFFICES ASSUME Init PROVE TypeOK
  OBVIOUS
<1>1. ASSUME NEW c \in Conns
      PROVE  prev_read[c] <= sent[c] /\ sent[c] <= Length(verb[c])
  BY Lengths DEF Init
<1>2. sent \in [Conns -> Nat] /\ prev_read \in [Conns -> Nat]
  BY DEF Init
<1> QED BY <1>1, <1>2 DEF Init, TypeOK, Counted, Stages, Params

(* What a read may do to its connection and to the session.                *)
LEMMA ReadOutcomes ==
  ASSUME NEW c \in Conns, Read(c)
  PROVE  /\ UNCHANGED <<verb, sent, shut, registered>>
         /\ \E total \in (prev_read[c] + 1) .. sent[c] :
              /\ split' = [split EXCEPT ![c] = @ \/ total < ValueEnd]
              /\ prev_read' = [prev_read EXCEPT ![c] = total]
              /\ \/ UNCHANGED <<stage, reply, busy, announced, playing>>
                 \/ Drop(c)
                 \/ Answer(c, 400) /\ UNCHANGED <<busy, announced, playing>>
                 \/ Serve(c, total) /\ ~Incomplete(verb[c], total)
BY DEF Read

LEMMA CountedStep ==
  ASSUME TypeOK, [Next]_vars
  PROVE  Counted'
<1> SUFFICES ASSUME NEW x \in Conns
             PROVE  prev_read'[x] <= sent'[x] /\ sent'[x] <= Length(verb'[x])
  BY DEF Counted
<1> USE DEF TypeOK, Counted
<1>1. /\ sent[x] \in Nat /\ prev_read[x] \in Nat
      /\ prev_read[x] <= sent[x] /\ sent[x] <= Length(verb[x])
  OBVIOUS
<1>2. ASSUME NEW c \in Conns, NEW n \in 1 .. (HeaderEnd + BodyLength), Segment(c, n)
      PROVE  prev_read'[x] <= sent'[x] /\ sent'[x] <= Length(verb'[x])
  BY <1>1, <1>2, Lengths DEF Segment
<1>3. ASSUME NEW c \in Conns, Read(c)
      PROVE  prev_read'[x] <= sent'[x] /\ sent'[x] <= Length(verb'[x])
  BY <1>1, <1>3, ReadOutcomes
<1>4. CASE UNCHANGED <<verb, sent, prev_read>>
  BY <1>1, <1>4
<1> QED BY <1>2, <1>3, <1>4
        DEF Next, Handle, Connect, Shut, Accept, ReadError, Played, Unregister, Done, conns, vars

LEMMA TypeStep ==
  ASSUME TypeOK, [Next]_vars
  PROVE  TypeOK'
<1> Counted'
  BY CountedStep
<1> USE DEF TypeOK, Stages, Params, conns
<1>1. ASSUME NEW c \in Conns, Connect(c)
      PROVE  TypeOK'
  BY <1>1 DEF Connect
<1>2. ASSUME NEW c \in Conns, NEW n \in 1 .. (HeaderEnd + BodyLength), Segment(c, n)
      PROVE  TypeOK'
  <2>1. n \in Nat
    BY <1>2 DEF Segment
  <2> QED BY <1>2, <2>1 DEF Segment
<1>3. ASSUME NEW c \in Conns, Shut(c)
      PROVE  TypeOK'
  BY <1>3 DEF Shut
<1>4. ASSUME NEW c \in Conns, Accept(c)
      PROVE  TypeOK'
  <2>1. PICK s \in Stages : stage' = [stage EXCEPT ![c] = s]
    BY <1>4 DEF Accept
  <2> QED BY <1>4, <2>1 DEF Accept
<1>5. ASSUME NEW c \in Conns, Read(c)
      PROVE  TypeOK'
  <2>1. PICK total \in (prev_read[c] + 1) .. sent[c] :
          /\ split' = [split EXCEPT ![c] = @ \/ total < ValueEnd]
          /\ prev_read' = [prev_read EXCEPT ![c] = total]
          /\ \/ UNCHANGED <<stage, reply, busy, announced, playing>>
             \/ Drop(c)
             \/ Answer(c, 400) /\ UNCHANGED <<busy, announced, playing>>
             \/ Serve(c, total)
    BY <1>5, ReadOutcomes
  <2>2. prev_read' \in [Conns -> Nat] /\ split' \in [Conns -> BOOLEAN]
    BY <2>1
  <2>3. stage' = stage \/ \E s \in Stages : stage' = [stage EXCEPT ![c] = s]
    BY <2>1 DEF Serve, Drop, Answer
  <2>4. reply' = reply \/ \E r \in {200, 400} : reply' = [reply EXCEPT ![c] = r]
    BY <2>1 DEF Serve, Drop, Answer
  <2>5. /\ busy' = busy \/ busy' = c
        /\ UNCHANGED playing \/ playing' = TRUE
    BY <2>1 DEF Serve, Drop, Answer
  <2>6. announced' \in Params
    BY <2>1 DEF Serve, Drop, Answer
  <2>7. UNCHANGED <<verb, sent, shut, registered>>
    BY <1>5, ReadOutcomes
  <2>8. stage' \in [Conns -> Stages]
    BY <2>3
  <2>9. reply' \in [Conns -> {0, 200, 400}]
    BY <2>4
  <2>10. busy' \in Conns \cup {NoConn}
    BY <2>5
  <2>11. playing' \in BOOLEAN
    <3>1. CASE UNCHANGED playing
      BY <3>1
    <3>2. CASE playing' = TRUE
      BY <3>2
    <3> QED BY <2>5, <3>1, <3>2
  <2>12. /\ verb' \in [Conns -> Verbs] /\ sent' \in [Conns -> Nat]
         /\ shut' \in [Conns -> BOOLEAN] /\ registered' \in BOOLEAN
    BY <2>7
  <2> QED BY <2>2, <2>6, <2>8, <2>9, <2>10, <2>11, <2>12
<1>6. ASSUME NEW c \in Conns, ReadError(c)
      PROVE  TypeOK'
  BY <1>6 DEF ReadError, Answer
<1>7. ASSUME NEW c \in Conns, Played(c)
      PROVE  TypeOK'
  BY <1>7 DEF Played, Answer
<1>8. CASE Unregister
  BY <1>8 DEF Unregister
<1>9. CASE UNCHANGED vars
  BY <1>9 DEF vars
<1> QED BY <1>1, <1>2, <1>3, <1>4, <1>5, <1>6, <1>7, <1>8, <1>9 DEF Next, Handle, Done

-----------------------------------------------------------------------------
(***************************************************************************)
(* The invariants.                                                         *)
(***************************************************************************)
LEMMA RepliesStep ==
  ASSUME TypeOK, RepliesEnd, [Next]_vars
  PROVE  RepliesEnd'
<1> USE RtspAssumption DEF TypeOK, RepliesEnd, conns
<1>1. ASSUME NEW c \in Conns, Connect(c) \/ Shut(c) \/ Accept(c)
      PROVE  RepliesEnd'
  BY <1>1 DEF Connect, Shut, Accept
<1>2. ASSUME NEW c \in Conns, NEW n \in 1 .. (HeaderEnd + BodyLength), Segment(c, n)
      PROVE  RepliesEnd'
  BY <1>2 DEF Segment
<1>3. ASSUME NEW c \in Conns, Read(c)
      PROVE  RepliesEnd'
  <2>1. reply[c] = 0 /\ busy = NoConn /\ UNCHANGED verb
    BY <1>3 DEF Read
  <2>2. PICK total \in (prev_read[c] + 1) .. sent[c] :
          \/ UNCHANGED <<stage, reply, busy, announced, playing>>
          \/ Drop(c)
          \/ Answer(c, 400) /\ UNCHANGED <<busy, announced, playing>>
          \/ Serve(c, total)
    BY <1>3 DEF Read
  <2> QED BY <2>1, <2>2 DEF Serve, Drop, Answer
<1>4. ASSUME NEW c \in Conns, ReadError(c) \/ Played(c)
      PROVE  RepliesEnd'
  BY <1>4 DEF ReadError, Played, Answer
<1>5. CASE Unregister \/ UNCHANGED vars
  BY <1>5 DEF Unregister, vars
<1> QED BY <1>1, <1>2, <1>3, <1>4, <1>5 DEF Next, Handle, Done

LEMMA WholeBodyStep ==
  ASSUME TypeOK, RepliesEnd, WholeHeaderMeansWholeBody, [Next]_vars
  PROVE  WholeHeaderMeansWholeBody'
<1> SUFFICES ASSUME \A x \in Conns : verb'[x] = "ANNOUNCE" => ~split'[x],
                    announced # "cut",
                    \A x \in Conns : verb[x] = "ANNOUNCE" /\ reply[x] = 200
                                     => announced = "client"
             PROVE  /\ announced' # "cut"
                    /\ \A x \in Conns : verb'[x] = "ANNOUNCE" /\ reply'[x] = 200
                                        => announced' = "client"
  <2>1. verb' = verb
    BY DEF Next, Handle, Connect, Segment, Shut, Accept, Read, ReadError, Played, Unregister,
           Done, conns, vars
  <2>2. ASSUME NEW x \in Conns, ~split'[x]
        PROVE  ~split[x]
    <3>1. ASSUME NEW c \in Conns, Read(c)
          PROVE  ~split[x]
      <4>1. PICK total : split' = [split EXCEPT ![c] = @ \/ total < ValueEnd]
        BY <3>1, ReadOutcomes
      <4> QED BY <2>2, <4>1 DEF TypeOK
    <3>2. CASE UNCHANGED split
      BY <2>2, <3>2
    <3> QED BY <3>1, <3>2
            DEF Next, Handle, Connect, Segment, Shut, Accept, ReadError, Played, Unregister,
                Done, conns, vars
  <2> QED BY <2>1, <2>2 DEF WholeHeaderMeansWholeBody
<1> USE DEF TypeOK, conns
<1>1. ASSUME NEW c \in Conns, Read(c)
      PROVE  /\ announced' # "cut"
             /\ \A x \in Conns : verb'[x] = "ANNOUNCE" /\ reply'[x] = 200
                                 => announced' = "client"
  <2>1. PICK total \in (prev_read[c] + 1) .. sent[c] :
          /\ split' = [split EXCEPT ![c] = @ \/ total < ValueEnd]
          /\ \/ UNCHANGED <<stage, reply, busy, announced, playing>>
             \/ Drop(c)
             \/ Answer(c, 400) /\ UNCHANGED <<busy, announced, playing>>
             \/ Serve(c, total) /\ ~Incomplete(verb[c], total)
    BY <1>1, ReadOutcomes
  <2>2. UNCHANGED verb
    BY <1>1, ReadOutcomes
  <2>3. CASE Serve(c, total) /\ ~Incomplete(verb[c], total) /\ verb[c] = "ANNOUNCE"
    <3>1. split'[c] = (split[c] \/ total < ValueEnd)
      BY <2>1
    <3>2. total \in Nat /\ ValueEnd \in Nat /\ ~(total < ValueEnd)
      <4>1. verb'[c] = "ANNOUNCE" /\ prev_read[c] \in Nat
        BY <2>2, <2>3
      <4>2. ~split'[c]
        BY <4>1
      <4>3. ~(total < ValueEnd)
        BY <3>1, <4>2
      <4>4. ValueEnd \in Nat
        BY DEF ValueEnd, KeyEnd
      <4> QED BY <4>1, <4>3, <4>4
    <3>3. total >= ValueEnd
      BY <3>2
    <3>4. total >= ParametersEnd
      BY <2>3, <3>2, <3>3, WholeBody
    <3>5. announced' = "client"
      BY <2>3, <3>4 DEF Serve
    <3> QED BY <3>5
  <2>4. CASE Serve(c, total) /\ verb[c] # "ANNOUNCE"
    <3>1. announced' = announced /\ \A x \in Conns \ {c} : reply'[x] = reply[x]
      BY <2>4 DEF Serve, Answer
    <3> QED BY <2>2, <2>4, <3>1
  <2>5. CASE UNCHANGED <<stage, reply, busy, announced, playing>> \/ Drop(c)
    BY <2>2, <2>5 DEF Drop
  <2>6. CASE Answer(c, 400) /\ UNCHANGED <<busy, announced, playing>>
    BY <2>2, <2>6 DEF Answer
  <2> QED BY <2>1, <2>3, <2>4, <2>5, <2>6
<1>2. ASSUME NEW c \in Conns, ReadError(c)
      PROVE  /\ announced' # "cut"
             /\ \A x \in Conns : verb'[x] = "ANNOUNCE" /\ reply'[x] = 200
                                 => announced' = "client"
  BY <1>2 DEF ReadError, Answer
<1>3. ASSUME NEW c \in Conns, Played(c)
      PROVE  /\ announced' # "cut"
             /\ \A x \in Conns : verb'[x] = "ANNOUNCE" /\ reply'[x] = 200
                                 => announced' = "client"
  BY <1>3 DEF Played, Answer, RepliesEnd
<1>4. CASE UNCHANGED <<verb, reply, announced>>
  BY <1>4
<1> QED BY <1>1, <1>2, <1>3, <1>4
        DEF Next, Handle, Connect, Segment, Shut, Accept, Unregister, Done, vars

-----------------------------------------------------------------------------
IInv == TypeOK /\ RepliesEnd /\ WholeHeaderMeansWholeBody

LEMMA Inductive ==
  /\ Init => IInv
  /\ IInv /\ [Next]_vars => IInv'
<1>1. Init => RepliesEnd /\ WholeHeaderMeansWholeBody
  BY RtspAssumption DEF Init, RepliesEnd, WholeHeaderMeansWholeBody
<1> QED BY <1>1, TypeInit, TypeStep, RepliesStep, WholeBodyStep DEF IInv

(* An ANNOUNCE whose header came in one piece is applied whole, into       *)
(* however many segments its body, of whatever length, is cut.             *)
THEOREM ReadInvHolds == Spec => []ReadInv
<1>1. IInv => ReadInv
  BY DEF IInv, ReadInv
<1> QED BY Inductive, <1>1, PTL DEF Spec

(* A connection is answered once and not acted upon afterwards.            *)
THEOREM AnsweredOnceHolds == Spec => AnsweredOnce
<1>1. IInv /\ [Next]_vars =>
        [\A c \in Conns :
           reply[c] # 0 => UNCHANGED <<reply[c], prev_read[c], stage[c]>>]_vars
  <2>1. SUFFICES ASSUME IInv, Next, NEW c \in Conns, reply[c] # 0
                 PROVE  UNCHANGED <<reply[c], prev_read[c], stage[c]>>
    OBVIOUS
  <2> USE RtspAssumption DEF IInv, TypeOK, conns
  <2>2. stage[c] = "closed" /\ busy # c
    BY <2>1 DEF RepliesEnd
  <2>3. ASSUME NEW d \in Conns, Connect(d)
        PROVE  UNCHANGED <<reply[c], prev_read[c], stage[c]>>
    BY <2>2, <2>3 DEF Connect
  <2>4. ASSUME NEW d \in Conns, Accept(d)
        PROVE  UNCHANGED <<reply[c], prev_read[c], stage[c]>>
    <3>1. PICK s : stage' = [stage EXCEPT ![d] = s]
      BY <2>4 DEF Accept
    <3> QED BY <2>2, <2>4, <3>1 DEF Accept
  <2>5. ASSUME NEW d \in Conns, ReadError(d)
        PROVE  UNCHANGED <<reply[c], prev_read[c], stage[c]>>
    BY <2>2, <2>5 DEF ReadError, Answer
  <2>6. ASSUME NEW d \in Conns, Played(d)
        PROVE  UNCHANGED <<reply[c], prev_read[c], stage[c]>>
    BY <2>2, <2>6 DEF Played, Answer
  <2>7. ASSUME NEW d \in Conns, Read(d)
        PROVE  UNCHANGED <<reply[c], prev_read[c], stage[c]>>
    <3>1. d # c
      BY <2>2, <2>7 DEF Read
    <3>2. PICK total \in (prev_read[d] + 1) .. sent[d] :
            /\ prev_read' = [prev_read EXCEPT ![d] = total]
            /\ \/ UNCHANGED <<stage, reply, busy, announced, playing>>
               \/ Drop(d)
               \/ Answer(d, 400) /\ UNCHANGED <<busy, announced, playing>>
               \/ Serve(d, total)
      BY <2>7, ReadOutcomes
    <3>3. prev_read'[c] = prev_read[c]
      BY <3>1, <3>2
    <3>4. CASE UNCHANGED <<stage, reply>>
      BY <3>3, <3>4
    <3>5. CASE Drop(d)
      BY <3>1, <3>3, <3>5 DEF Drop
    <3>6. ASSUME NEW status, Answer(d, status)
          PROVE  UNCHANGED <<reply[c], prev_read[c], stage[c]>>
      BY <3>1, <3>3, <3>6 DEF Answer
    <3>7. CASE Serve(d, total) /\ verb[d] = "PLAY"
      <4>1. stage' = [stage EXCEPT ![d] = "starting"] /\ UNCHANGED reply
        BY <3>7 DEF Serve
      <4> QED BY <3>1, <3>3, <4>1
    <3>8. Serve(d, total) => Answer(d, 200) \/ verb[d] = "PLAY"
      BY DEF Serve
    <3> QED BY <3>2, <3>4, <3>5, <3>6, <3>7, <3>8
  <2>8. CASE UNCHANGED <<reply, prev_read, stage>>
    BY <2>8
  <2> QED BY <2>1, <2>3, <2>4, <2>5, <2>6, <2>7, <2>8
          DEF Next, Handle, Segment, Shut, Unregister, Done, vars
<1> QED BY Inductive, <1>1, PTL DEF Spec, AnsweredOnce
=============================================================================
