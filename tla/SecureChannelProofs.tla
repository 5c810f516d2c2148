------------------------ MODULE SecureChannelProofs ------------------------
(* Proofs about SecureChannel, for every bound on the frames. *)
EXTENDS SecureChannel, TLAPS

CipherMessage == [kind : {"cipher"}, key : {"c2s", "s2c"}, number : Nat, tag : {"message", "final"}]
Message == {Hello, Header, Length} \cup CipherMessage

\* The variables as functions of the ends.
Shapes ==
  /\ pipe \in [Side -> Seq(Message)] /\ received \in [Side -> Seq(Nat)]
  /\ tx \in [Side -> Nat] /\ rx \in [Side -> Nat] /\ sent \in [Side -> Nat]

\* What may be on its way to s: frames its peer counts as sent, or its last one.
Sound(s, m) ==
  LET o == Other(s) IN
  m.kind = "cipher" =>
     /\ m.key = TxKey(o)
     /\ IF m.tag = "message" THEN m.number \in 1..sent[o] ELSE m.number = sent[o] + 1 /\ closed[o]
Carried(s) == \A i \in 1..Len(pipe[s]) : Sound(s, pipe[s][i])

\* An end that closed makes no more calls, and only such a one has shut its half.
\* Who is past the handshake accepted its peer.
Standing(s) ==
  /\ closed[s] => pc[s] \in {"up", "gone"}
  /\ shut[s] => closed[s] \/ pc[s] = "gone"
  /\ pc[s] \notin {"start", "helloSent", "gone"} \/ sent[s] > 0 \/ received[s] # <<>> => trusts[s]

\* Frames are numbered as they are sent, as long as the peer is there to read them.
Numbered(s) ==
  /\ sent[s] < tx[s] /\ (pc[s] = "sending" => sent[s] + 2 <= tx[s] /\ tx[s] <= MaxFrames + 1)
  /\ ~closed[s] /\ ~shut[Other(s)] => tx[s] = IF pc[s] \in {"sending", "closing"} THEN sent[s] + 2 ELSE sent[s] + 1

\* What has been received is numbered from 1 to before rx.
Counted(s) ==
  /\ rx[s] = IF final[s] THEN Len(received[s]) + 2 ELSE Len(received[s]) + 1
  /\ \A i \in 1..Len(received[s]) : received[s][i] = i
  /\ Len(received[s]) <= sent[Other(s)]
  /\ final[s] => closed[s] /\ closed[Other(s)] /\ Len(received[s]) = sent[Other(s)]
  /\ received[s] # <<>> => RxKey(s) = TxKey(Other(s))

IInv == TypeOK /\ Shapes /\ \A s \in Side : Carried(s) /\ Standing(s) /\ Numbered(s) /\ Counted(s)
-----------------------------------------------------------------------------
LEMMA Sides ==
  ASSUME NEW s \in Side
  PROVE /\ Other(s) \in Side /\ Other(s) # s /\ Other(Other(s)) = s
        /\ \A t \in Side : t = s \/ t = Other(s)
  BY DEF Side, Other

LEMMA Kinds ==
  /\ Hello \in Message /\ Header \in Message /\ Length \in Message
  /\ Hello.kind # "cipher" /\ Header.kind # "cipher" /\ Length.kind # "cipher"
  /\ \A m \in Message : m.kind \in {"hello", "header", "length", "cipher"}
  /\ \A m \in Message : m.kind = "cipher" => m \in CipherMessage
  BY DEF Message, CipherMessage, Hello, Header, Length

LEMMA CipherIsMessage ==
  ASSUME NEW s \in Side, NEW n \in Nat, NEW tag \in {"message", "final"}
  PROVE /\ Cipher(s, n, tag) \in Message /\ Cipher(s, n, tag).kind = "cipher"
        /\ Cipher(s, n, tag).key = TxKey(s) /\ Cipher(s, n, tag).number = n /\ Cipher(s, n, tag).tag = tag
  BY DEF Cipher, Message, CipherMessage, TxKey

LEMMA Appended ==
  ASSUME NEW S, NEW q \in Seq(S), NEW m \in S
  PROVE /\ Append(q, m) \in Seq(S) /\ Len(Append(q, m)) = Len(q) + 1 /\ Len(q) \in Nat
        /\ Append(q, m) # <<>>
        /\ \A i \in 1..Len(q) : Append(q, m)[i] = q[i]
        /\ Append(q, m)[Len(q) + 1] = m
  OBVIOUS

LEMMA Taken ==
  ASSUME NEW S, NEW q \in Seq(S), q # <<>>
  PROVE /\ Tail(q) \in Seq(S) /\ Len(Tail(q)) = Len(q) - 1 /\ Len(q) \in Nat /\ Len(q) > 0
        /\ \A i \in 1..Len(Tail(q)) : Tail(q)[i] = q[i + 1]
        /\ Head(q) = q[1] /\ Head(q) \in S
  OBVIOUS

\* What one end counts as sent and has closed is all that decides what is sound.
LEMMA SoundStays ==
  ASSUME NEW s \in Side, NEW m, Sound(s, m), role' = role, sent[Other(s)] \in Nat, sent'[Other(s)] \in Nat,
         sent[Other(s)] <= sent'[Other(s)], closed[Other(s)] => closed'[Other(s)] /\ sent'[Other(s)] = sent[Other(s)]
  PROVE Sound(s, m)'
  BY DEF Sound, TxKey
-----------------------------------------------------------------------------
(* The messages under way: after a step that adds one, takes one, or neither. *)

\* Nothing that is under way becomes unsound.
Steady(s) ==
  /\ role' = role /\ sent'[Other(s)] \in Nat /\ sent[Other(s)] <= sent'[Other(s)]
  /\ closed[Other(s)] => closed'[Other(s)] /\ sent'[Other(s)] = sent[Other(s)]

LEMMA CarriedSame ==
  ASSUME Shapes, NEW s \in Side, Carried(s), Steady(s), pipe'[s] = pipe[s]
  PROVE Carried(s)'
<1>1. sent[Other(s)] \in Nat
  BY Sides DEF Shapes
<1> QED BY <1>1, SoundStays DEF Carried, Steady

LEMMA CarriedTaken ==
  ASSUME Shapes, NEW s \in Side, Carried(s), Steady(s), pipe[s] # <<>>, pipe'[s] = Tail(pipe[s])
  PROVE Carried(s)'
<1>1. sent[Other(s)] \in Nat /\ pipe[s] \in Seq(Message)
  BY Sides DEF Shapes
<1>2. \A i \in 1..Len(Tail(pipe[s])) : Tail(pipe[s])[i] = pipe[s][i + 1] /\ i + 1 \in 1..Len(pipe[s])
  BY <1>1, Taken
<1> QED BY <1>1, <1>2, SoundStays DEF Carried, Steady

LEMMA CarriedAppended ==
  ASSUME Shapes, NEW s \in Side, Carried(s), Steady(s), NEW m \in Message, pipe'[s] = Append(pipe[s], m), Sound(s, m)'
  PROVE Carried(s)'
<1>1. sent[Other(s)] \in Nat /\ pipe[s] \in Seq(Message)
  BY Sides DEF Shapes
<1>2. Len(pipe[s]) \in Nat /\ Len(pipe'[s]) = Len(pipe[s]) + 1
      /\ (\A i \in 1..Len(pipe[s]) : pipe'[s][i] = pipe[s][i]) /\ pipe'[s][Len(pipe[s]) + 1] = m
  BY <1>1, Appended
<1>3. ASSUME NEW i \in 1..Len(pipe'[s]) PROVE Sound(s, pipe[s][i])'
  <2>1. CASE i \in 1..Len(pipe[s])
    <3>1. pipe'[s][i] = pipe[s][i] /\ Sound(s, pipe[s][i])
      BY <1>2, <2>1 DEF Carried
    <3> QED BY <3>1, <1>1, SoundStays DEF Steady
  <2>2. CASE i = Len(pipe[s]) + 1
    BY <1>2, <2>2
  <2> QED BY <1>2, <2>1, <2>2
<1> QED BY <1>3 DEF Carried
-----------------------------------------------------------------------------
(* The invariant. *)

LEMMA InitInv == Init => IInv
<1> SUFFICES ASSUME Init PROVE IInv
  OBVIOUS
<1>1. Shapes
  BY DEF Init, Shapes
<1>2. TypeOK
  BY FramesAssumption DEF Init, TypeOK
<1>3. ASSUME NEW s \in Side PROVE Carried(s) /\ Standing(s) /\ Numbered(s) /\ Counted(s)
  <2>1. Other(s) \in Side
    BY Sides
  <2> QED BY <2>1 DEF Init, Carried, Standing, Numbered, Counted
<1> QED BY <1>1, <1>2, <1>3 DEF IInv

\* The state of two ends is that of either and of its peer.
LEMMA BothEnds ==
  ASSUME NEW s \in Side, TypeOK', Shapes',
         Carried(s)', Standing(s)', Numbered(s)', Counted(s)',
         Carried(Other(s))', Standing(Other(s))', Numbered(Other(s))', Counted(Other(s))'
  PROVE IInv'
<1>1. ASSUME NEW t \in Side PROVE (Carried(t) /\ Standing(t) /\ Numbered(t) /\ Counted(t))'
  <2>1. CASE t = s
    BY <2>1
  <2>2. CASE t = Other(s)
    BY <2>2
  <2> QED BY <2>1, <2>2, Sides
<1> QED BY <1>1 DEF IInv

\* What IInv says of an end and of its peer.
LEMMA AtBoth ==
  ASSUME IInv, NEW s \in Side
  PROVE /\ TypeOK /\ Shapes
        /\ Carried(s) /\ Standing(s) /\ Numbered(s) /\ Counted(s)
        /\ Carried(Other(s)) /\ Standing(Other(s)) /\ Numbered(Other(s)) /\ Counted(Other(s))
  BY Sides DEF IInv

\* What a message is, for the type of the state.
LEMMA KindsFit ==
  ASSUME NEW f \in [Side -> Seq(Message)]
  PROVE \A s \in Side : \A i \in DOMAIN f[s] : f[s][i].kind \in {"hello", "header", "length", "cipher"}
<1> SUFFICES ASSUME NEW s \in Side, NEW i \in DOMAIN f[s] PROVE f[s][i].kind \in {"hello", "header", "length", "cipher"}
  OBVIOUS
<1>1. f[s][i] \in Message
  OBVIOUS
<1> QED BY <1>1, Kinds

\* A step that numbers and counts nothing: s goes somewhere, or is gone for good.
LEMMA QuietInv ==
  ASSUME IInv, NEW s \in Side, NEW there,
         UNCHANGED <<role, trusts, closed, tx, rx, sent, received, final>>,
         pc' = Set(pc, s, there), pc[s] \notin {"sending", "closing"},
         there \in {"helloSent", "keyed", "headerSent", "up", "receiving", "lengthRead", "gone"},
         there \notin {"helloSent", "gone"} => trusts[s],
         closed[s] => there \in {"up", "gone"},
         shut' = shut \/ (there = "gone" /\ shut' = Set(shut, s, TRUE)),
         pc[s] = "gone" => there = "gone",
         pipe' \in [Side -> Seq(Message)], Carried(s)', Carried(Other(s))'
  PROVE IInv'
<1> DEFINE o == Other(s)
<1>1. o \in Side /\ o # s /\ Other(o) = s
  BY Sides
<1>2. /\ TypeOK /\ Shapes /\ Carried(s) /\ Standing(s) /\ Numbered(s) /\ Counted(s)
      /\ Standing(o) /\ Numbered(o) /\ Counted(o)
  BY AtBoth
<1> HIDE DEF o
<1>3. /\ pc'[s] = there /\ pc'[o] = pc[o] /\ (shut'[s] => shut[s] \/ there = "gone") /\ shut'[o] = shut[o]
      /\ shut[s] => shut'[s]
  BY <1>1, <1>2 DEF TypeOK, Set
<1>4. Shapes'
  BY <1>2 DEF Shapes
<1>5. TypeOK'
  <2>1. pc' \in [Side -> {"start", "helloSent", "keyed", "headerSent", "up", "sending", "receiving",
                          "lengthRead", "closing", "gone"}] /\ shut' \in [Side -> BOOLEAN]
    BY <1>2 DEF TypeOK, Set
  <2>2. (\A t \in Side : \A i \in DOMAIN pipe[t] : pipe[t][i].kind \in {"hello", "header", "length", "cipher"})'
    BY KindsFit
  <2> QED BY <1>2, <2>1, <2>2 DEF TypeOK
<1>6. Standing(s)' /\ Standing(o)'
  BY <1>2, <1>3 DEF Standing
<1>7. Numbered(s)' /\ Numbered(o)'
  <2>1. o = Other(s)
    BY DEF o
  <2>2. there \notin {"sending", "closing"} /\ UNCHANGED <<tx, sent, closed>>
    OBVIOUS
  <2>3. Numbered(s)'
    BY <1>2, <1>3, <2>1, <2>2 DEF Numbered
  <2>4. Numbered(o)'
    BY <1>1, <1>2, <1>3, <2>2 DEF Numbered
  <2> QED BY <2>3, <2>4
<1>8. Counted(s)' /\ Counted(o)'
  BY <1>2 DEF Counted, RxKey, TxKey
<1> QED BY <1>4, <1>5, <1>6, <1>7, <1>8, BothEnds DEF o

\* Appending to the peer's pipe, taking from one's own, or neither.
LEMMA PipeSent ==
  ASSUME Shapes, NEW s \in Side, NEW m \in Message, Send(s, m)
  PROVE /\ pipe' \in [Side -> Seq(Message)] /\ pipe'[s] = pipe[s]
        /\ pipe'[Other(s)] = Append(pipe[Other(s)], m)
<1>1. pipe[Other(s)] \in Seq(Message) /\ Other(s) \in Side /\ Other(s) # s
  BY Sides DEF Shapes
<1>2. Append(pipe[Other(s)], m) \in Seq(Message)
  BY <1>1, Appended
<1> QED BY <1>1, <1>2 DEF Shapes, Send, Set

LEMMA PipeTaken ==
  ASSUME Shapes, NEW s \in Side, CanReceive(s), Take(s)
  PROVE /\ pipe' \in [Side -> Seq(Message)] /\ pipe'[s] = Tail(pipe[s]) /\ pipe'[Other(s)] = pipe[Other(s)]
        /\ pipe[s] # <<>> /\ Head(pipe[s]) = pipe[s][1] /\ Head(pipe[s]) \in Message /\ 1 \in 1..Len(pipe[s])
<1>1. pipe[s] \in Seq(Message) /\ pipe[s] # <<>> /\ Other(s) # s /\ Other(s) \in Side
  BY Sides DEF Shapes, CanReceive
<1>2. Tail(pipe[s]) \in Seq(Message) /\ Head(pipe[s]) \in Message /\ Head(pipe[s]) = pipe[s][1] /\ 1 \in 1..Len(pipe[s])
  BY <1>1, Taken
<1> QED BY <1>1, <1>2 DEF Shapes, Take, Set

\* Steps that count and number nothing leave what is under way as sound as it was.
LEMMA QuietSteady ==
  ASSUME Shapes, NEW s \in Side, UNCHANGED <<role, closed, sent>> PROVE Steady(s)
<1>1. sent[Other(s)] \in Nat
  BY Sides DEF Shapes
<1> QED BY <1>1 DEF Steady

LEMMA EmitInv ==
  ASSUME IInv, NEW s \in Side, NEW m \in {Hello, Header},
         \/ Emit(s, "start", m, "helloSent")
         \/ Emit(s, "keyed", m, "headerSent")
  PROVE IInv'
<1> DEFINE there == IF At(s, "start") THEN "helloSent" ELSE "headerSent"
<1>1. /\ pc' = Set(pc, s, there) /\ pc[s] \in {"start", "keyed"} /\ Send(s, m)
      /\ UNCHANGED <<role, trusts, shut, closed, tx, rx, sent, received, final>>
      /\ there = IF pc[s] = "start" THEN "helloSent" ELSE "headerSent"
  BY DEF Emit, At, Goto, conf, logs
<1>2. Shapes /\ Standing(s) /\ Carried(s) /\ Carried(Other(s)) /\ Other(s) \in Side
  BY AtBoth, Sides
<1>3. m \in Message /\ m.kind # "cipher"
  BY Kinds
<1>4. pipe' \in [Side -> Seq(Message)] /\ pipe'[s] = pipe[s] /\ pipe'[Other(s)] = Append(pipe[Other(s)], m)
  BY <1>1, <1>2, <1>3, PipeSent
<1>5. Carried(s)'
  BY <1>1, <1>2, <1>4, QuietSteady, CarriedSame
<1>6. Carried(Other(s))'
  <2>1. Sound(Other(s), m)'
    BY <1>3 DEF Sound
  <2> QED BY <1>1, <1>2, <1>3, <1>4, <2>1, QuietSteady, CarriedAppended
<1> HIDE DEF there
<1> QED BY <1>1, <1>2, <1>4, <1>5, <1>6, QuietInv DEF Standing

LEMMA ReceiveHelloInv == ASSUME IInv, NEW s \in Side, ReceiveHello(s) PROVE IInv'
<1> DEFINE there == IF trusts[s] THEN "keyed" ELSE "gone"
<1>1. /\ pc' = Set(pc, s, there) /\ pc[s] = "helloSent" /\ CanReceive(s) /\ Take(s)
      /\ shut' = Set(shut, s, ~trusts[s])
      /\ UNCHANGED <<role, trusts, closed, tx, rx, sent, received, final>>
  BY DEF ReceiveHello, At, Goto, conf, logs
<1>2. TypeOK /\ Shapes /\ Standing(s) /\ Carried(s) /\ Carried(Other(s)) /\ Other(s) \in Side
  BY AtBoth, Sides
<1>3. pipe' \in [Side -> Seq(Message)] /\ pipe'[s] = Tail(pipe[s]) /\ pipe'[Other(s)] = pipe[Other(s)] /\ pipe[s] # <<>>
  BY <1>1, <1>2, PipeTaken
<1>4. Carried(s)' /\ Carried(Other(s))'
  BY <1>1, <1>2, <1>3, QuietSteady, CarriedTaken, CarriedSame
<1>5. ~shut[s] /\ ~closed[s]
  BY <1>1, <1>2 DEF Standing
<1>6. shut' = shut \/ (there = "gone" /\ shut' = Set(shut, s, TRUE))
  BY <1>1, <1>2, <1>5 DEF Set, TypeOK
<1>7. /\ there \in {"keyed", "gone"} /\ (there \notin {"helloSent", "gone"} => trusts[s])
  OBVIOUS
<1> HIDE DEF there
<1> QED BY <1>1, <1>3, <1>4, <1>5, <1>6, <1>7, QuietInv

\* Taking a message that is no frame's, or finding that the peer has gone.
LEMMA MoveInv ==
  ASSUME IInv, NEW s \in Side, NEW there \in {"up", "receiving", "lengthRead"},
         pc[s] \in {"headerSent", "up", "receiving", "lengthRead"}, ~closed[s], pc' = Set(pc, s, there),
         (CanReceive(s) /\ Take(s)) \/ pipe' = pipe,
         UNCHANGED <<role, trusts, shut, closed, tx, rx, sent, received, final>>
  PROVE IInv'
<1>1. Shapes /\ Standing(s) /\ Carried(s) /\ Carried(Other(s)) /\ Other(s) \in Side
  BY AtBoth, Sides
<1>2. pipe' \in [Side -> Seq(Message)] /\ Carried(s)' /\ Carried(Other(s))'
  <2>1. CASE CanReceive(s) /\ Take(s)
    BY <1>1, <2>1, PipeTaken, QuietSteady, CarriedTaken, CarriedSame
  <2>2. CASE pipe' = pipe
    BY <1>1, <2>2, QuietSteady, CarriedSame DEF Shapes
  <2> QED BY <2>1, <2>2
<1>3. trusts[s]
  BY <1>1 DEF Standing
<1> QED BY <1>2, <1>3, QuietInv

LEMMA MovesInv ==
  ASSUME IInv, NEW s \in Side, ReceiveHeader(s) \/ Receive(s) \/ ReceiveLength(s) \/ ReceiveThrows(s) PROVE IInv'
<1>1. Standing(s)
  BY AtBoth
<1>2. CASE ReceiveHeader(s)
  BY <1>1, <1>2, MoveInv DEF ReceiveHeader, At, Goto, Standing, conf, logs
<1>3. CASE Receive(s)
  BY <1>1, <1>3, MoveInv DEF Receive, At, Goto, Standing, conf, logs
<1>4. CASE ReceiveLength(s)
  BY <1>1, <1>4, MoveInv DEF ReceiveLength, At, Goto, Standing, conf, logs
<1>5. CASE ReceiveThrows(s)
  BY <1>1, <1>5, MoveInv DEF ReceiveThrows, At, Goto, Standing, conf, logs
<1> QED BY <1>2, <1>3, <1>4, <1>5

LEMMA AbandonInv ==
  ASSUME IInv, NEW s \in Side, Abandon(s), pc[s] \notin {"sending", "closing"} PROVE IInv'
<1>1. Shapes /\ Carried(s) /\ Carried(Other(s)) /\ Other(s) \in Side
  BY AtBoth, Sides
<1>2. /\ pc' = Set(pc, s, "gone") /\ shut' = Set(shut, s, TRUE)
      /\ UNCHANGED <<role, trusts, pipe, closed, tx, rx, sent, received, final>>
  BY DEF Abandon, Goto, conf, logs
<1>3. pipe' \in [Side -> Seq(Message)] /\ Carried(s)' /\ Carried(Other(s))'
  BY <1>1, <1>2, QuietSteady, CarriedSame DEF Shapes
<1> QED BY <1>2, <1>3, QuietInv

\* The other end, to which nothing happens but that messages reach it.
LEMMA OtherStays ==
  ASSUME IInv, NEW s \in Side, UNCHANGED <<role, trusts>>,
         pc'[Other(s)] = pc[Other(s)], closed'[Other(s)] = closed[Other(s)], shut'[Other(s)] = shut[Other(s)],
         tx'[Other(s)] = tx[Other(s)], rx'[Other(s)] = rx[Other(s)], sent'[Other(s)] = sent[Other(s)],
         received'[Other(s)] = received[Other(s)], final'[Other(s)] = final[Other(s)],
         shut[s] => shut'[s], closed[s] => closed'[s], sent'[s] \in Nat, sent[s] <= sent'[s], closed[s] => sent'[s] = sent[s]
  PROVE Standing(Other(s))' /\ Numbered(Other(s))' /\ Counted(Other(s))'
<1> DEFINE o == Other(s)
<1>1. o \in Side /\ Other(o) = s
  BY Sides
<1>2. Standing(o) /\ Numbered(o) /\ Counted(o) /\ Shapes
  BY AtBoth
<1> HIDE DEF o
<1>3. Standing(o)'
  BY <1>2 DEF Standing, o
<1>4. Numbered(o)'
  BY <1>1, <1>2 DEF Numbered, o
<1>5. Counted(o)'
  <2>1. Len(received[o]) \in Nat /\ sent[s] \in Nat
    BY <1>1, <1>2 DEF Shapes
  <2>2. Len(received[o]) <= sent'[s] /\ (final[o] => closed'[s] /\ Len(received[o]) = sent'[s])
    BY <1>1, <1>2, <2>1 DEF Counted
  <2>3. RxKey(o)' = RxKey(o) /\ TxKey(s)' = TxKey(s)
    BY DEF RxKey, TxKey
  <2> QED BY <1>1, <1>2, <2>2, <2>3 DEF Counted, o
<1> QED BY <1>3, <1>4, <1>5 DEF o

\* A frame's length, or the final tag's, gets the next number.
LEMMA LengthInv ==
  ASSUME IInv, NEW s \in Side, NEW there \in {"sending", "closing"},
         pc[s] = "up", ~closed[s], tx[s] <= MaxFrames \/ (there = "closing" /\ CanSend(s)), tx' = Set(tx, s, tx[s] + 1),
         \/ CanSend(s) /\ Send(s, Length) /\ pc' = Set(pc, s, there)
         \/ ~CanSend(s) /\ UNCHANGED <<pipe, pc>>,
         UNCHANGED <<role, trusts, shut, closed, rx, sent, received, final>>
  PROVE IInv'
<1> DEFINE o == Other(s)
<1>1. o \in Side /\ o # s /\ Other(o) = s
  BY Sides
<1>2. /\ TypeOK /\ Shapes /\ Carried(s) /\ Carried(o) /\ Standing(s) /\ Numbered(s) /\ Counted(s)
  BY AtBoth
<1>3. pipe' \in [Side -> Seq(Message)] /\ Carried(s)' /\ Carried(o)'
  <2>1. CASE ~CanSend(s) /\ UNCHANGED <<pipe, pc>>
    BY <1>1, <1>2, <2>1, QuietSteady, CarriedSame DEF Shapes
  <2>2. CASE CanSend(s) /\ Send(s, Length)
    <3>1. Length \in Message /\ Sound(o, Length)'
      BY Kinds DEF Sound
    <3>2. Steady(s) /\ Steady(o)
      BY <1>1, <1>2, QuietSteady
    <3> QED BY <1>1, <1>2, <2>2, <3>1, <3>2, PipeSent, CarriedSame, CarriedAppended
  <2> QED BY <2>1, <2>2
<1> HIDE DEF o
<1>4. /\ tx'[s] = tx[s] + 1 /\ tx'[o] = tx[o] /\ tx[s] \in Nat /\ sent[s] \in 0..MaxFrames /\ pc'[o] = pc[o]
      /\ \/ ~shut[o] /\ pc'[s] = there
         \/ shut[o] /\ pc'[s] = "up"
  BY <1>1, <1>2 DEF TypeOK, Shapes, Set, CanSend, o
<1>5. tx[s] <= MaxFrames + 1 /\ (~shut[o] => tx[s] = sent[s] + 1) /\ sent[s] < tx[s]
      /\ (there = "sending" => tx[s] <= MaxFrames)
  BY <1>2, <1>4, FramesAssumption DEF Numbered, CanSend, o
<1>6. Numbered(s)'
  <2>1. o = Other(s) /\ UNCHANGED <<sent, closed, shut>>
    BY DEF o
  <2>2. sent[s] < tx[s] + 1
    BY <1>4, <1>5
  <2>3. CASE shut[o]
    BY <1>4, <2>1, <2>2, <2>3 DEF Numbered
  <2>4. CASE ~shut[o]
    BY <1>4, <1>5, <2>1, <2>2, <2>4, FramesAssumption DEF Numbered
  <2> QED BY <2>3, <2>4
<1>7. Standing(s)' /\ Counted(s)'
  BY <1>2, <1>4 DEF Standing, Counted, RxKey, TxKey
<1>8. Standing(o)' /\ Numbered(o)' /\ Counted(o)'
  <2>1. sent[s] <= sent'[s] /\ sent'[s] \in Nat /\ sent'[s] = sent[s] /\ tx'[o] = tx[o] /\ pc'[o] = pc[o]
    BY <1>4
  <2> QED BY <2>1, OtherStays DEF o
<1>9. Shapes'
  BY <1>2, <1>3 DEF Shapes, Set
<1>10. TypeOK'
  <2>1. \A t \in Side : tx'[t] \in 1..(MaxFrames + 2)
    BY <1>1, <1>2, <1>4, <1>5, FramesAssumption, Sides DEF TypeOK, o
  <2>2. (\A t \in Side : \A i \in DOMAIN pipe[t] : pipe[t][i].kind \in {"hello", "header", "length", "cipher"})'
    BY <1>3, KindsFit
  <2>3. pc' \in [Side -> {"start", "helloSent", "keyed", "headerSent", "up", "sending", "receiving",
                          "lengthRead", "closing", "gone"}]
    BY <1>2 DEF TypeOK, Set
  <2> QED BY <1>2, <2>1, <2>2, <2>3 DEF TypeOK
<1> QED BY <1>3, <1>6, <1>7, <1>8, <1>9, <1>10, BothEnds DEF o

LEMMA LengthsInv ==
  ASSUME IInv, NEW s \in Side, SendLength(s) \/ CloseLength(s) PROVE IInv'
<1>1. CASE SendLength(s)
  BY <1>1, LengthInv DEF SendLength, At, Goto, conf, logs
<1>2. CASE CloseLength(s)
  BY <1>2, LengthInv DEF CloseLength, At, Goto, conf, logs
<1> QED BY <1>1, <1>2

\* A frame of the number just given, which counts as sent if it went out.
LEMMA SendCipherInv == ASSUME IInv, NEW s \in Side, SendCipher(s) PROVE IInv'
<1> DEFINE o == Other(s)
           m == Cipher(s, tx[s] - 1, "message")
<1>1. o \in Side /\ o # s /\ Other(o) = s
  BY Sides
<1>2. TypeOK /\ Shapes /\ Carried(s) /\ Carried(o) /\ Standing(s) /\ Numbered(s) /\ Counted(s)
  BY AtBoth
<1>3. /\ pc[s] = "sending" /\ pc' = Set(pc, s, "up")
      /\ \/ ~shut[o] /\ Send(s, m) /\ sent' = Set(sent, s, sent[s] + 1)
         \/ shut[o] /\ UNCHANGED <<pipe, sent>>
      /\ UNCHANGED <<role, trusts, shut, closed, tx, rx, received, final>>
  BY DEF SendCipher, At, Goto, CanSend, conf
<1>4. /\ ~closed[s] /\ tx[s] \in Nat /\ sent[s] \in 0..MaxFrames /\ sent[s] + 2 <= tx[s] /\ tx[s] <= MaxFrames + 1
      /\ (~shut[o] => tx[s] = sent[s] + 2)
  BY <1>2, <1>3 DEF Standing, Numbered, TypeOK, Shapes
<1>5. /\ pc'[s] = "up" /\ pc'[o] = pc[o] /\ sent'[o] = sent[o]
      /\ sent'[s] = IF shut[o] THEN sent[s] ELSE sent[s] + 1
  BY <1>1, <1>2, <1>3 DEF TypeOK, Shapes, Set
<1>6. Steady(s) /\ Steady(o)
  BY <1>1, <1>2, <1>3, <1>4, <1>5 DEF Steady, Shapes
<1>7. pipe' \in [Side -> Seq(Message)] /\ Carried(s)' /\ Carried(o)'
  <2>1. CASE shut[o] /\ UNCHANGED <<pipe, sent>>
    BY <1>1, <1>2, <1>6, <2>1, CarriedSame DEF Shapes
  <2>2. CASE ~shut[o] /\ Send(s, m)
    <3>1. tx[s] - 1 \in Nat /\ tx[s] - 1 = sent'[s] /\ tx[s] - 1 \in 1..sent'[s]
      BY <1>4, <1>5, <2>2
    <3>2. m \in Message /\ m.kind = "cipher" /\ m.key = TxKey(s) /\ m.number = tx[s] - 1 /\ m.tag = "message"
      BY <3>1, CipherIsMessage
    <3> HIDE DEF m
    <3>3. ASSUME NEW c, c.key = TxKey(s), c.number = tx[s] - 1, c.tag = "message" PROVE Sound(o, c)'
      BY <1>1, <1>3, <3>1, <3>3 DEF Sound, TxKey
    <3>4. \A c \in Message : c = m => Sound(o, c)'
      BY <3>2, <3>3
    <3>5. PICK c \in Message : c = m
      BY <3>2
    <3> QED BY <1>1, <1>2, <1>6, <2>2, <3>2, <3>4, <3>5, PipeSent, CarriedSame, CarriedAppended
  <2> QED BY <1>3, <2>1, <2>2
<1> HIDE DEF o, m
<1>8. Numbered(s)'
  <2>1. o = Other(s)
    BY DEF o
  <2> QED BY <1>3, <1>4, <1>5, <2>1 DEF Numbered
<1>9. Standing(s)' /\ Counted(s)'
  <2>1. Standing(s)'
    BY <1>2, <1>3, <1>5 DEF Standing
  <2> QED BY <1>2, <1>3, <1>5, <2>1 DEF Counted, RxKey, TxKey, o
<1>10. Standing(o)' /\ Numbered(o)' /\ Counted(o)'
  BY <1>1, <1>2, <1>3, <1>4, <1>5, OtherStays DEF o
<1>11. Shapes'
  BY <1>2, <1>3, <1>4, <1>7 DEF Shapes, Set
<1>12. TypeOK'
  <2>1. \A t \in Side : sent'[t] \in 0..MaxFrames
    BY <1>1, <1>2, <1>4, <1>5, FramesAssumption, Sides DEF TypeOK, o
  <2>2. (\A t \in Side : \A i \in DOMAIN pipe[t] : pipe[t][i].kind \in {"hello", "header", "length", "cipher"})'
    BY <1>7, KindsFit
  <2>3. pc' \in [Side -> {"start", "helloSent", "keyed", "headerSent", "up", "sending", "receiving",
                          "lengthRead", "closing", "gone"}]
    BY <1>2, <1>3 DEF TypeOK, Set
  <2> QED BY <1>2, <1>3, <2>1, <2>2, <2>3 DEF TypeOK
<1> QED BY <1>7, <1>8, <1>9, <1>10, <1>11, <1>12, BothEnds DEF o

\* A ciphertext that opens is the next frame, or the last one of a peer that closed.
LEMMA ReceiveCipherInv == ASSUME IInv, NEW s \in Side, ReceiveCipher(s) PROVE IInv'
<1> DEFINE o == Other(s)
           m == Head(pipe[s])
<1>1. o \in Side /\ o # s /\ Other(o) = s
  BY Sides
<1>2. /\ TypeOK /\ Shapes /\ Carried(s) /\ Carried(o) /\ Standing(s) /\ Numbered(s) /\ Counted(s) /\ Standing(o)
  BY AtBoth
<1>3. /\ pc[s] = "lengthRead" /\ pc' = Set(pc, s, "up") /\ CanReceive(s) /\ Take(s)
      /\ UNCHANGED <<role, trusts, shut, tx, sent>>
      /\ \/ ~Opens(s, m) /\ UNCHANGED <<rx, closed, received, final>>
         \/ /\ Opens(s, m) /\ m.tag = "final" /\ rx' = Set(rx, s, rx[s] + 1)
            /\ closed' = Set(closed, s, TRUE) /\ final' = Set(final, s, TRUE) /\ UNCHANGED received
         \/ /\ Opens(s, m) /\ m.tag # "final" /\ rx' = Set(rx, s, rx[s] + 1)
            /\ received' = Set(received, s, Append(received[s], m.number)) /\ UNCHANGED <<closed, final>>
  BY DEF ReceiveCipher, At, Goto, conf
<1>4. /\ pipe' \in [Side -> Seq(Message)] /\ pipe'[s] = Tail(pipe[s]) /\ pipe'[o] = pipe[o] /\ pipe[s] # <<>>
      /\ m \in Message /\ Sound(s, m)
  <2>1. 1 \in 1..Len(pipe[s]) /\ m = pipe[s][1]
    BY <1>2, <1>3, PipeTaken
  <2> QED BY <1>2, <1>3, <2>1, PipeTaken DEF Carried
<1>5. ~closed[s] /\ ~final[s] /\ trusts[s] /\ received[s] \in Seq(Nat) /\ rx[s] = Len(received[s]) + 1
      /\ Len(received[s]) \in Nat /\ sent[o] \in 0..MaxFrames
  <2>1. received[s] \in Seq(Nat) /\ sent[o] \in 0..MaxFrames
    BY <1>1, <1>2 DEF Shapes, TypeOK
  <2> QED BY <1>2, <1>3, <2>1 DEF Standing, Counted
\* What may be counted.
<1>6. Opens(s, m) => /\ RxKey(s) = TxKey(o) /\ m.number = Len(received[s]) + 1
                     /\ m.tag = "final" => closed[o] /\ sent[o] = Len(received[s])
                     /\ m.tag # "final" => Len(received[s]) + 1 <= sent[o]
  <2> SUFFICES ASSUME Opens(s, m)
               PROVE  /\ RxKey(s) = TxKey(o) /\ m.number = Len(received[s]) + 1
                      /\ m.tag = "final" => closed[o] /\ sent[o] = Len(received[s])
                      /\ m.tag # "final" => Len(received[s]) + 1 <= sent[o]
    OBVIOUS
  <2>1. m \in CipherMessage /\ m.kind = "cipher" /\ m.key = RxKey(s) /\ m.number = Len(received[s]) + 1
    BY <1>4, <1>5, Kinds DEF Opens
  <2>2. m.tag \in {"message", "final"}
    BY <2>1 DEF CipherMessage
  <2> HIDE DEF m
  <2>3. /\ RxKey(s) = TxKey(o)
        /\ IF m.tag = "message" THEN m.number \in 1..sent[o] ELSE m.number = sent[o] + 1 /\ closed[o]
    BY <1>4, <2>1 DEF Sound
  <2>4. CASE m.tag = "message"
    BY <1>5, <2>1, <2>3, <2>4
  <2>5. CASE m.tag = "final"
    BY <1>5, <2>1, <2>3, <2>5
  <2> QED BY <2>2, <2>4, <2>5
<1> HIDE DEF o, m
<1>7. /\ pc'[s] = "up" /\ pc'[o] = pc[o] /\ rx'[o] = rx[o] /\ closed'[o] = closed[o] /\ received'[o] = received[o]
      /\ final'[o] = final[o] /\ (closed[s] => closed'[s])
  BY <1>1, <1>2, <1>3 DEF TypeOK, Shapes, Set
<1>8. \/ ~Opens(s, m) /\ rx'[s] = rx[s] /\ closed'[s] = closed[s] /\ received'[s] = received[s] /\ final'[s] = final[s]
      \/ /\ Opens(s, m) /\ m.tag = "final" /\ rx'[s] = rx[s] + 1 /\ closed'[s] = TRUE /\ final'[s] = TRUE
         /\ received'[s] = received[s]
      \/ /\ Opens(s, m) /\ m.tag # "final" /\ rx'[s] = rx[s] + 1 /\ closed'[s] = closed[s] /\ final'[s] = final[s]
         /\ received'[s] = Append(received[s], m.number)
  BY <1>1, <1>2, <1>3 DEF TypeOK, Shapes, Set
<1>9. Counted(s)' /\ rx'[s] \in 1..(MaxFrames + 2)
  <2>1. o = Other(s) /\ sent' = sent /\ RxKey(s)' = RxKey(s) /\ TxKey(o)' = TxKey(o)
    BY <1>3 DEF o, RxKey, TxKey
  <2>2. CASE ~Opens(s, m)
    BY <1>2, <1>5, <1>7, <1>8, <2>1, <2>2, FramesAssumption DEF Counted, o
  <2>3. CASE Opens(s, m) /\ m.tag = "final"
    BY <1>2, <1>5, <1>6, <1>7, <1>8, <2>1, <2>3, FramesAssumption DEF Counted, o
  <2>4. CASE Opens(s, m) /\ m.tag # "final"
    <3>1. m.number \in Nat /\ m.number = Len(received[s]) + 1 /\ received'[s] = Append(received[s], m.number)
      BY <1>5, <1>6, <1>8, <2>4
    <3>2. /\ Len(received'[s]) = Len(received[s]) + 1 /\ received'[s] # <<>>
          /\ (\A i \in 1..Len(received[s]) : received'[s][i] = received[s][i])
          /\ received'[s][Len(received[s]) + 1] = m.number
      BY <1>5, <3>1, Appended
    <3>3. \A i \in 1..Len(received'[s]) : received'[s][i] = i
      BY <1>2, <1>5, <3>1, <3>2 DEF Counted
    <3>4. ~final'[s] /\ rx'[s] = Len(received'[s]) + 1 /\ Len(received'[s]) <= sent'[o] /\ RxKey(s)' = TxKey(o)'
      BY <1>5, <1>6, <1>8, <2>1, <2>4, <3>2
    <3> QED BY <1>5, <2>1, <3>2, <3>3, <3>4, FramesAssumption DEF Counted
  <2> QED BY <2>2, <2>3, <2>4
<1>10. Standing(s)'
  BY <1>2, <1>3, <1>5, <1>7 DEF Standing
<1>11. Numbered(s)'
  BY <1>2, <1>3, <1>5, <1>7 DEF Numbered, o
<1>12. Standing(o)' /\ Numbered(o)' /\ Counted(o)'
  <2>1. sent[s] \in Nat /\ sent'[s] = sent[s] /\ sent[s] <= sent'[s]
    BY <1>2, <1>3 DEF Shapes
  <2> QED BY <1>3, <1>7, <2>1, OtherStays DEF o
<1>13. Carried(s)' /\ Carried(o)'
  <2>1. Steady(s) /\ Steady(o)
    <3>1. /\ o = Other(s) /\ role' = role /\ sent' = sent /\ sent[s] \in Nat /\ sent[o] \in Nat
          /\ sent[s] <= sent[s] /\ sent[o] <= sent[o]
      BY <1>1, <1>2, <1>3 DEF o, Shapes
    <3> QED BY <1>1, <1>7, <3>1 DEF Steady
  <2> QED BY <1>1, <1>2, <1>4, <2>1, CarriedTaken, CarriedSame
<1>14. Shapes'
  <2>1. rx' \in [Side -> Nat]
    BY <1>2, <1>3 DEF Shapes, Set
  <2>2. received' \in [Side -> Seq(Nat)]
    <3>1. CASE received' = received
      BY <1>2, <3>1 DEF Shapes
    <3>2. CASE Opens(s, m) /\ received' = Set(received, s, Append(received[s], m.number))
      <4>1. Append(received[s], m.number) \in Seq(Nat)
        BY <1>5, <1>6, <3>2, Appended
      <4> QED BY <1>2, <3>2, <4>1 DEF Shapes, Set
    <3> QED BY <1>3, <3>1, <3>2
  <2> QED BY <1>2, <1>3, <1>4, <2>1, <2>2 DEF Shapes
<1>15. TypeOK'
  <2>1. \A t \in Side : rx'[t] \in 1..(MaxFrames + 2)
    BY <1>1, <1>2, <1>7, <1>9, Sides DEF TypeOK, o
  <2>2. (\A t \in Side : \A i \in DOMAIN pipe[t] : pipe[t][i].kind \in {"hello", "header", "length", "cipher"})'
    BY <1>4, KindsFit
  <2>3. pc' \in [Side -> {"start", "helloSent", "keyed", "headerSent", "up", "sending", "receiving",
                          "lengthRead", "closing", "gone"}] /\ closed' \in [Side -> BOOLEAN] /\ final' \in [Side -> BOOLEAN]
    BY <1>2, <1>3 DEF TypeOK, Set
  <2> QED BY <1>2, <1>3, <2>1, <2>2, <2>3 DEF TypeOK
<1> QED BY <1>9, <1>10, <1>11, <1>12, <1>13, <1>14, <1>15, BothEnds DEF o

\* The final tag has the number after all that was sent, since the peer was there
\* to read it all.
LEMMA CloseCipherInv == ASSUME IInv, NEW s \in Side, CloseCipher(s) PROVE IInv'
<1> DEFINE o == Other(s)
           m == Cipher(s, tx[s] - 1, "final")
<1>1. o \in Side /\ o # s /\ Other(o) = s
  BY Sides
<1>2. TypeOK /\ Shapes /\ Carried(s) /\ Carried(o) /\ Standing(s) /\ Numbered(s) /\ Counted(s)
  BY AtBoth
<1>3. /\ pc[s] = "closing" /\ pc' = Set(pc, s, "up")
      /\ \/ ~shut[o] /\ Send(s, m) /\ shut' = Set(shut, s, TRUE) /\ closed' = Set(closed, s, TRUE)
         \/ shut[o] /\ UNCHANGED <<pipe, shut, closed>>
      /\ UNCHANGED <<role, trusts, tx, rx, sent, received, final>>
  BY DEF CloseCipher, At, Goto, CanSend, conf, logs
<1>4. /\ ~closed[s] /\ tx[s] \in Nat /\ sent[s] \in 0..MaxFrames /\ sent[s] < tx[s]
      /\ (~shut[o] => tx[s] = sent[s] + 2)
  BY <1>2, <1>3 DEF Standing, Numbered, TypeOK, Shapes
<1>5. /\ pc'[s] = "up" /\ pc'[o] = pc[o] /\ closed'[o] = closed[o] /\ shut'[o] = shut[o] /\ (shut[s] => shut'[s])
      /\ closed'[s] = ~shut[o] /\ (shut[o] => shut'[s] = shut[s])
  BY <1>1, <1>2, <1>3, <1>4 DEF TypeOK, Shapes, Set
<1>6. Steady(s) /\ Steady(o)
  BY <1>1, <1>2, <1>3, <1>4, <1>5 DEF Steady, Shapes
<1>7. pipe' \in [Side -> Seq(Message)] /\ Carried(s)' /\ Carried(o)'
  <2>1. CASE shut[o] /\ UNCHANGED <<pipe, shut, closed>>
    BY <1>1, <1>2, <1>6, <2>1, CarriedSame DEF Shapes
  <2>2. CASE ~shut[o] /\ Send(s, m)
    <3>1. tx[s] - 1 \in Nat /\ tx[s] - 1 = sent'[s] + 1 /\ closed'[s]
      <4>1. sent'[s] = sent[s]
        BY <1>3
      <4>2. tx[s] = sent[s] + 2 /\ sent[s] \in Nat
        BY <1>4, <2>2
      <4>3. closed'[s]
        BY <1>5, <2>2, Zenon
      <4> QED BY <4>1, <4>2, <4>3
    <3>2. m \in Message /\ m.kind = "cipher" /\ m.key = TxKey(s) /\ m.number = tx[s] - 1 /\ m.tag = "final"
      BY <3>1, CipherIsMessage
    <3> HIDE DEF m
    <3>3. ASSUME NEW c, c.key = TxKey(s), c.number = tx[s] - 1, c.tag = "final" PROVE Sound(o, c)'
      BY <1>1, <1>3, <3>1, <3>3 DEF Sound, TxKey
    <3>4. \A c \in Message : c = m => Sound(o, c)'
      BY <3>2, <3>3
    <3>5. PICK c \in Message : c = m
      BY <3>2
    <3> QED BY <1>1, <1>2, <1>6, <2>2, <3>2, <3>4, <3>5, PipeSent, CarriedSame, CarriedAppended
  <2> QED BY <1>3, <2>1, <2>2
<1> HIDE DEF o, m
<1>8. Numbered(s)'
  <2>1. o = Other(s)
    BY DEF o
  <2> QED BY <1>3, <1>4, <1>5, <2>1 DEF Numbered
<1>9. Standing(s)' /\ Counted(s)'
  <2>1. Standing(s)'
    BY <1>2, <1>3, <1>4, <1>5 DEF Standing
  <2>2. ~final[s]
    BY <1>2, <1>4 DEF Counted
  <2> QED BY <1>2, <1>3, <1>5, <2>1, <2>2 DEF Counted, RxKey, TxKey, o
<1>10. Standing(o)' /\ Numbered(o)' /\ Counted(o)'
  <2>1. sent[s] \in Nat /\ sent'[s] = sent[s] /\ sent[s] <= sent'[s] /\ ~closed[s]
    BY <1>3, <1>4
  <2> QED BY <1>3, <1>5, <2>1, OtherStays DEF o
<1>11. Shapes'
  BY <1>2, <1>3, <1>7 DEF Shapes
<1>12. TypeOK'
  <2>1. (\A t \in Side : \A i \in DOMAIN pipe[t] : pipe[t][i].kind \in {"hello", "header", "length", "cipher"})'
    BY <1>7, KindsFit
  <2>2. pc' \in [Side -> {"start", "helloSent", "keyed", "headerSent", "up", "sending", "receiving",
                          "lengthRead", "closing", "gone"}] /\ closed' \in [Side -> BOOLEAN] /\ shut' \in [Side -> BOOLEAN]
    BY <1>2, <1>3 DEF TypeOK, Set
  <2> QED BY <1>2, <1>3, <2>1, <2>2 DEF TypeOK
<1> QED BY <1>7, <1>8, <1>9, <1>10, <1>11, <1>12, BothEnds DEF o

LEMMA NextInv == IInv /\ [Next]_vars => IInv'
<1> SUFFICES ASSUME IInv, [Next]_vars PROVE IInv'
  OBVIOUS
<1>1. CASE UNCHANGED vars
  BY <1>1 DEF vars, IInv, TypeOK, Shapes, Carried, Sound, Standing, Numbered, Counted, RxKey, TxKey
<1>2. ASSUME NEW s \in Side, Handshake(s) PROVE IInv'
  <2>1. CASE SendHello(s) \/ SendHeader(s)
    BY <2>1, EmitInv DEF SendHello, SendHeader
  <2>2. CASE HandshakeThrows(s)
    BY <2>2, AbandonInv DEF HandshakeThrows
  <2> QED BY <1>2, <2>1, <2>2, ReceiveHelloInv, MovesInv DEF Handshake
<1>3. ASSUME NEW s \in Side, Continue(s) PROVE IInv'
  BY <1>3, SendCipherInv, MovesInv, ReceiveCipherInv, CloseCipherInv DEF Continue
<1>4. ASSUME NEW s \in Side, Call(s) PROVE IInv'
  <2>1. CASE Drop(s)
    BY <2>1, AbandonInv DEF Drop
  <2> QED BY <1>4, <2>1, LengthsInv, MovesInv DEF Call
<1> QED BY <1>1, <1>2, <1>3, <1>4 DEF Next

LEMMA Invariance == Spec => []IInv
<1> QED BY InitInv, NextInv, PTL DEF Spec

\* The state keeps its types: a number never passes the one after the final tag's.
THEOREM TypeCorrect == Spec => []TypeOK
<1>1. IInv => TypeOK
  BY DEF IInv
<1> QED BY <1>1, Invariance, PTL

\* An end receives the frames of its peer in order, none missing and none twice,
\* up to some point, whoever closes, drops or throws when.
THEOREM FramesInOrder == Spec => []InOrder
<1>1. IInv => InOrder
  <2> SUFFICES ASSUME IInv, NEW s \in Side
               PROVE (\A i \in DOMAIN received[s] : received[s][i] = i) /\ Len(received[s]) <= sent[Other(s)]
    BY DEF InOrder
  <2>1. DOMAIN received[s] = 1..Len(received[s])
    BY DEF IInv, Shapes
  <2> QED BY <2>1 DEF IInv, Counted
<1> QED BY <1>1, Invariance, PTL

\* Who meets the final tag has every frame its peer sent.
THEOREM CleanEnd == Spec => []FinalMeansAll
<1>1. IInv => FinalMeansAll
  BY DEF IInv, Counted, FinalMeansAll
<1> QED BY <1>1, Invariance, PTL

\* Frames pass only between ends that accepted each other and took different roles.
THEOREM Trusted == Spec => []MutuallyTrusted
<1>1. IInv => MutuallyTrusted
  <2> SUFFICES ASSUME IInv, NEW s \in Side, received[s] # <<>>
               PROVE trusts["A"] /\ trusts["B"] /\ role["A"] # role["B"]
    BY DEF MutuallyTrusted
  <2>1. Other(s) \in Side /\ Shapes /\ Standing(s) /\ Standing(Other(s)) /\ Counted(s) /\ sent[Other(s)] \in Nat
    BY Sides DEF IInv, Shapes
  <2>2. received[s] \in Seq(Nat)
    BY <2>1 DEF Shapes
  <2>3. Len(received[s]) \in Nat /\ Len(received[s]) > 0
    BY <2>2
  <2>4. sent[Other(s)] > 0
    BY <2>1, <2>3 DEF Counted
  <2>5. trusts[s] /\ trusts[Other(s)] /\ role[s] # role[Other(s)]
    BY <2>1, <2>4 DEF Standing, Counted, RxKey, TxKey
  <2> QED BY <2>5 DEF Side, Other
<1> QED BY <1>1, Invariance, PTL
=============================================================================
