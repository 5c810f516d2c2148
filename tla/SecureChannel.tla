--------------------------- MODULE SecureChannel ---------------------------
(* The two ends of a secure channel over the in-memory pipe of
   src/volePSI/MpsvsSecureChannel.cpp: handshake, stream headers, frames of a
   length and a ciphertext sent by two calls, and a close that announces itself
   with a final tag. Each end is one thread; an end may be dropped wherever its
   application is in control, which closes the pipe.

   Every sendAll is one message of the pipe and is read by one recvAll of the
   same length. Session keys are named by their direction, so two ends that took
   the same role hold different keys; a ciphertext names its key and its number,
   and opens only under that key when that number is next. *)
EXTENDS Naturals, Sequences, SequencesExt

CONSTANT MaxFrames   \* bound: frames an end sends

ASSUME FramesAssumption == MaxFrames \in Nat

Side == {"A", "B"}
Other(s) == IF s = "A" THEN "B" ELSE "A"
Role == {"initiator", "responder"}

VARIABLES
  role, trusts,   \* configuration: the role an end takes, and whether it expects its peer's identity
  pc,             \* per end: where it is
  pipe,           \* per end: the messages waiting for it
  shut,           \* per end: it closed its half of the pipe (closed_a, closed_b)
  closed,         \* per end: SodiumChannel::closed_
  tx, rx,         \* per end: the number of the next frame out and in
  sent, received, \* history, per end: frames sendFrame returned for, frames recvFrame returned
  final           \* history, per end: recvFrame met the final tag

vars == <<role, trusts, pc, pipe, shut, closed, tx, rx, sent, received, final>>
conf == <<role, trusts>>
logs == <<sent, received, final>>

Set(f, s, v) == [f EXCEPT ![s] = v]
Goto(s, there) == pc' = Set(pc, s, there)
At(s, here) == pc[s] = here

\* crypto_kx: the client sends under "c2s" and receives under "s2c".
TxKey(s) == IF role[s] = "initiator" THEN "c2s" ELSE "s2c"
RxKey(s) == IF role[s] = "initiator" THEN "s2c" ELSE "c2s"

Hello == [kind |-> "hello"]
Header == [kind |-> "header"]
Length == [kind |-> "length"]
Cipher(s, n, tag) == [kind |-> "cipher", key |-> TxKey(s), number |-> n, tag |-> tag]

\* sendAll throws when the peer has closed its half; recvAll waits for a message
\* and throws when none is left and the peer has closed.
CanSend(s) == ~shut[Other(s)]
Send(s, m) == pipe' = Set(pipe, Other(s), Append(pipe[Other(s)], m))
CanReceive(s) == pipe[s] # <<>>
PeerGone(s) == pipe[s] = <<>> /\ shut[Other(s)]
Take(s) == pipe' = Set(pipe, s, Tail(pipe[s]))

Init ==
  /\ role \in [Side -> Role] /\ trusts \in [Side -> BOOLEAN]
  /\ pc = [s \in Side |-> "start"] /\ pipe = [s \in Side |-> <<>>]
  /\ shut = [s \in Side |-> FALSE] /\ closed = [s \in Side |-> FALSE]
  /\ tx = [s \in Side |-> 1] /\ rx = [s \in Side |-> 1]
  /\ sent = [s \in Side |-> 0] /\ received = [s \in Side |-> <<>>]
  /\ final = [s \in Side |-> FALSE]

\* A throwing handshake destroys the transport, which closes this half.
Abandon(s) == Goto(s, "gone") /\ shut' = Set(shut, s, TRUE) /\ UNCHANGED <<conf, pipe, closed, tx, rx, logs>>

\* handshakeSodium and bootstrap: send before receiving, twice.
Emit(s, here, m, there) ==
  /\ At(s, here) /\ CanSend(s) /\ Send(s, m) /\ Goto(s, there)
  /\ UNCHANGED <<conf, shut, closed, tx, rx, logs>>
SendHello(s) == Emit(s, "start", Hello, "helloSent")
SendHeader(s) == Emit(s, "keyed", Header, "headerSent")
\* Mutant: an identity mismatch is only logged.
ReceiveHelloAny(s) ==
  /\ At(s, "helloSent") /\ CanReceive(s) /\ Take(s) /\ Goto(s, "keyed")
  /\ UNCHANGED <<conf, shut, closed, tx, rx, logs>>
ReceiveHello(s) ==
  /\ At(s, "helloSent") /\ CanReceive(s) /\ Take(s)
  /\ Goto(s, IF trusts[s] THEN "keyed" ELSE "gone")
  /\ shut' = Set(shut, s, ~trusts[s])
  /\ UNCHANGED <<conf, closed, tx, rx, logs>>
ReceiveHeader(s) ==
  /\ At(s, "headerSent") /\ CanReceive(s) /\ Take(s) /\ Goto(s, "up")
  /\ UNCHANGED <<conf, shut, closed, tx, rx, logs>>
HandshakeThrows(s) ==
  /\ \/ pc[s] \in {"start", "keyed"} /\ ~CanSend(s)
     \/ pc[s] \in {"helloSent", "headerSent"} /\ PeerGone(s)
  /\ Abandon(s)

\* sendFrame encrypts, which advances the stream, then sends the length.
SendLength(s) ==
  /\ At(s, "up") /\ ~closed[s] /\ tx[s] <= MaxFrames /\ tx' = Set(tx, s, tx[s] + 1)
  /\ IF CanSend(s) THEN Send(s, Length) /\ Goto(s, "sending") ELSE UNCHANGED <<pipe, pc>>
  /\ UNCHANGED <<conf, shut, closed, rx, logs>>
SendCipher(s) ==
  /\ At(s, "sending") /\ Goto(s, "up")
  /\ IF CanSend(s) THEN Send(s, Cipher(s, tx[s] - 1, "message")) /\ sent' = Set(sent, s, sent[s] + 1)
                   ELSE UNCHANGED <<pipe, sent>>
  /\ UNCHANGED <<conf, shut, closed, tx, rx, received, final>>

\* recvFrame is called, and reads the length.
Receive(s) ==
  /\ At(s, "up") /\ ~closed[s] /\ Goto(s, "receiving")
  /\ UNCHANGED <<conf, pipe, shut, closed, tx, rx, logs>>
ReceiveLength(s) ==
  /\ At(s, "receiving") /\ CanReceive(s) /\ Take(s) /\ Goto(s, "lengthRead")
  /\ UNCHANGED <<conf, shut, closed, tx, rx, logs>>

\* The ciphertext opens, ends the channel if final, or fails to authenticate.
Opens(s, m) == m.kind = "cipher" /\ m.key = RxKey(s) /\ m.number = rx[s]
\* Mutant: the tag is not looked at.
ReceiveCipherUntagged(s) ==
  /\ At(s, "lengthRead") /\ CanReceive(s) /\ Take(s) /\ Goto(s, "up")
  /\ LET m == Head(pipe[s]) IN
       IF ~Opens(s, m) THEN UNCHANGED <<rx, received>>
       ELSE rx' = Set(rx, s, rx[s] + 1) /\ received' = Set(received, s, Append(received[s], m.number))
  /\ UNCHANGED <<conf, shut, closed, tx, sent, final>>
ReceiveCipher(s) ==
  /\ At(s, "lengthRead") /\ CanReceive(s) /\ Take(s) /\ Goto(s, "up")
  /\ LET m == Head(pipe[s]) IN
       IF ~Opens(s, m) THEN UNCHANGED <<rx, closed, received, final>>
       ELSE /\ rx' = Set(rx, s, rx[s] + 1)
            /\ IF m.tag = "final" THEN closed' = Set(closed, s, TRUE) /\ final' = Set(final, s, TRUE) /\ UNCHANGED received
               ELSE received' = Set(received, s, Append(received[s], m.number)) /\ UNCHANGED <<closed, final>>
  /\ UNCHANGED <<conf, shut, tx, sent>>
\* Mutant: a closed pipe reads as a clean end.
ReceiveThrowsFinal(s) ==
  /\ pc[s] \in {"receiving", "lengthRead"} /\ PeerGone(s) /\ Goto(s, "up")
  /\ final' = Set(final, s, TRUE) /\ closed' = Set(closed, s, TRUE)
  /\ UNCHANGED <<conf, pipe, shut, tx, rx, sent, received>>
\* Mutant: only an end inside a frame notices that its peer has gone.
ReceiveThrowsInside(s) ==
  /\ At(s, "lengthRead") /\ PeerGone(s) /\ Goto(s, "up")
  /\ UNCHANGED <<conf, pipe, shut, closed, tx, rx, logs>>
ReceiveThrows(s) ==
  /\ pc[s] \in {"receiving", "lengthRead"} /\ PeerGone(s) /\ Goto(s, "up")
  /\ UNCHANGED <<conf, pipe, shut, closed, tx, rx, logs>>

\* Mutant: closing a closed channel sends the final tag again.
CloseLengthTwice(s) ==
  /\ At(s, "up") /\ CanSend(s) /\ Send(s, Length) /\ Goto(s, "closing")
  /\ tx' = Set(tx, s, tx[s] + 1)
  /\ UNCHANGED <<conf, shut, closed, rx, logs>>

\* closeClean: the final tag, then this half is closed; it throws halfway when
\* the peer has closed already, and the channel does not count as closed.
CloseLength(s) ==
  /\ At(s, "up") /\ ~closed[s] /\ CanSend(s) /\ Send(s, Length) /\ Goto(s, "closing")
  /\ tx' = Set(tx, s, tx[s] + 1)
  /\ UNCHANGED <<conf, shut, closed, rx, logs>>
CloseCipher(s) ==
  /\ At(s, "closing") /\ Goto(s, "up")
  /\ IF CanSend(s)
       THEN /\ Send(s, Cipher(s, tx[s] - 1, "final"))
            /\ shut' = Set(shut, s, TRUE) /\ closed' = Set(closed, s, TRUE)
       ELSE UNCHANGED <<pipe, shut, closed>>
  /\ UNCHANGED <<conf, tx, rx, logs>>

\* The application drops the channel.
Drop(s) == pc[s] = "up" /\ Abandon(s)

Handshake(s) == SendHello(s) \/ ReceiveHello(s) \/ SendHeader(s) \/ ReceiveHeader(s) \/ HandshakeThrows(s)
Continue(s) == SendCipher(s) \/ ReceiveLength(s) \/ ReceiveCipher(s) \/ ReceiveThrows(s) \/ CloseCipher(s)
Call(s) == SendLength(s) \/ Receive(s) \/ CloseLength(s) \/ Drop(s)
Next == \E s \in Side : Handshake(s) \/ Continue(s) \/ Call(s)

\* A call runs on while it can; the application need not make one.
Spec == Init /\ [][Next]_vars
FairSpec == Spec /\ \A s \in Side : WF_vars(Handshake(s) \/ Continue(s))
-----------------------------------------------------------------------------
Established(s) == pc[s] \notin {"start", "helloSent", "keyed", "headerSent", "gone"}

\* The types of the state.
TypeOK ==
  /\ role \in [Side -> Role] /\ trusts \in [Side -> BOOLEAN]
  /\ pc \in [Side -> {"start", "helloSent", "keyed", "headerSent", "up", "sending", "receiving",
                      "lengthRead", "closing", "gone"}]
  /\ \A s \in Side : \A i \in DOMAIN pipe[s] : pipe[s][i].kind \in {"hello", "header", "length", "cipher"}
  /\ shut \in [Side -> BOOLEAN] /\ closed \in [Side -> BOOLEAN] /\ final \in [Side -> BOOLEAN]
  /\ \A s \in Side : tx[s] \in 1..(MaxFrames + 2) /\ rx[s] \in 1..(MaxFrames + 2) /\ sent[s] \in 0..MaxFrames

\* "built-in ordering + replay protection": an end receives the frames its peer
\* sent, in order, none missing and none twice, up to some point.
InOrder == \A s \in Side :
  /\ \A i \in DOMAIN received[s] : received[s][i] = i
  /\ Len(received[s]) <= sent[Other(s)]

\* "TAG_FINAL sentinel for clean shutdown detection": an end that meets the final
\* tag has every frame its peer sent; a pipe that just closes never looks like it.
FinalMeansAll == \A s \in Side : final[s] => Len(received[s]) = sent[Other(s)]

\* "mutual identity check on handshake": an end accepts a frame only from a peer
\* that accepted its identity too, and that took the other role.
MutuallyTrusted == \A s \in Side :
  received[s] # <<>> => trusts["A"] /\ trusts["B"] /\ role["A"] # role["B"]

\* No end waits for ever: both send first in the handshake, so each comes to an end,
\* established or thrown; and recvFrame "Throws on connection close mid-frame"
\* (MpsvsSecureChannel.h:93), so a receiver whose peer has closed is woken.
NoEndIsLeftWaiting == \A s \in Side :
  /\ <>(Established(s) \/ pc[s] = "gone")
  /\ (pc[s] \in {"receiving", "lengthRead"} /\ shut[Other(s)]) ~> At(s, "up")
=============================================================================
