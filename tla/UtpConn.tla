------------------------------- MODULE UtpConn ------------------------------
(***************************************************************************)
(* The two windows of a uTP connection (bittorrent/utp/src/conn/window.rs) *)
(* as values and operators on them.  A payload is a nonempty sequence of   *)
(* chunks, a chunk being the payload of a packet of the smallest size;     *)
(* windows and packets are measured in chunks, headers in nothing.         *)
(***************************************************************************)
EXTENDS Integers, Sequences, SequencesExt, Bags

CONSTANTS
  SeqN,          \* the number of seqs: 2^16
  AcceptBehind,  \* RECV_ACCEPT_SEQ_RANGE is -AcceptBehind ..= AcceptAhead
  AcceptAhead,
  DupAcks,       \* NUM_DUPLICATED_ACKS
  AcksPast,      \* NUM_ACKS_PAST
  RecvSize,      \* recv_window_size
  SendLimit      \* send_window_size_limit

ASSUME WindowConstants ==
  /\ {SeqN, DupAcks, AcksPast, RecvSize, SendLimit} \subseteq Nat \ {0}
  /\ {AcceptBehind, AcceptAhead} \subseteq Nat
  /\ AcceptBehind + AcceptAhead < SeqN \div 2

None == -1  \* the None of an Option<u16>
Least(a, b) == IF a <= b THEN a ELSE b
Magnitude(d) == IF d >= 0 THEN d ELSE -d
Plus(seq, n) == (seq + n) % SeqN
Size(payloads) == Len(FlattenSeq(payloads))

\* How far target is ahead of origin, the shorter way round.
Measure(origin, target) ==
  LET d == target - origin
      wraparound == IF d >= 0 THEN d - SeqN ELSE d + SeqN
  IN IF Magnitude(d) <= Magnitude(wraparound) THEN d ELSE wraparound

(* The receive window.  packets[i] is the payload with seq inOrder + i that  *)
(* came out of order, or <<>>.                                               *)

NewRecv(ack) == [size |-> RecvSize, inOrder |-> ack, packets |-> <<>>, eof |-> None]

\* Mutant of RecvCompleted: the finish packet completes, whatever is missing.
RecvCompletedEarly(w) == w.eof # None

RecvCompleted(w) == w.eof # None /\ Measure(w.inOrder, w.eof) = 1

Run(w) == LET holes == {i \in DOMAIN w.packets : w.packets[i] = <<>>}
          IN IF holes = {} THEN Len(w.packets) ELSE Min(holes) - 1

FindAck(w) == Plus(w.inOrder, Run(w))

\* The bits of the selective ack: bit i stands for ack + 2 + i.
SelectiveAck(w) ==
  {i \in 0 .. Len(w.packets) : Run(w) + 2 + i \in DOMAIN w.packets
                               /\ w.packets[Run(w) + 2 + i] # <<>>}

RecvError(w, seq) ==
  CASE w.eof # None /\ Measure(seq, w.eof) <= 0 -> "SeqExceedEof"
    [] Measure(w.inOrder, seq) \notin -AcceptBehind .. AcceptAhead -> "DistantSeq"
    [] OTHER -> "none"

\* Mutant of Recv: a packet that came before is stored again.
RecvTwice(w, seq, payload) ==
  LET d == Measure(w.inOrder, seq)
      n == IF d > Len(w.packets) THEN d ELSE Len(w.packets)
      i == IF d < 1 THEN 1 ELSE d
  IN [w EXCEPT !.size = @ - Len(payload),
               !.packets = [j \in 1 .. IF n < 1 THEN 1 ELSE n |->
                  IF j = i THEN payload ELSE IF j \in DOMAIN @ THEN @[j] ELSE <<>>]]

\* Stores a payload, unless it came before.
Recv(w, seq, payload) ==
  LET d == Measure(w.inOrder, seq)
      n == IF d > Len(w.packets) THEN d ELSE Len(w.packets)
  IN IF d < 1 \/ (d \in DOMAIN w.packets /\ w.packets[d] # <<>>)
     THEN w
     ELSE [w EXCEPT !.size = @ - Len(payload),
                    !.packets = [j \in 1 .. n |->
                       IF j = d THEN payload ELSE IF j \in DOMAIN @ THEN @[j] ELSE <<>>]]

\* What next returns until it returns None, and the window after that.
Ready(w) == SubSeq(w.packets, 1, Run(w))
Drained(w) == [w EXCEPT !.size = @ + Size(Ready(w)), !.inOrder = FindAck(w),
                        !.packets = SubSeq(@, Run(w) + 1, Len(@))]

(* The send window. *)

NewSend(seq) == [used |-> 0, sizeSeq |-> None, size |-> 0, limit |-> SendLimit, seq |-> seq,
                 inflights |-> <<>>, last |-> [seq |-> None, acks |-> 0], eof |-> FALSE]

SendCompleted(w) == w.eof /\ w.inflights = <<>>

SizeIsFresh(w, seq) == w.sizeSeq = None \/ Measure(w.sizeSeq, seq) >= 0
SetSize(w, seq, size) ==
  IF SizeIsFresh(w, seq) THEN [w EXCEPT !.sizeSeq = seq, !.size = size] ELSE w

Room(w) == LET free == Least(w.size, w.limit) - w.used IN IF free > 0 THEN free ELSE 0

CheckAck(w, ack, sack) ==
  \A a \in {ack} \cup {Plus(ack, 2 + i) : i \in sack} : Measure(a, w.seq) >= 0

Push(w, payload) ==
  [w EXCEPT !.used = @ + Len(payload), !.seq = Plus(@, 1),
            !.inflights = Append(@, [seq |-> w.seq, payload |-> payload, resends |-> 0, acks |-> 0])]

\* Acks are counted up to the number that is_packet_lost asks for.
Acked(f) == [f EXCEPT !.acks = Least(@ + 1, DupAcks)]

\* Mutant of RecvAck: an ack counts for the packet after it too.
RecvAckOneMore(w, ack, sack) ==
  LET d(seq) == Measure(w.inflights[1].seq, seq)
  IN [w EXCEPT !.inflights = [i \in DOMAIN @ |->
        IF d(@[i].seq) <= d(ack) + 1 \/ \E b \in sack : @[i].seq = Plus(ack, 2 + b)
        THEN Acked(@[i]) ELSE @[i]]]

RecvAck(w, ack, sack) ==
  LET d(seq) == Measure(w.inflights[1].seq, seq)
  IN [w EXCEPT !.inflights = [i \in DOMAIN @ |->
        IF d(@[i].seq) <= d(ack) \/ \E b \in sack : @[i].seq = Plus(ack, 2 + b)
        THEN Acked(@[i]) ELSE @[i]]]

\* The assertion of is_packet_lost, which looks at the front packet only.
SeqHole(w) ==
  /\ w.inflights # <<>> /\ w.inflights[1].acks = 0 /\ w.last.seq # None
  /\ Measure(w.last.seq, w.inflights[1].seq) # 1

IsPacketLost(w, i) ==
  LET before == IF i = 1 THEN w.last.acks ELSE w.inflights[i - 1].acks
      past == {j \in i + 1 .. Len(w.inflights) : w.inflights[j].acks > 0}
  IN /\ w.inflights[i].acks = 0
     /\ before >= DupAcks \/ Cardinality(past) >= AcksPast

\* Mutant of RemoveAcked: every acknowledged packet goes, not just the first ones.
RemoveAllAcked(w) ==
  LET gone == SelectSeq(w.inflights, LAMBDA f : f.acks > 0)
  IN IF gone = <<>> THEN w
     ELSE [w EXCEPT !.used = @ - Size([i \in DOMAIN gone |-> gone[i].payload]),
                    !.inflights = SelectSeq(@, LAMBDA f : f.acks = 0),
                    !.last = [seq |-> Last(gone).seq, acks |-> Last(gone).acks]]

\* The loop over remove: the packets in front that have been acknowledged.
RemoveAcked(w) ==
  LET unacked == {i \in DOMAIN w.inflights : w.inflights[i].acks = 0}
      n == IF unacked = {} THEN Len(w.inflights) ELSE Min(unacked) - 1
      gone == SubSeq(w.inflights, 1, n)
  IN IF n = 0 THEN w
     ELSE [w EXCEPT !.used = @ - Size([i \in DOMAIN gone |-> gone[i].payload]),
                    !.inflights = SubSeq(@, n + 1, Len(@)),
                    !.last = [seq |-> Last(gone).seq, acks |-> Last(gone).acks]]

-----------------------------------------------------------------------------
(***************************************************************************)
(* A uTP connection (bittorrent/utp/src/conn/*.rs, bstream.rs): the actors *)
(* at its two ends, the streams their applications hold, and a network     *)
(* that loses, duplicates and reorders packets.                            *)
(*                                                                         *)
(* The halves of an actor run in one task, so what stands between two      *)
(* awaits is one step.  Time is not measured: a timer may fire whenever it *)
(* runs.  The outgoing queue (4096 packets) is taken not to fill up.       *)
(***************************************************************************)

CONSTANTS
  Plans,        \* what may happen in a behaviour, see plan
  FirstSeq,     \* [end -> the random seq a handshake starts with]
  FirstSize,    \* packet_size, in chunks: by default the smallest
  PacketSizes,  \* [end -> the packet sizes path MTU discovery reports, in chunks]
  StreamSize    \* incoming_queue_size of the receiving stream

Ends == {"a", "b"}  \* a connects to b
Peer(e) == IF e = "a" THEN "b" ELSE "a"

VARIABLES
  phase,     \* where an actor is
  cause,     \* why it ended
  snd, rcv,  \* its windows
  ctl,       \* the rest of its State and RecvState
  recvHalf, sendHalf,
  payload,   \* what the send half still has to send of the buffer it was given
  todo,      \* what the receive half still has to put into the stream
  stream,    \* the queue of the receiving stream
  reader,    \* what the application got from it, and how it ended
  written,   \* how many chunks the application wrote
  net,       \* the packets that are on their way, to one end or the other
  losses, dups,
  plan       \* bounds: how many chunks each application may write, which readers may be slow
             \* or drop their stream, which sockets may stop or fall behind, the resend_limit,
             \* how many packets the network may lose and duplicate

appVars == <<stream, reader, written>>
netVars == <<net, losses, dups, plan>>
actorVars == <<phase, cause, snd, rcv, ctl, recvHalf, sendHalf, payload, todo>>
utpVars == <<actorVars, appVars, netVars>>

Gone == {"ended", "failed", "panicked"}
MinSize == 1       \* MIN_PACKET_SIZE, in chunks
Failure == <<0>>   \* an error in the queue of a stream: no chunk is numbered 0
RecvId(e) == IF e = "a" THEN 0 ELSE 1
SendId(e) == IF e = "a" THEN 1 ELSE 0

\* delay and sampled say whether send_delay is nonzero and whether the delay
\* window has a sample; their values only matter to the size of the window.
NewCtl == [delay |-> FALSE, sampled |-> FALSE, packet |-> Max({FirstSize, MinSize}), grace |-> FALSE,
           finAck |-> FALSE, permit |-> FALSE]

Packet(e, type, seq, ack, sack, data, d, size) ==
  [to |-> Peer(e), type |-> type, id |-> IF type = "syn" THEN RecvId(e) ELSE SendId(e),
   seq |-> seq, ack |-> ack, sack |-> sack, data |-> data, delay |-> d, size |-> size]

\* State::new_packet: the window it announces is never negative.
Made(e, type, seq, ack, sack, data, w) ==
  Packet(e, type, seq, ack, sack, data, ctl[e].delay, IF w.size < 0 THEN 0 ELSE w.size)
ResetOf(e) == Made(e, "reset", snd[e].seq, FindAck(rcv[e]), {}, <<>>, rcv[e])
DataOf(e, f) == Made(e, "data", f.seq, FindAck(rcv[e]), {}, f.payload, rcv[e])

One(p) == SetToBag({p})

\* What is on its way to an actor that is gone makes no difference.
Reaching(bag, gone) == [p \in {q \in DOMAIN bag : q.to \notin gone} |-> bag[p]]
GoneEnds == {e \in Ends : phase[e] \in Gone}
Post(rest, packets) == net' = Reaching(rest (+) SetToBag(packets), GoneEnds)

UtpInit ==
  /\ phase = [e \in Ends |-> IF e = "a" THEN "closed" ELSE "listen"]
  /\ cause = [e \in Ends |-> "none"]
  /\ snd = [e \in Ends |-> NewSend(FirstSeq[e])]
  /\ rcv = [e \in Ends |-> NewRecv(0)]
  /\ ctl = [e \in Ends |-> NewCtl]
  /\ recvHalf = [e \in Ends |-> "receiving"]
  /\ sendHalf = [e \in Ends |-> "idle"]
  /\ payload = [e \in Ends |-> <<>>]
  /\ todo = [e \in Ends |-> <<>>]
  /\ stream = [e \in Ends |-> <<>>]
  /\ reader = [e \in Ends |-> [got |-> <<>>, end |-> "open"]]
  /\ written = [e \in Ends |-> 0]
  /\ net = EmptyBag /\ losses = 0 /\ dups = 0
  /\ plan \in Plans

(* How an actor ends. *)

Ended(e, how, why, rest) ==
  /\ phase' = [phase EXCEPT ![e] = how]
  /\ cause' = [cause EXCEPT ![e] = why]
  /\ ctl' = [ctl EXCEPT ![e] = NewCtl]
  /\ recvHalf' = [recvHalf EXCEPT ![e] = "done"]
  /\ sendHalf' = [sendHalf EXCEPT ![e] = "done"]
  /\ payload' = [payload EXCEPT ![e] = <<>>]
  /\ todo' = [todo EXCEPT ![e] = <<>>]
  /\ net' = Reaching(rest, GoneEnds \cup {e})
  /\ UNCHANGED <<losses, dups, plan>>

\* Mutant of Fail: the peer is not told.
FailQuietly(e, why, rest) ==
  /\ Ended(e, "failed", why, rest)
  /\ stream' = [stream EXCEPT ![e] =
                  IF reader[e].end = "open" /\ Len(@) < StreamSize THEN Append(@, Failure) ELSE @]
  /\ UNCHANGED <<snd, rcv, reader, written>>

\* abort_stream and abort_peer: the error is put into the stream if there is room.
Fail(e, why, rest) ==
  /\ Ended(e, "failed", why, rest (+) One(ResetOf(e)))
  /\ stream' = [stream EXCEPT ![e] =
                  IF reader[e].end = "open" /\ Len(@) < StreamSize THEN Append(@, Failure) ELSE @]
  /\ UNCHANGED <<snd, rcv, reader, written>>

\* A panic takes the actor away; nothing is sent.
Panic(e, why, rest) ==
  Ended(e, "panicked", why, rest) /\ UNCHANGED <<snd, rcv, appVars>>

(* The handshake. *)

Connect(e) ==
  /\ e = "a" /\ phase[e] = "closed"
  /\ phase' = [phase EXCEPT ![e] = "syn_sent"]
  /\ snd' = [snd EXCEPT ![e].seq = Plus(@, 1)]
  /\ Post(net, {Packet(e, "syn", snd[e].seq, 0, {}, <<>>, FALSE, RecvSize)})
  /\ UNCHANGED <<cause, rcv, ctl, recvHalf, sendHalf, payload, todo, appVars, losses, dups, plan>>

Drop(rest) == net' = rest /\ UNCHANGED <<actorVars, appVars, losses, dups, plan>>

\* No reset is sent when a handshake fails, and the stream is dropped; a listener
\* waits for the next packet.
HandshakeFails(e, why, rest) ==
  IF e = "b" THEN Drop(rest)
  ELSE /\ phase' = [phase EXCEPT ![e] = "failed"]
       /\ cause' = [cause EXCEPT ![e] = why]
       /\ reader' = [reader EXCEPT ![e].end = "dropped"]
       /\ net' = Reaching(rest, GoneEnds \cup {e})
       /\ UNCHANGED <<snd, rcv, ctl, recvHalf, sendHalf, payload, todo, stream, written,
                      losses, dups, plan>>

ConnectTimeout(e) == phase[e] = "syn_sent" /\ HandshakeFails(e, "ConnectTimeout", net)

Opened(e, p, ack, rest) ==
  /\ phase' = [phase EXCEPT ![e] = "open"]
  /\ rcv' = [rcv EXCEPT ![e] = NewRecv(ack)]
  /\ snd' = [snd EXCEPT ![e] = SetSize(@, p.seq, p.size)]
  /\ ctl' = [ctl EXCEPT ![e].delay = TRUE, ![e].sampled = p.delay]
  /\ net' = Reaching(rest, GoneEnds)
  /\ UNCHANGED <<cause, recvHalf, sendHalf, payload, todo, appVars, losses, dups, plan>>

Shake(e, p, rest) ==
  \/ phase[e] = "syn_sent" /\ p.id # RecvId(e) /\ Drop(rest)
  \/ /\ phase[e] = "syn_sent" /\ p.id = RecvId(e)
     /\ IF p.type = "state" THEN Opened(e, p, Plus(p.seq, SeqN - 1), rest)
                            ELSE HandshakeFails(e, "ExpectPacketType", rest)
  \/ /\ phase[e] = "listen"
     /\ IF p.type = "syn"
        THEN Opened(e, p, p.seq, rest (+) One(
               Packet(e, "state", snd[e].seq, p.seq, {}, <<>>, FALSE, RecvSize)))
        ELSE HandshakeFails(e, "ExpectPacketType", rest)

(* The receive half. *)

Completed(e, s, r) == SendCompleted(s) /\ (RecvCompleted(r) \/ reader[e].end = "dropped")
OnlyRecvOpen(e) ==
  /\ SendCompleted(snd[e])
  /\ ~(RecvCompleted(rcv[e]) \/ reader[e].end = "dropped")

\* The top of the loop of recv.
Loop(e, s, r) == IF Completed(e, s, r) THEN "done" ELSE "receiving"

PacketError(e, p) ==
  LET eof == rcv[e].eof
  IN CASE p.type = "syn" -> "UnexpectedResynchronize"
       [] ~CheckAck(snd[e], p.ack, p.sack) -> "AckExceedSeq"
       [] p.type = "data" -> RecvError(rcv[e], p.seq)
       [] p.type = "state" /\ eof # None /\ Measure(p.seq, eof) < -1 -> "SeqExceedEof"
       [] p.type = "fin" /\ eof # None /\ eof # p.seq -> "DifferentEof"
       [] OTHER -> "none"

\* The congestion control of BEP 29 moves the limit by an amount that depends on
\* delays; beyond SendLimit it would not matter, as the peer announces no more.
Limits(limit) == {limit - 1, limit, limit + 1} \cap (0 .. SendLimit)

Resent(w, lost) ==
  [w EXCEPT !.inflights = [i \in DOMAIN @ |-> IF i \in lost THEN [@[i] EXCEPT !.resends = @ + 1]
                                                            ELSE @[i]]]

\* Mutant of Exhausted: the limit may be passed by one.
ExhaustedLate(w, lost) == \E i \in lost : w.inflights[i].resends > plan.resends

Exhausted(w, lost) == \E i \in lost : w.inflights[i].resends >= plan.resends
Resends(e, w, lost) == {DataOf(e, w.inflights[i]) : i \in lost}

\* The send window after handle_packet has counted the acks of p.
AfterAcks(e, p) ==
  LET s == SetSize(snd[e], p.seq, p.size)
  IN RemoveAcked(IF p.type = "state" THEN RecvAck(s, p.ack, p.sack) ELSE s)

\* Mutant of Woken: only a new size of the window or a resend wakes the send half.
WokenBySize(e, p, w, lost) == w.size # snd[e].size \/ lost # {}

\* Whether handle_packet notifies the send half.
Woken(e, p, w, lost) ==
  \/ SizeIsFresh(snd[e], p.seq) \/ p.type = "state"
  \/ Len(w.inflights) < Len(snd[e].inflights) \/ lost # {}

\* Mutant of FinAckDue: the finish packet is acknowledged when it comes.
FinAckOnFinish(e, p, r) == ~ctl[e].finAck /\ p.type = "fin" /\ RecvCompleted(r)

FinAckDue(e, p, r) == ~ctl[e].finAck /\ RecvCompleted(r)

Lost(w) == {i \in DOMAIN w.inflights : IsPacketLost(w, i)}

\* handle_packet, and the packets it returns, which recv sends at once.
HandlePacket(e, p, rest) ==
  LET r == CASE p.type = "data" -> Recv(rcv[e], p.seq, p.data)
             [] p.type = "fin" -> [rcv[e] EXCEPT !.eof = p.seq]
             [] OTHER -> rcv[e]
      drained == IF p.type = "data" THEN Drained(r) ELSE r
      ready == IF p.type = "data" /\ reader[e].end # "dropped" THEN Ready(r) ELSE <<>>
      s == AfterAcks(e, p)
      lost == Lost(s)
      State(ack, sack) == Made(e, "state", s.seq, ack, sack, <<>>, drained)
      acks == IF p.type = "data" THEN {State(FindAck(drained), SelectiveAck(drained))} ELSE {}
      finAck == IF FinAckDue(e, p, drained) THEN {State(drained.eof, {})} ELSE {}
  IN \E limit \in IF p.type = "state" /\ s.used # 0 THEN Limits(s.limit) ELSE {s.limit} :
       LET final == [Resent(s, lost) EXCEPT !.limit = IF lost = {} THEN limit ELSE limit \div 2]
       IN /\ snd' = [snd EXCEPT ![e] = final]
          /\ rcv' = [rcv EXCEPT ![e] = drained]
          /\ ctl' = [ctl EXCEPT ![e].sampled = @ \/ p.delay,
                                ![e].grace = @ \/ p.type = "fin",
                                ![e].finAck = @ \/ FinAckDue(e, p, drained),
                                ![e].permit = @ \/ Woken(e, p, s, lost)]
          /\ todo' = [todo EXCEPT ![e] = ready]
          /\ recvHalf' = [recvHalf EXCEPT ![e] =
                            IF ready = <<>> THEN Loop(e, final, drained) ELSE "delivering"]
          /\ Post(rest, acks \cup finAck \cup Resends(e, s, lost))
          /\ UNCHANGED <<phase, cause, sendHalf, payload, appVars, losses, dups, plan>>

\* apply_control subtracts the smallest delay seen from the one in the packet,
\* which fails when none was seen, and may fail when the packet says 0.
ZeroDelay(e, p) == p.type = "state" /\ AfterAcks(e, p).used # 0 /\ ~p.delay

Handle(e, p, rest) ==
  \/ PacketError(e, p) # "none" /\ Fail(e, PacketError(e, p), rest)
  \/ /\ PacketError(e, p) = "none"
     /\ \/ ZeroDelay(e, p) /\ Panic(e, "delay", rest)
        \/ /\ ZeroDelay(e, p) => ctl[e].sampled
           /\ IF Exhausted(AfterAcks(e, p), Lost(AfterAcks(e, p)))
              THEN Fail(e, "ResendLimitExceeded", rest)
              ELSE HandlePacket(e, p, rest)

RecvDone(e) == recvHalf' = [recvHalf EXCEPT ![e] = "done"]

RecvPacket(e, p, rest) ==
  /\ phase[e] = "open" /\ recvHalf[e] = "receiving"
  /\ \/ p.id # RecvId(e) /\ Drop(rest)
     \/ /\ p.id = RecvId(e) /\ p.type = "reset"
        /\ IF Completed(e, snd[e], rcv[e])
           THEN /\ RecvDone(e) /\ net' = rest
                /\ UNCHANGED <<phase, cause, snd, rcv, ctl, sendHalf, payload, todo, appVars,
                               losses, dups, plan>>
           ELSE Fail(e, "ConnectionReset", rest)
     \/ p.id = RecvId(e) /\ p.type # "reset" /\ Handle(e, p, rest)

\* The branches of recv_packet that no packet takes.
RecvIdle(e) ==
  /\ phase[e] = "open" /\ recvHalf[e] = "receiving"
  /\ Completed(e, snd[e], rcv[e])
  /\ RecvDone(e)
  /\ UNCHANGED <<phase, cause, snd, rcv, ctl, sendHalf, payload, todo, appVars, netVars>>

GracePeriodExpires(e) ==
  /\ phase[e] = "open" /\ recvHalf[e] = "receiving"
  /\ ctl[e].grace /\ OnlyRecvOpen(e)
  /\ Fail(e, "RecvGracePeriodExpired", net)

\* stream_incoming_send: the next payload goes into the queue of the stream; all
\* are dropped when the stream was dropped.
Deliver(e) ==
  /\ phase[e] = "open" /\ recvHalf[e] = "delivering"
  /\ reader[e].end = "dropped" \/ Len(stream[e]) < StreamSize
  /\ LET rest == IF reader[e].end = "dropped" THEN <<>> ELSE Tail(todo[e])
     IN /\ todo' = [todo EXCEPT ![e] = rest]
        /\ recvHalf' = [recvHalf EXCEPT ![e] =
                          IF rest = <<>> THEN Loop(e, snd[e], rcv[e]) ELSE @]
  /\ stream' = [stream EXCEPT ![e] = IF reader[e].end = "dropped" THEN @
                                     ELSE Append(@, Head(todo[e]))]
  /\ UNCHANGED <<phase, cause, snd, rcv, ctl, sendHalf, payload, reader, written, netVars>>

RecvBufferTimeout(e) ==
  /\ e \in plan.slow
  /\ phase[e] = "open" /\ recvHalf[e] = "delivering"
  /\ reader[e].end = "open" /\ Len(stream[e]) = StreamSize
  /\ Fail(e, "RecvBufferTimeout", net)

(* The send half. *)

\* make_data_packet, and the packet it returns, which send_payload sends.
SendPacket(e, n) ==
  LET data == SubSeq(payload[e], 1, n)
      rest == SubSeq(payload[e], n + 1, Len(payload[e]))
  IN /\ snd' = [snd EXCEPT ![e] = Push(@, data)]
     /\ payload' = [payload EXCEPT ![e] = rest]
     /\ sendHalf' = [sendHalf EXCEPT ![e] = IF rest = <<>> THEN "idle" ELSE "sending"]
     /\ Post(net, {DataOf(e, [seq |-> snd[e].seq, payload |-> data])})
     /\ UNCHANGED <<phase, cause, rcv, ctl, recvHalf, todo, appVars, losses, dups, plan>>

Send(e) ==
  LET n == Least(Least(ctl[e].packet, Len(payload[e])), Room(snd[e]))
  IN /\ phase[e] = "open" /\ sendHalf[e] = "sending"
     /\ \/ n > 0 /\ SendPacket(e, n)
        \/ /\ n = 0 /\ sendHalf' = [sendHalf EXCEPT ![e] = "waiting"]
           /\ UNCHANGED <<phase, cause, snd, rcv, ctl, recvHalf, payload, todo, appVars, netVars>>

SendWakes(e) ==
  /\ phase[e] = "open" /\ sendHalf[e] = "waiting" /\ ctl[e].permit
  /\ ctl' = [ctl EXCEPT ![e].permit = FALSE]
  /\ sendHalf' = [sendHalf EXCEPT ![e] = "sending"]
  /\ UNCHANGED <<phase, cause, snd, rcv, recvHalf, payload, todo, appVars, netVars>>

\* After the send timeout a packet of the smallest size goes out even though the
\* window is full.
SendTimeout(e) ==
  LET room == Least(ctl[e].packet, Least(Len(payload[e]), Room(snd[e])))
  IN /\ phase[e] = "open" /\ sendHalf[e] = "waiting"
     /\ SendPacket(e, IF room > 0 THEN room ELSE Least(MinSize, Len(payload[e])))

\* The application drops its sending stream: the send half sends a finish packet,
\* once, and is done.
Shutdown(e) ==
  /\ phase[e] = "open" /\ sendHalf[e] = "idle"
  /\ snd' = [snd EXCEPT ![e].eof = TRUE, ![e].seq = Plus(@, 1)]
  /\ sendHalf' = [sendHalf EXCEPT ![e] = "done"]
  /\ Post(net, {Made(e, "fin", snd[e].seq, FindAck(rcv[e]), {}, <<>>, rcv[e])})
  /\ UNCHANGED <<phase, cause, rcv, ctl, recvHalf, payload, todo, appVars, losses, dups, plan>>

(* The timer and the packet size. *)

\* handle_rtt_timeout sends again all that has not been acknowledged.
RttTimeout(e) ==
  LET s == snd[e]
      late == {i \in DOMAIN s.inflights : s.inflights[i].acks = 0}
  IN /\ phase[e] = "open" /\ late # {}
     /\ IF Exhausted(s, late)
        THEN Fail(e, "ResendLimitExceeded", net)
        ELSE /\ snd' = [snd EXCEPT ![e] = [Resent(s, late) EXCEPT !.limit = MinSize]]
             /\ ctl' = [ctl EXCEPT ![e].packet = MinSize, ![e].permit = TRUE]
             /\ Post(net, Resends(e, s, late))
             /\ UNCHANGED <<phase, cause, rcv, recvHalf, sendHalf, payload, todo, appVars,
                            losses, dups, plan>>

RecvPacketSize(e) ==
  /\ phase[e] = "open"
  /\ \E n \in PacketSizes[e] \ {ctl[e].packet} : ctl' = [ctl EXCEPT ![e].packet = n]
  /\ UNCHANGED <<phase, cause, snd, rcv, recvHalf, sendHalf, payload, todo, appVars, netVars>>

\* Both halves are done: a last reset, for which no answer is awaited.
Close(e) ==
  /\ phase[e] = "open" /\ recvHalf[e] = "done" /\ sendHalf[e] = "done"
  /\ Ended(e, "ended", "completed", net (+) One(ResetOf(e)))
  /\ UNCHANGED <<snd, rcv, appVars>>

\* The socket is shut down.  The last reset is queued, and leaves only if the socket
\* takes it before it stops itself; during a handshake there is none, and no stream.
Cancel(e) ==
  /\ e \in plan.stop /\ phase[e] \notin Gone
  /\ \/ Ended(e, "ended", "cancelled", net)
     \/ phase[e] = "open" /\ Ended(e, "ended", "cancelled", net (+) One(ResetOf(e)))
  /\ reader' = IF phase[e] = "open" THEN reader ELSE [reader EXCEPT ![e].end = "dropped"]
  /\ UNCHANGED <<snd, rcv, stream, written>>

\* A packet that finds the queue of the actor full is dropped, and the socket drops
\* the queue with it (handle_incoming): UnexpectedEof.
Overflow(e, rest) ==
  /\ e \in plan.stop
  /\ \/ phase[e] = "open" /\ Fail(e, "UnexpectedEof", rest)
     \/ phase[e] = "syn_sent" /\ HandshakeFails(e, "UnexpectedEof", rest)

(* The applications. *)

Write(e) ==
  /\ phase[e] = "open" /\ sendHalf[e] = "idle"
  /\ \E n \in written[e] + 1 .. plan.total[e] :
       /\ payload' = [payload EXCEPT ![e] = [i \in 1 .. n - written[e] |-> written[e] + i]]
       /\ written' = [written EXCEPT ![e] = n]
  /\ sendHalf' = [sendHalf EXCEPT ![e] = "sending"]
  /\ UNCHANGED <<phase, cause, snd, rcv, ctl, recvHalf, todo, stream, reader, netVars>>

\* recv_or_eof: the queue of a stream is closed when its actor is gone.
Read(e) ==
  /\ reader[e].end = "open"
  /\ \/ /\ stream[e] # <<>> /\ stream' = [stream EXCEPT ![e] = Tail(@)]
        /\ reader' = [reader EXCEPT ![e] =
             IF Head(stream[e]) = Failure THEN [@ EXCEPT !.end = "error"]
                                          ELSE [@ EXCEPT !.got = @ \o Head(stream[e])]]
     \/ /\ stream[e] = <<>> /\ phase[e] \in Gone
        /\ reader' = [reader EXCEPT ![e].end = "eof"] /\ UNCHANGED stream
  /\ UNCHANGED <<actorVars, written, netVars>>

DropStream(e) ==
  /\ e \in plan.drop /\ phase[e] = "open" /\ reader[e].end = "open"
  /\ reader' = [reader EXCEPT ![e].end = "dropped"]
  /\ stream' = [stream EXCEPT ![e] = <<>>]
  /\ UNCHANGED <<actorVars, written, netVars>>

(* The network. *)

Arrive ==
  \E p \in BagToSet(net) :
    LET rest == net (-) One(p)
    IN Shake(p.to, p, rest) \/ RecvPacket(p.to, p, rest) \/ Overflow(p.to, rest)

Lose ==
  /\ losses < plan.losses /\ losses' = losses + 1
  /\ \E p \in BagToSet(net) : net' = net (-) One(p)
  /\ UNCHANGED <<actorVars, appVars, dups, plan>>

Duplicate ==
  /\ dups < plan.dups /\ dups' = dups + 1
  /\ \E p \in BagToSet(net) : Post(net, {p})
  /\ UNCHANGED <<actorVars, appVars, losses, plan>>

EndStep(e) ==
  \/ Connect(e) \/ ConnectTimeout(e)
  \/ RecvIdle(e) \/ GracePeriodExpires(e) \/ Deliver(e) \/ RecvBufferTimeout(e)
  \/ Send(e) \/ SendWakes(e) \/ SendTimeout(e)
  \/ RttTimeout(e) \/ RecvPacketSize(e) \/ Close(e) \/ Cancel(e)
  \/ Write(e) \/ Shutdown(e) \/ Read(e) \/ DropStream(e)

UtpNext == Arrive \/ Lose \/ Duplicate \/ \E e \in Ends : EndStep(e)

-----------------------------------------------------------------------------
Seqs == 0 .. SeqN - 1
Numbers(n) == [i \in 1 .. n |-> i]

UtpTypeOK ==
  /\ phase \in [Ends -> {"closed", "syn_sent", "listen", "open"} \cup Gone]
  /\ recvHalf \in [Ends -> {"receiving", "delivering", "done"}]
  /\ sendHalf \in [Ends -> {"idle", "sending", "waiting", "done"}]
  /\ \A e \in Ends :
       /\ snd[e].seq \in Seqs /\ snd[e].used \in Nat /\ snd[e].limit \in 0 .. SendLimit
       /\ rcv[e].inOrder \in Seqs /\ rcv[e].eof \in Seqs \cup {None} /\ rcv[e].size \in Int
       /\ Len(stream[e]) <= StreamSize /\ written[e] \in 0 .. plan.total[e]
       /\ \A i \in DOMAIN snd[e].inflights : snd[e].inflights[i].resends \in 0 .. plan.resends
       /\ (recvHalf[e] = "delivering" => todo[e] # <<>>) /\ (sendHalf[e] = "sending" => payload[e] # <<>>)

Streamed(e) == SelectSeq(stream[e], LAMBDA p : p # Failure)

\* Whatever the network does, what an application reads, and what is on its way
\* to it inside its actor, is what the peer wrote from the beginning, in order and
\* without gaps or repetitions.
InOrderOnce ==
  \A e \in Ends :
    reader[e].end # "dropped" =>
      LET all == reader[e].got \o FlattenSeq(Streamed(e)) \o FlattenSeq(todo[e])
      IN all = Numbers(Len(all)) /\ Len(all) <= written[Peer(e)]

HasSeq(w, seq) ==
  LET d == Measure(w.inOrder, seq)
  IN d < 1 \/ (d \in DOMAIN w.packets /\ w.packets[d] # <<>>)

\* A sender counts as acknowledged, and forgets, only packets that the receive
\* window of the peer has taken, and its used size is that of the packets it keeps.
AckedAreReceived ==
  \A e \in Ends :
    /\ snd[e].last.seq # None => HasSeq(rcv[Peer(e)], snd[e].last.seq)
    /\ snd[e].used = Size([i \in DOMAIN snd[e].inflights |-> snd[e].inflights[i].payload])
    /\ \A i \in DOMAIN snd[e].inflights :
         snd[e].inflights[i].acks > 0 => HasSeq(rcv[Peer(e)], snd[e].inflights[i].seq)

\* The assertion of is_packet_lost: there is no hole between the last packet that
\* was acknowledged and removed and the first that is in flight.
NoSeqHoles == \A e \in Ends : ~SeqHole(snd[e])

\* The assertion at the end of recv: a receive half that has everything up to the
\* finish packet has acknowledged it.
FinishAcked ==
  \A e \in Ends :
    phase[e] = "open" /\ recvHalf[e] = "done" /\ RecvCompleted(rcv[e]) => ctl[e].finAck

\* A send half that waits while the window has room for it has been notified: it
\* does not depend on its timeout to go on.
NoLostWakeup ==
  \A e \in Ends : phase[e] = "open" /\ sendHalf[e] = "waiting" /\ Room(snd[e]) > 0 => ctl[e].permit

Whole(e) == reader[e].got = Numbers(written[Peer(e)]) /\ snd[Peer(e)].eof

\* When an actor completes, its reader gets to the end of the stream with all that
\* the peer wrote before it closed its side, and all it wrote itself has reached
\* the receive window of the peer.
CompletedIsWhole ==
  \A e \in Ends :
    cause[e] = "completed" =>
      /\ reader[e].end = "eof" => Whole(e)
      /\ snd[e].inflights = <<>>

\* An actor that has sent everything and waits for its peer, with no packet on its
\* way to it and no timer that would end it.
Stuck(e) ==
  /\ phase[e] = "open" /\ sendHalf[e] = "done" /\ recvHalf[e] = "receiving"
  /\ snd[e].inflights = <<>> /\ ~ctl[e].grace /\ ~Completed(e, snd[e], rcv[e])
  /\ \A p \in BagToSet(net) : p.to # e

\* When nothing is lost or duplicated, no actor waits for ever: not for a peer that
\* is gone, nor for one that waits for it.  A peer that gave up the handshake or was
\* shut down is the exception: its reset is not sent, or may not be.
NotStranded ==
  \A e \in Ends :
    plan.losses = 0 /\ plan.dups = 0 /\ Stuck(e) =>
      \/ phase[Peer(e)] \in {"syn_sent", "open"} /\ ~Stuck(Peer(e))
      \/ phase[Peer(e)] \in Gone /\ (snd[Peer(e)].sizeSeq = None \/ cause[Peer(e)] = "cancelled")

\* The two windows describe each other: acknowledged packets were received, and the
\* assertions of the actor about sequence numbers and the finish packet hold.
UtpInv == UtpTypeOK /\ AckedAreReceived /\ NoSeqHoles /\ FinishAcked

\* A stream is delivered in order, once, and whole when its actor says so.
StreamIsWhole == InOrderOnce /\ CompletedIsWhole

\* No half of a connection, and no end of it, waits for what will not come.
NoOneWaitsInVain == NoLostWakeup /\ NotStranded
=============================================================================
