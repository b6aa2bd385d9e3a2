-------------------------- MODULE DeviceLinkProofs --------------------------
(* Proofs about DeviceLink, for every number of calls, faults and frames:  *)
(* what is under way once a handshake has succeeded, that calls take       *)
(* effect in order, when a restart is noticed, and the order of events.    *)
EXTENDS DeviceLink, SequenceTheorems, TLAPS

\* What the bounds of the model leave a behaviour to do.
Budget == [calls : Nat, connects : Nat, taps : Nat, faults : Nat]

TypeOK ==
  /\ port \in BOOLEAN /\ phase \in Phase /\ outcome \in Outcome
  /\ delivery \in {"Delivered", "Reset"}
  /\ lastSeq \in Seqs \cup {None} /\ seq \in Seqs
  /\ nonce \in Nat /\ wait \in Nat /\ call \in Nat /\ taps \in Nat
  /\ budget \in Budget
  /\ down \in Seq(Message) /\ up \in Seq(Reply) /\ events \in Seq(Nat)
  /\ tx \in Reply \cup {None} /\ tapped \in Nat \cup {None}
  /\ epoch \in Nat /\ seen \in Nat /\ known \in Nat /\ done \in Nat /\ rejected \in Nat
  /\ polled \in Nat
  /\ excuse \subseteq {"wrap", "reconnected", "rejected", "retrim"}

-----------------------------------------------------------------------------
(* Frames and queues.                                                      *)

\* The numbers of the firmware stay below SeqMod; the successor of the last is 0.
LEMMA FollowingLemma ==
  ASSUME NEW s \in Seqs
  PROVE  /\ Following(s) \in Seqs
         /\ Following(s) = IF s = SeqMod - 1 THEN 0 ELSE s + 1
BY LinkAssumption DEF Following, Seqs

\* Each constructor builds a reply, and none of them is None.
LEMMA ReplyTypes ==
  /\ \A n \in Nat : Pong(n) \in Reply /\ TapEvent(n) \in Reply
  /\ \A m \in Message : Rejected(m) \in Reply
  /\ \A s \in Seqs, m \in Message, e \in Nat : Ack(s, m, e) \in Reply
  /\ None \notin Reply
BY NoneAssumption DEF Reply, Pong, TapEvent, Rejected, Ack

\* What the fields of a reply are, by its kind.
LEMMA ReplyFields ==
  ASSUME NEW r \in Reply
  PROVE  /\ r.kind \in {"pong", "event", "rejected", "ack"}
         /\ r.kind \in {"pong", "event"} => r.id \in Nat
         /\ r.kind = "ack" => r.seq \in Seqs /\ r.epoch \in Nat /\ r.of \in Message
         /\ r.kind = "rejected" => r.of \in Message
BY DEF Reply

LEMMA FaultLemma ==
  ASSUME budget \in Budget, Fault
  PROVE  budget' \in Budget /\ budget.faults > 0 /\ budget'.faults = budget.faults - 1
BY DEF Fault, Budget

\* A write leaves the message, a part of it or nothing behind what is under way.
LEMMA WriteLemma ==
  ASSUME NEW m \in Message, budget \in Budget, down \in Seq(Message), Write(m)
  PROVE  /\ down' \in Seq(Message)
         /\ \/ down' = down
            \/ \E w \in Message : down' = Append(down, w) /\ (w = m \/ w.kind = "partial")
         /\ budget' \in Budget /\ budget'.faults <= budget.faults
<1> DEFINE cut == [kind |-> "partial", id |-> m.id]
<1>1. cut \in Message /\ cut.kind = "partial"
  BY DEF Message
<1>2. Append(down, m) \in Seq(Message) /\ Append(down, cut) \in Seq(Message)
  BY <1>1, AppendProperties
<1>3. \/ down' = Append(down, m) /\ budget' = budget
      \/ Fault /\ (down' = down \/ down' = Append(down, cut))
  BY DEF Write
<1>4. budget' \in Budget /\ budget'.faults <= budget.faults
  BY <1>3, FaultLemma DEF Budget
<1> QED
  BY <1>1, <1>2, <1>3, <1>4

\* Keep drops the oldest of what is queued.
LEMMA KeepLemma ==
  ASSUME NEW q \in Seq(Nat)
  PROVE  /\ Keep(q) \in Seq(Nat)
         /\ \E k \in Nat : /\ k + Len(Keep(q)) = Len(q)
                           /\ \A i \in 1 .. Len(Keep(q)) : Keep(q)[i] = q[i + k]
<1>1. CASE Len(q) <= MaxEvents
  BY <1>1, LinkAssumption DEF Keep
<1>2. CASE Len(q) > MaxEvents
  <2> DEFINE k == Len(q) - MaxEvents
  <2>1. k \in Nat /\ MaxEvents \in Nat /\ k + MaxEvents = Len(q)
    BY <1>2, LinkAssumption
  <2>2. Keep(q) = SubSeq(q, k + 1, Len(q))
    BY <1>2 DEF Keep
  <2>3. \A i \in k + 1 .. Len(q) : q[i] \in Nat
    BY <2>1
  <2>4. /\ Keep(q) \in Seq(Nat) /\ Len(Keep(q)) = MaxEvents
        /\ \A i \in 1 .. MaxEvents : Keep(q)[i] = q[i + k]
    <3> HIDE DEF k
    <3>1. k + 1 \in Int /\ Len(q) \in Int /\ k + 1 <= Len(q)
      BY <2>1, LinkAssumption
    <3> QED
      BY <2>1, <2>2, <2>3, <3>1, SubSeqProperties
  <2> QED
    BY <2>1, <2>4
<1> QED
  BY <1>1, <1>2, LinkAssumption

\* The rest of a queue after its first n frames.
LEMMA RestLemma ==
  ASSUME NEW S, NEW q \in Seq(S), NEW n \in 0 .. Len(q)
  PROVE  /\ SubSeq(q, n + 1, Len(q)) \in Seq(S)
         /\ Len(SubSeq(q, n + 1, Len(q))) = Len(q) - n
         /\ \A i \in 1 .. Len(q) - n : SubSeq(q, n + 1, Len(q))[i] = q[i + n]
<1>1. n + 1 \in Int /\ Len(q) \in Int /\ \A i \in n + 1 .. Len(q) : q[i] \in S
  OBVIOUS
<1>2. /\ SubSeq(q, n + 1, Len(q)) \in Seq(S)
      /\ Len(SubSeq(q, n + 1, Len(q))) = IF n + 1 <= Len(q) THEN Len(q) - (n + 1) + 1 ELSE 0
      /\ \A i \in 1 .. Len(q) - (n + 1) + 1 : SubSeq(q, n + 1, Len(q))[i] = q[n + 1 + i - 1]
  BY <1>1, SubSeqProperties
<1> QED
  BY <1>2

-----------------------------------------------------------------------------
(* Types.                                                                  *)

\* What a step of the firmware or a change of the cable leaves alone.
hostTypes ==
  <<port, phase, outcome, delivery, lastSeq, nonce, wait, call, events, seen, known, polled,
    excuse>>

LEMMA HandleType == ASSUME TypeOK, Handle PROVE TypeOK'
<1>1. tx = None /\ down # <<>> /\ Head(down) \in Message /\ Tail(down) \in Seq(Message)
  BY HeadTailProperties DEF TypeOK, Handle
<1>2. Following(seq) \in Seqs
  BY FollowingLemma DEF TypeOK
<1>3. Head(down).id \in Nat
  BY <1>1 DEF Message
<1>4. tx' \in Reply
  <2>1. \/ tx' = Pong(Head(down).id)
        \/ tx' = Ack(Following(seq), Head(down), epoch)
        \/ tx' = Rejected(Head(down))
    BY DEF Handle
  <2> QED
    BY <1>1, <1>2, <1>3, <2>1, ReplyTypes DEF TypeOK
<1>5. /\ seq' \in Seqs /\ done' \in Nat /\ down' \in Seq(Message)
      /\ rejected' \in Nat
  BY <1>1, <1>2, <1>3 DEF TypeOK, Handle
<1>6. budget' \in Budget
  BY FaultLemma DEF TypeOK, Handle
<1>7. UNCHANGED <<hostTypes, tapped, epoch, up, taps>>
  BY DEF Handle, host, link, progress, attempt, told, hostTypes
<1> QED
  BY <1>4, <1>5, <1>6, <1>7 DEF TypeOK, hostTypes

LEMMA ReadType == ASSUME TypeOK, Read PROVE TypeOK'
<1> DEFINE r == Head(up)
<1>1. r \in Reply /\ up' \in Seq(Reply)
  BY HeadTailProperties DEF TypeOK, Read
<1>2. events' \in Seq(Nat)
  <2>1. CASE r.kind = "event"
    <3>1. Append(events, r.id) \in Seq(Nat)
      BY <1>1, <2>1, ReplyFields, AppendProperties DEF TypeOK
    <3> QED
      BY <2>1, <3>1, KeepLemma DEF Read
  <2>2. CASE r.kind # "event"
    BY <2>2 DEF TypeOK, Read
  <2> QED
    BY <2>1, <2>2
<1>3. /\ port' \in BOOLEAN /\ phase' \in Phase /\ outcome' \in Outcome
      /\ lastSeq' \in Seqs \cup {None} /\ wait' \in Nat
      /\ seen' \in Nat /\ known' \in Nat
      /\ excuse' \subseteq {"wrap", "reconnected", "rejected", "retrim"}
      /\ down' \in Seq(Message) /\ budget' \in Budget
  <2>1. ASSUME NEW p \in {"trim", "request", "retrim"}, NEW n \in Nat, Exchange(p, n)
        PROVE  /\ phase' \in Phase /\ outcome' \in Outcome
               /\ down' \in Seq(Message) /\ budget' \in Budget
    <3> DEFINE m == [kind |-> IF p = "retrim" THEN "trim" ELSE p, id |-> n]
    <3>1. m \in Message
      BY DEF Message
    <3>2. Write(m) /\ phase' = p /\ outcome' = outcome
      BY <2>1 DEF Exchange
    <3>3. down' \in Seq(Message) /\ budget' \in Budget
      BY <3>1, <3>2, WriteLemma DEF TypeOK
    <3> QED
      BY <3>2, <3>3 DEF TypeOK, Phase
  <2>a. r.kind = "ack" => r.seq \in Seqs /\ r.epoch \in Nat
    BY <1>1, ReplyFields
  <2>b. Reconnect \in Nat
    BY LinkAssumption
  <2>2. CASE r.kind = "event"
    BY <2>2 DEF TypeOK, Read, link, progress, told
  <2>3. CASE OnPing(r)
    <3>1. CASE GiveUp
      BY <2>3, <3>1 DEF TypeOK, OnPing, GiveUp, Return, Phase, Outcome, told
    <3>2. CASE lastSeq' = None /\ UNCHANGED <<port, seen>> /\ wait' \in {wait, 0}
               /\ (Exchange("trim", nonce) \/ Exchange("request", call))
      BY <2>1, <2>3, <3>2 DEF TypeOK, OnPing, told
    <3> QED
      BY <2>3, <3>1, <3>2 DEF OnPing
  <2>4. CASE OnTrim(r)
    <3>1. CASE GiveUp
      BY <2>4, <3>1 DEF TypeOK, OnTrim, GiveUp, Return, Phase, Outcome, told
    <3>2. CASE Acked(r) /\ Exchange("request", call) /\ wait' = 0 /\ UNCHANGED port
      BY <2>1, <2>a, <2>4, <3>2 DEF TypeOK, OnTrim, told, Acked
    <3> QED
      BY <2>4, <3>1, <3>2 DEF OnTrim
  <2>5. CASE OnRequest(r)
    <3>1. UNCHANGED <<port, wait>>
      BY <2>5 DEF OnRequest
    <3>2. lastSeq' \in Seqs \cup {None} /\ seen' \in Nat
      BY <2>a, <2>5 DEF TypeOK, OnRequest, Acked
    <3>3. /\ known' \in Nat
          /\ excuse' \subseteq {"wrap", "reconnected", "rejected", "retrim"}
      BY <2>a, <2>5 DEF TypeOK, OnRequest, Acked, TellReset
    <3>4. /\ phase' \in Phase /\ outcome' \in Outcome
          /\ down' \in Seq(Message) /\ budget' \in Budget
      <4>1. \/ Exchange("retrim", nonce)
            \/ \E o \in Outcome : Return(o) /\ UNCHANGED <<down, budget>>
        BY <2>5 DEF TypeOK, OnRequest, Outcome
      <4> QED
        BY <2>1, <4>1 DEF TypeOK, Return, Phase
    <3> QED
      BY <3>1, <3>2, <3>3, <3>4 DEF TypeOK
  <2>6. CASE OnRetrim(r)
    BY <2>a, <2>b, <2>6 DEF TypeOK, OnRetrim, Acked, Return, Phase, Outcome
  <2> QED
    BY <2>2, <2>3, <2>4, <2>5, <2>6 DEF Read
<1>4. /\ UNCHANGED <<delivery, nonce, call, seq, tx, tapped, epoch, done, taps, polled>>
      /\ rejected' \in Nat
  BY DEF TypeOK, Read, attempt
<1> QED
  BY <1>1, <1>2, <1>3, <1>4 DEF TypeOK

LEMMA SendType == ASSUME TypeOK, SendOpen \/ SendClosed \/ SendFails PROVE TypeOK'
<1>1. CASE SendOpen
  <2>1. Write([kind |-> "request", id |-> call + 1]) /\ call + 1 \in Nat
    BY <1>1 DEF SendOpen, Exchange, TypeOK
  <2>2. [kind |-> "request", id |-> call + 1] \in Message
    BY <2>1 DEF Message
  <2>3. down' \in Seq(Message) /\ budget' \in Budget
    BY <2>1, <2>2, WriteLemma DEF TypeOK
  <2> QED
    BY <1>1, <2>1, <2>3
       DEF TypeOK, SendOpen, Exchange, Phase, Outcome, link, told, firmware
<1>2. CASE SendClosed
  <2>1. Write([kind |-> "ping", id |-> nonce + 1]) /\ nonce + 1 \in Nat
    BY <1>2 DEF SendClosed, Exchange, TypeOK
  <2>2. [kind |-> "ping", id |-> nonce + 1] \in Message
    BY <2>1 DEF Message
  <2>3. down' \in Seq(Message) /\ budget' \in Budget
    BY <2>1, <2>2, WriteLemma DEF TypeOK
  <2>4. up' \in Seq(Reply)
    BY <1>2, RestLemma DEF TypeOK, SendClosed
  <2> QED
    BY <1>2, <2>1, <2>3, <2>4, LinkAssumption
       DEF TypeOK, SendClosed, Exchange, Phase, Outcome, told, firmware
<1>3. CASE SendFails
  BY <1>3, LinkAssumption DEF TypeOK, SendFails, Return, Phase, Outcome, told, firmware
<1> QED
  BY <1>1, <1>2, <1>3

LEMMA HostType == ASSUME TypeOK, Fail \/ Poll \/ Tick PROVE TypeOK'
<1>1. CASE Fail
  BY <1>1, LinkAssumption DEF TypeOK, Fail, Return, Phase, Outcome, attempt, told, firmware
<1>2. CASE Poll
  <2>1. up' \in Seq(Reply)
    <3>1. PICK n \in 0 .. IF port THEN Len(up) ELSE 0 : up' = SubSeq(up, n + 1, Len(up))
      BY <1>2 DEF Poll
    <3>2. n \in 0 .. Len(up)
      BY <3>1 DEF TypeOK
    <3> QED
      BY <3>1, <3>2, RestLemma DEF TypeOK
  <2>2. polled' \in Nat
    <3>1. CASE \E i \in 1 .. Len(up) : up[i].kind = "event" /\ polled' = up[i].id
      BY <3>1, ReplyFields DEF TypeOK
    <3>2. CASE polled' = IF events = <<>> THEN polled ELSE events[Len(events)]
      BY <3>2 DEF TypeOK
    <3> QED
      BY <1>2, <3>1, <3>2 DEF Poll, TypeOK
  <2> QED
    BY <1>2, <2>1, <2>2 DEF TypeOK, Poll, link, progress, attempt, told, firmware
<1>3. CASE Tick
  BY <1>3 DEF TypeOK, Tick, progress, attempt, told, firmware
<1> QED
  BY <1>1, <1>2, <1>3

LEMMA WireType ==
  ASSUME TypeOK, Join \/ Transmit \/ TransmitEvent \/ Tap \/ Restart \/ Unplug
  PROVE  TypeOK'
<1>1. CASE Join
  <2>1. Tail(down) \in Seq(Message) /\ down[2] \in Message
    BY <1>1, HeadTailProperties DEF TypeOK, Join
  <2>2. [down[2] EXCEPT !.kind = "garbage"] \in Message
    BY <2>1 DEF Message
  <2>3. SubSeq(down, 3, Len(down)) \in Seq(Message)
    BY <1>1, RestLemma, 2 \in 0 .. Len(down), 2 + 1 = 3 DEF TypeOK, Join
  <2>4. down' \in Seq(Message)
    BY <1>1, <2>1, <2>2, <2>3 DEF Join
  <2> QED
    BY <1>1, <2>4 DEF TypeOK, Join, host, firmware, link, progress, attempt, told
<1>2. CASE Transmit
  <2>1. up' \in Seq(Reply)
    <3>1. tx \in Reply /\ up \in Seq(Reply) /\ (up' = Append(up, tx) \/ up' = up)
      BY <1>2 DEF TypeOK, Transmit
    <3> QED
      BY <3>1, AppendProperties
  <2>2. budget' \in Budget
    BY <1>2, FaultLemma DEF TypeOK, Transmit
  <2> QED
    BY <1>2, <2>1, <2>2 DEF TypeOK, Transmit, host, link, progress, attempt, told
<1>3. CASE TransmitEvent
  BY <1>3, ReplyTypes DEF TypeOK, TransmitEvent, host, link, progress, attempt, told
<1>4. CASE Tap
  BY <1>4 DEF TypeOK, Tap, host, link, progress, attempt, told
<1>5. CASE Restart
  <2>1. budget' \in Budget
    BY <1>5, FaultLemma DEF TypeOK, Restart
  <2>2. down' \in Seq(Message)
    <3>1. CASE down = <<>> \/ down' \in {down, <<>>}
      <4>1. down' \in {down, <<>>}
        BY <1>5, <3>1 DEF Restart
      <4> QED
        BY <4>1, EmptySeq DEF TypeOK
    <3>2. CASE down # <<>> /\ down' = <<[Head(down) EXCEPT !.kind = "garbage"]>> \o Tail(down)
      <4>1. Head(down) \in Message /\ Tail(down) \in Seq(Message)
        BY <3>2, HeadTailProperties DEF TypeOK
      <4>2. [Head(down) EXCEPT !.kind = "garbage"] \in Message
        BY <4>1 DEF Message
      <4> QED
        BY <3>2, <4>1, <4>2
    <3> QED
      BY <1>5, <3>1, <3>2 DEF Restart
  <2>3. 0 \in Seqs
    BY LinkAssumption DEF Seqs
  <2> QED
    BY <1>5, <2>1, <2>2, <2>3 DEF TypeOK, Restart, host, link, progress, attempt, told
<1>6. CASE Unplug
  <2>1. budget' \in Budget
    BY <1>6, FaultLemma DEF TypeOK, Unplug
  <2> QED
    BY <1>6, <2>1 DEF TypeOK, Unplug, host, firmware, link, progress, attempt, told
<1> QED
  BY <1>1, <1>2, <1>3, <1>4, <1>5, <1>6

\* The state keeps its types whatever is sent, lost or restarted.
THEOREM TypeCorrect == Spec => []TypeOK
<1>1. Init => TypeOK
  <2> SUFFICES ASSUME Init PROVE TypeOK
    OBVIOUS
  <2>1. [kind |-> "partial", id |-> 0] \in Message /\ [kind |-> "request", id |-> 0] \in Message
    BY DEF Message
  <2>2. down \in Seq(Message)
    <3>1. \A m \in Message : <<m>> \in Seq(Message)
      OBVIOUS
    <3> QED
      BY <2>1, <3>1, EmptySeq DEF Init
  <2>3. tx \in Reply \cup {None}
    BY <2>1, ReplyTypes DEF Init
  <2>4. budget \in Budget
    BY LinkAssumption DEF Init, Budget
  <2>5. up \in Seq(Reply) /\ events \in Seq(Nat)
    BY EmptySeq DEF Init
  <2> QED
    BY <2>2, <2>3, <2>4, <2>5 DEF Init, TypeOK, Phase, Outcome
<1>2. TypeOK /\ [Next]_vars => TypeOK'
  <2> SUFFICES ASSUME TypeOK, [Next]_vars PROVE TypeOK'
    OBVIOUS
  <2>1. CASE UNCHANGED vars
    BY <2>1 DEF TypeOK, vars, link, progress, attempt, told, firmware
  <2> QED
    BY <2>1, HandleType, ReadType, SendType, HostType, WireType DEF Next
<1> QED
  BY <1>1, <1>2, PTL DEF Spec

-----------------------------------------------------------------------------
(* What comes from the firmware is a queue: a step appends to it or takes  *)
(* some of its ends away.                                                  *)

LEMMA ComingType ==
  ASSUME TypeOK
  PROVE  /\ Coming \in Seq(Reply) /\ Len(Coming) \in Nat /\ DOMAIN Coming = 1 .. Len(Coming)
         /\ tx = None => Coming = up
         /\ tx # None => /\ tx \in Reply /\ Len(Coming) = Len(up) + 1
                         /\ Coming[Len(Coming)] = tx
         /\ Len(up) <= Len(Coming) /\ Len(up) \in Nat
         /\ \A i \in 1 .. Len(up) : Coming[i] = up[i]
BY AppendProperties DEF TypeOK, Coming

\* The lengths, apart, for the steps that only count.
LEMMA ComingLength == ASSUME TypeOK PROVE Len(Coming) \in Nat /\ Len(down) \in Nat
<1>1. Len(down) \in Nat
  BY DEF TypeOK
<1> QED
  BY <1>1, ComingType

LEMMA NextLength == ASSUME TypeOK' PROVE Len(Coming') \in Nat /\ Len(down') \in Nat
<1>1. Len(down') \in Nat /\ up' \in Seq(Reply) /\ tx' \in Reply \cup {None}
  BY DEF TypeOK
<1>2. Coming' = IF tx' = None THEN up' ELSE Append(up', tx')
  BY DEF Coming
<1>3. Coming' \in Seq(Reply)
  BY <1>1, <1>2, AppendProperties
<1> QED
  BY <1>1, <1>3

LEMMA ComingReply ==
  ASSUME TypeOK, NEW i \in 1 .. Len(Coming)
  PROVE  Coming[i] \in Reply
<1>1. Coming \in Seq(Reply)
  BY ComingType
<1> QED
  BY <1>1

\* The frames that are left are those after the first k, or some of them.
Left(k) ==
  /\ k + Len(Coming') <= Len(Coming)
  /\ \A i \in 1 .. Len(Coming') : Coming'[i] = Coming[i + k]

Grows ==
  /\ tx' \in Reply /\ Coming' = Append(Coming, tx')
  /\ Len(Coming') = Len(Coming) + 1 /\ Coming'[Len(Coming) + 1] = tx'
  /\ \A i \in 1 .. Len(Coming) : Coming'[i] = Coming[i]

LEMMA GrowsLemma ==
  ASSUME TypeOK, TypeOK', Handle \/ TransmitEvent
  PROVE  Grows
<1>1. tx = None /\ tx' \in Reply /\ up' = up /\ up \in Seq(Reply)
  <2>1. CASE Handle
    <3>1. tx' # None
      <4>. down \in Seq(Message) /\ down # <<>> /\ seq \in Seqs /\ epoch \in Nat
        BY <2>1 DEF Handle, TypeOK
      <4>0. Head(down) \in Message
        BY HeadTailProperties
      <4>1. Head(down) \in Message /\ Head(down).id \in Nat /\ Following(seq) \in Seqs
        BY <4>0, FollowingLemma DEF Message
      <4>2. \/ tx' = Pong(Head(down).id)
            \/ tx' = Ack(Following(seq), Head(down), epoch)
            \/ tx' = Rejected(Head(down))
        BY <2>1 DEF Handle
      <4> QED
        BY <4>1, <4>2, ReplyTypes
    <3> QED
      BY <2>1, <3>1 DEF TypeOK, Handle
  <2>2. CASE TransmitEvent
    BY <2>2, ReplyTypes DEF TypeOK, TransmitEvent
  <2> QED
    BY <2>1, <2>2
<1>2. Coming = up /\ Coming' = Append(up, tx')
  BY <1>1, NoneAssumption DEF Coming
<1> QED
  BY <1>1, <1>2, AppendProperties DEF Grows

LEMMA SameLemma ==
  ASSUME TypeOK, UNCHANGED <<tx, up>>
  PROVE  Coming' = Coming /\ Left(0)
<1>1. Coming' = Coming
  BY DEF Coming
<1> QED
  BY <1>1, ComingLength DEF Left

\* What is left of a queue, and of the same queue with one frame more.
LEMMA OneMoreLemma ==
  ASSUME NEW long \in Nat, NEW n \in Nat, NEW short, NEW longer, NEW shorter,
         short = long - n, shorter = short + 1, longer = long + 1
  PROVE  shorter = longer - n /\ n + shorter <= longer
  OBVIOUS

\* Taking the first n frames off the cable.
LEMMA TakeLemma ==
  ASSUME TypeOK, NEW n \in 0 .. Len(up), up' = SubSeq(up, n + 1, Len(up)), tx' = tx
  PROVE  /\ Len(Coming') = Len(Coming) - n
         /\ Left(n)
<1>1. /\ up' \in Seq(Reply) /\ Len(up') = Len(up) - n
      /\ \A i \in 1 .. Len(up') : up'[i] = up[i + n]
  BY RestLemma DEF TypeOK
<1>2. CASE tx = None
  <2>1. Coming = up /\ Coming' = up'
    BY <1>2 DEF Coming
  <2>2. Len(up) \in Nat
    BY DEF TypeOK
  <2> QED
    BY <1>1, <2>1, <2>2 DEF Left
<1>3. CASE tx # None
  <2>1. Coming = Append(up, tx) /\ Coming' = Append(up', tx) /\ tx \in Reply
    BY <1>3 DEF Coming, TypeOK
  <2>2. /\ Len(Coming') = Len(up') + 1 /\ Coming'[Len(up') + 1] = tx
        /\ \A i \in 1 .. Len(up') : Coming'[i] = up'[i]
    <3> DEFINE rest == up'
    <3>1. rest \in Seq(Reply) /\ tx \in Reply /\ Coming' = Append(rest, tx)
      BY <1>1, <2>1
    <3> HIDE DEF rest
    <3>2. /\ Len(Append(rest, tx)) = Len(rest) + 1 /\ Append(rest, tx)[Len(rest) + 1] = tx
          /\ \A i \in 1 .. Len(rest) : Append(rest, tx)[i] = rest[i]
      BY <3>1, AppendProperties
    <3>3. /\ Len(Coming') = Len(rest) + 1 /\ Coming'[Len(rest) + 1] = tx
          /\ \A i \in 1 .. Len(rest) : Coming'[i] = rest[i]
      BY <3>1, <3>2
    <3> QED
      BY <3>3 DEF rest
  <2>3. /\ Len(Coming) = Len(up) + 1 /\ Coming[Len(up) + 1] = tx
        /\ \A i \in 1 .. Len(up) : Coming[i] = up[i]
    BY <2>1, AppendProperties DEF TypeOK
  <2>4. ASSUME NEW i \in 1 .. Len(Coming') PROVE Coming'[i] = Coming[i + n]
    <3>1. CASE i <= Len(up')
      <4>1. i \in 1 .. Len(up') /\ i + n \in 1 .. Len(up)
        BY <1>1, <2>2, <3>1
      <4> QED
        BY <1>1, <2>2, <2>3, <4>1
    <3>2. CASE i = Len(up') + 1
      <4>1. i + n = Len(up) + 1
        BY <1>1, <3>2 DEF TypeOK
      <4>2. Coming'[i] = tx /\ Coming[i + n] = tx
        BY <2>2, <2>3, <3>2, <4>1
      <4> QED
        BY <4>2
    <3> QED
      BY <1>1, <2>2, <3>1, <3>2
  <2>5. Len(up) \in Nat /\ n \in Nat
    BY DEF TypeOK
  <2>6. Len(Coming') = Len(Coming) - n /\ n + Len(Coming') <= Len(Coming)
    <3>1. Len(up') = Len(up) - n /\ Len(Coming') = Len(up') + 1
          /\ Len(Coming) = Len(up) + 1
      BY <1>1, <2>2, <2>3
    <3> QED
      BY <2>5, <3>1, OneMoreLemma
  <2>7. Left(n)
    BY <2>4, <2>6 DEF Left
  <2> QED
    BY <2>6, <2>7
<1> QED
  BY <1>2, <1>3

\* The reply that is read is the first of all that come.
LEMMA ReadLemma ==
  ASSUME TypeOK, Read
  PROVE  /\ Len(Coming) >= 1 /\ Head(up) = Coming[1] /\ Coming[1] \in Reply
         /\ Len(Coming') = Len(Coming) - 1
         /\ Left(1)
<1>1. up \in Seq(Reply) /\ up # <<>> /\ up' = Tail(up) /\ tx' = tx
  BY DEF TypeOK, Read, firmware
<1>2. 1 \in 0 .. Len(up) /\ Tail(up) = SubSeq(up, 1 + 1, Len(up)) /\ Head(up) = up[1]
  BY <1>1, TailIsSubSeq
<1>3. Len(Coming') = Len(Coming) - 1 /\ Left(1)
  BY <1>1, <1>2, TakeLemma
<1> QED
  BY <1>1, <1>2, <1>3, ComingType

\* A reply that is sent stays in its place; one that is dropped was the last.
LEMMA TransmitLemma ==
  ASSUME TypeOK, Transmit
  PROVE  \/ Coming' = Coming /\ budget' = budget
         \/ Fault /\ Coming' = up
<1>1. tx' = None /\ tx # None
  BY DEF Transmit
<1>2. Coming' = up' /\ Coming = Append(up, tx)
  BY <1>1 DEF Coming
<1>3. \/ up' = Append(up, tx) /\ budget' = budget
      \/ Fault /\ up' = up
  BY DEF Transmit
<1> QED
  BY <1>2, <1>3

LEMMA LostLemma ==
  ASSUME TypeOK, Coming' = up \/ Coming' = Coming
  PROVE  Left(0)
<1>1. Len(up) \in Nat /\ Len(up) <= Len(Coming) /\ Len(Coming) \in Nat
  BY ComingType
<1>2. \A i \in 1 .. Len(up) : Coming[i] = up[i]
  BY ComingType
<1> QED
  BY <1>1, <1>2 DEF Left

LEMMA UnplugLemma ==
  ASSUME TypeOK, Unplug
  PROVE  \E k \in Nat : Left(k)
<1>1. up' = SubSeq(up, Len(up) + 1, Len(up)) /\ tx' = tx /\ Len(up) \in 0 .. Len(up)
  <2>1. up' = <<>> /\ tx' = tx
    BY DEF Unplug, firmware
  <2> QED
    BY <2>1, SubSeqEmpty DEF TypeOK
<1> QED
  BY <1>1, TakeLemma

LEMMA PollLemma ==
  ASSUME TypeOK, Poll
  PROVE  \E k \in Nat : Left(k)
<1>1. PICK n \in 0 .. Len(up) : up' = SubSeq(up, n + 1, Len(up))
  <2>1. \E n \in 0 .. IF port THEN Len(up) ELSE 0 : up' = SubSeq(up, n + 1, Len(up))
    BY DEF Poll
  <2>2. Len(up) \in Nat
    BY DEF TypeOK
  <2> QED
    BY <2>1, <2>2
<1>2. tx' = tx
  BY DEF Poll, firmware
<1> QED
  BY <1>1, <1>2, TakeLemma

\* Every step but those of Handle and TransmitEvent.
LEMMA ShrinksLemma ==
  ASSUME TypeOK,
         \/ SendOpen \/ SendClosed \/ SendFails \/ Read \/ Fail \/ Poll \/ Tick
         \/ Join \/ Transmit \/ Tap \/ Restart \/ Unplug \/ UNCHANGED vars
  PROVE  \E k \in Nat : Left(k)
<1>1. CASE SendOpen \/ SendFails \/ Fail \/ Tick \/ Join \/ Tap \/ UNCHANGED vars
  <2>1. UNCHANGED <<tx, up>>
    BY <1>1 DEF SendOpen, SendFails, Fail, Tick, Join, Tap, vars, firmware
  <2> QED
    BY <2>1, SameLemma
<1>2. CASE SendClosed
  <2>1. PICK n \in 0 .. Len(up) : up' = SubSeq(up, n + 1, Len(up))
    BY <1>2 DEF SendClosed
  <2>2. tx' = tx
    BY <1>2 DEF SendClosed, firmware
  <2> QED
    BY <2>1, <2>2, TakeLemma
<1>3. CASE Read
  BY <1>3, ReadLemma
<1>4. CASE Poll
  BY <1>4, PollLemma
<1>5. CASE Transmit
  BY <1>5, TransmitLemma, LostLemma
<1>6. CASE Restart
  <2>1. Coming' = up
    BY <1>6 DEF Restart, Coming
  <2> QED
    BY <2>1, LostLemma
<1>7. CASE Unplug
  BY <1>7, UnplugLemma
<1> QED
  BY <1>1, <1>2, <1>3, <1>4, <1>5, <1>6, <1>7

-----------------------------------------------------------------------------
(* What goes to the firmware is a queue too; a frame in front may be lost, *)
(* or spoiled.                                                             *)

Passed(k) ==
  /\ k + Len(down') = Len(down)
  /\ \A i \in 1 .. Len(down') :
       down'[i] = down[i + k] \/ (i = 1 /\ down'[i].kind = "garbage")

LEMMA DownLength ==
  ASSUME TypeOK
  PROVE  /\ Len(down) \in Nat /\ DOMAIN down = 1 .. Len(down)
         /\ down = <<>> <=> Len(down) = 0
         /\ \A i \in 1 .. Len(down) : down[i] \in Message
BY DEF TypeOK

LEMMA TailLemma ==
  ASSUME TypeOK, down # <<>>, down' = Tail(down)
  PROVE  Passed(1) /\ Len(down) >= 1 /\ Head(down) = down[1] /\ Head(down) \in Message
<1>1. down \in Seq(Message) /\ down # <<>>
  BY DEF TypeOK
<1>2. Len(Tail(down)) = Len(down) - 1 /\ \A i \in 1 .. Len(Tail(down)) : Tail(down)[i] = down[i + 1]
  BY <1>1, HeadTailProperties
<1> QED
  BY <1>1, <1>2 DEF Passed

LEMMA SpoilLemma ==
  ASSUME NEW q \in Seq(Message), NEW m \in Message, m.kind = "garbage"
  PROVE  /\ Len(<<m>> \o q) = Len(q) + 1 /\ (<<m>> \o q)[1].kind = "garbage"
         /\ \A i \in 2 .. Len(q) + 1 : (<<m>> \o q)[i] = q[i - 1]
<1>1. <<m>> \in Seq(Message) /\ Len(<<m>>) = 1 /\ <<m>>[1] = m
  OBVIOUS
<1> QED
  BY <1>1

LEMMA PassedLemma ==
  ASSUME TypeOK, Handle \/ Join \/ Restart \/ Unplug \/ down' = down
  PROVE  \E k \in Nat : Passed(k)
<1>0. Len(down) \in Nat /\ down \in Seq(Message)
  BY DEF TypeOK
<1>1. CASE Handle
  BY <1>1, TailLemma DEF Handle
<1>2. CASE Join
  <2>1. CASE down[2].kind = "partial"
    BY <1>2, <2>1, TailLemma DEF Join
  <2>2. CASE down[2].kind # "partial"
    <3> DEFINE rest == SubSeq(down, 3, Len(down))
               m    == [down[2] EXCEPT !.kind = "garbage"]
    <3>1. Len(down) > 1 /\ down' = <<m>> \o rest
      BY <1>2, <2>2 DEF Join
    <3>2. m \in Message /\ m.kind = "garbage"
      <4>1. down[2] \in Message
        BY <1>0, <3>1
      <4> QED
        BY <4>1 DEF Message
    <3>3. /\ rest \in Seq(Message) /\ Len(rest) = Len(down) - 2
          /\ \A i \in 1 .. Len(down) - 2 : rest[i] = down[i + 2]
      <4>1. 2 \in 0 .. Len(down) /\ 2 + 1 = 3
        BY <1>0, <3>1
      <4> HIDE DEF m
      <4>2. /\ SubSeq(down, 2 + 1, Len(down)) \in Seq(Message)
            /\ Len(SubSeq(down, 2 + 1, Len(down))) = Len(down) - 2
            /\ \A i \in 1 .. Len(down) - 2 : SubSeq(down, 2 + 1, Len(down))[i] = down[i + 2]
        BY <1>0, <4>1, RestLemma
      <4> QED
        BY <4>1, <4>2
    <3>4. /\ Len(down') = Len(down) - 1 /\ down'[1].kind = "garbage"
          /\ \A i \in 2 .. Len(down) - 1 : down'[i] = rest[i - 1]
      <4> HIDE DEF m, rest
      <4>1. /\ Len(<<m>> \o rest) = Len(rest) + 1 /\ (<<m>> \o rest)[1].kind = "garbage"
            /\ \A i \in 2 .. Len(rest) + 1 : (<<m>> \o rest)[i] = rest[i - 1]
        BY <3>2, <3>3, SpoilLemma
      <4> QED
        BY <1>0, <3>1, <3>3, <4>1
    <3>5. ASSUME NEW i \in 1 .. Len(down'), i # 1 PROVE down'[i] = down[i + 1]
      BY <1>0, <3>1, <3>3, <3>4, <3>5, i - 1 \in 1 .. Len(down) - 2
    <3> QED
      BY <1>0, <3>4, <3>5 DEF Passed
  <2> QED
    BY <2>1, <2>2
<1>3. CASE Restart
  <2>1. CASE down' = <<>>
    BY <1>0, <2>1 DEF Passed
  <2>2. CASE down # <<>> /\ down' = <<[Head(down) EXCEPT !.kind = "garbage"]>> \o Tail(down)
    <3> DEFINE m == [Head(down) EXCEPT !.kind = "garbage"]
    <3>1. /\ Head(down) \in Message /\ Tail(down) \in Seq(Message)
          /\ Len(Tail(down)) = Len(down) - 1
          /\ \A i \in 1 .. Len(down) - 1 : Tail(down)[i] = down[i + 1]
      BY <1>0, <2>2, HeadTailProperties
    <3>2. m \in Message /\ m.kind = "garbage"
      BY <3>1 DEF Message
    <3>3. /\ Len(down') = Len(down) /\ down'[1].kind = "garbage"
          /\ \A i \in 2 .. Len(down) : down'[i] = Tail(down)[i - 1]
      <4> DEFINE rest == Tail(down)
      <4>1. down' = <<m>> \o rest /\ rest \in Seq(Message) /\ Len(rest) = Len(down) - 1
        BY <2>2, <3>1
      <4> HIDE DEF m, rest
      <4>2. /\ Len(<<m>> \o rest) = Len(rest) + 1 /\ (<<m>> \o rest)[1].kind = "garbage"
            /\ \A i \in 2 .. Len(rest) + 1 : (<<m>> \o rest)[i] = rest[i - 1]
        BY <3>2, <4>1, SpoilLemma
      <4> QED
        BY <1>0, <4>1, <4>2 DEF rest
    <3>4. ASSUME NEW i \in 1 .. Len(down'), i # 1 PROVE down'[i] = down[i + 0]
      BY <1>0, <3>1, <3>3, <3>4, i - 1 \in 1 .. Len(down) - 1
    <3> QED
      BY <1>0, <3>3, <3>4 DEF Passed
  <2>3. CASE down' = down
    BY <1>0, <2>3 DEF Passed
  <2> QED
    BY <1>3, <2>1, <2>2, <2>3 DEF Restart
<1>4. CASE Unplug
  BY <1>0, <1>4 DEF Unplug, Passed
<1>5. CASE down' = down
  BY <1>0, <1>5 DEF Passed
<1> QED
  BY <1>1, <1>2, <1>3, <1>4, <1>5

\* What Exchange writes, if anything, is behind what is under way.
Wrote(kind, id) ==
  \/ down' = down
  \/ /\ Len(down') = Len(down) + 1
     /\ \A i \in 1 .. Len(down) : down'[i] = down[i]
     /\ \/ down'[Len(down) + 1] = [kind |-> kind, id |-> id]
        \/ down'[Len(down) + 1].kind = "partial"

LEMMA ExchangeLemma ==
  ASSUME TypeOK, NEW p \in {"ping", "trim", "request", "retrim"}, NEW n \in Nat,
         Exchange(p, n)
  PROVE  /\ phase' = p /\ outcome' = outcome
         /\ Wrote(IF p = "retrim" THEN "trim" ELSE p, n)
         /\ budget' \in Budget /\ budget'.faults <= budget.faults
<1> DEFINE m == [kind |-> IF p = "retrim" THEN "trim" ELSE p, id |-> n]
<1>1. m \in Message
  BY DEF Message
<1>2. Write(m) /\ phase' = p /\ outcome' = outcome
  BY DEF Exchange
<1>3. budget \in Budget /\ down \in Seq(Message)
  BY DEF TypeOK
<1>4. /\ \/ down' = down
         \/ \E w \in Message : down' = Append(down, w) /\ (w = m \/ w.kind = "partial")
      /\ budget' \in Budget /\ budget'.faults <= budget.faults
  BY <1>1, <1>2, <1>3, WriteLemma
<1>5. ASSUME NEW w \in Message, down' = Append(down, w), w = m \/ w.kind = "partial"
      PROVE  Wrote(IF p = "retrim" THEN "trim" ELSE p, n)
  BY <1>3, <1>5, AppendProperties DEF Wrote
<1> QED
  BY <1>2, <1>4, <1>5 DEF Wrote

-----------------------------------------------------------------------------
(* The invariants.                                                         *)

\* Numbers of connections are never ahead of the last, and in a handshake the
\* answer to its own Ping comes last: after all that is left of the connections
\* before it.
Handshake ==
  /\ ~port => phase = "idle" /\ outcome # "Delivered"
  /\ \A i \in 1 .. Len(down) : down[i].kind = "ping" => down[i].id <= nonce
  /\ \A i \in 1 .. Len(Coming) : Coming[i].kind = "pong" => Coming[i].id <= nonce
  /\ phase = "ping" =>
       /\ \A i \in 1 .. Len(down) :
            down[i].kind = "ping" /\ down[i].id = nonce => i = Len(down)
       /\ \A i \in 1 .. Len(Coming) : ValidPong(Coming[i]) =>
            /\ Len(down) = 0
            /\ \A j \in i + 1 .. Len(Coming) : Coming[j].kind = "event"

\* NothingStale by the two queues.
NoReply == \A i \in 1 .. Len(Coming) : Coming[i].kind = "event"
Clear   == Len(down) = 0 /\ NoReply
OneUnderWay ==
  /\ Len(down) <= 1 /\ (Len(down) = 1 => NoReply)
  /\ \A i, j \in 1 .. Len(Coming) :
       Coming[i].kind # "event" /\ Coming[j].kind # "event" => i = j
Fresh == port /\ phase # "ping" => IF phase = "idle" THEN Clear ELSE OneUnderWay

\* Requests under way were made after the one carried out last, in order; those
\* of earlier calls do not count once the handshake of this one has succeeded.
CallOrder ==
  /\ done <= call
  /\ \A i \in 1 .. Len(down) :
       down[i].kind = "request" => done < down[i].id /\ down[i].id <= call
  /\ \A i, j \in 1 .. Len(down) :
       down[i].kind = "request" /\ down[j].kind = "request" /\ i < j => down[i].id < down[j].id
  /\ phase \in {"ping", "trim"} =>
       /\ done < call
       /\ \A i \in 1 .. Len(down) : down[i].kind = "request" => down[i].id < call
  /\ phase = "request" =>
       /\ \A i \in 1 .. Len(down) :
            /\ down[i].kind \in {"request", "partial", "garbage"}
            /\ down[i].kind = "request" => down[i].id = call
       /\ \A i \in 1 .. Len(Coming) : Coming[i].kind = "ack" => done = call
  /\ phase = "retrim" => done = call

\* The number of an Ack that is under way on a connection is the firmware's, unless
\* that has restarted since.
Echo ==
  /\ seen <= epoch
  /\ \A i \in 1 .. Len(Coming) : Coming[i].kind = "ack" => Coming[i].epoch <= epoch
  /\ port /\ phase # "ping" =>
       \A i \in 1 .. Len(Coming) : Coming[i].kind = "ack" =>
         /\ seen <= Coming[i].epoch
         /\ Coming[i].seq = seq \/ Coming[i].epoch < epoch
         /\ Coming[i].epoch # epoch => seq = 0

\* What is shown is known to be, and a firmware that has restarted has done nothing
\* since, unless a restart can have been missed.
Noticed ==
  /\ phase \in {"ping", "trim"} => delivery = "Reset"
  /\ port /\ phase = "idle" /\ excuse = {} =>
       lastSeq # None /\ seen = known /\ (epoch # seen => seq = 0)
  /\ phase = "request" /\ delivery = "Delivered" /\ excuse = {} =>
       /\ lastSeq # None /\ seen = known
       /\ Len(down) > 0 => (epoch # seen => seq = 0)
       /\ \A i \in 1 .. Len(Coming) :
            Coming[i].kind = "ack" /\ Coming[i].epoch # seen => Coming[i].seq = 1
  /\ phase = "retrim" /\ excuse = {} => seen = known

\* How far the number s is ahead of the last one the host has read.
Ahead(s) == IF s >= lastSeq THEN s - lastSeq ELSE s + SeqMod - lastSeq

\* Has the request of this exchange not been carried out, or been rejected?
Unanswered ==
  \/ Len(down) > 0
  \/ \E i \in 1 .. Len(Coming) : Coming[i].kind \notin {"event", "ack"}

\* The firmware is ahead by no more requests than were rejected though carried out,
\* and by one more with an Ack that is under way.
NotFarAhead ==
  rejected < SeqWindow /\ lastSeq # None =>
    /\ port /\ phase = "idle" /\ seen = epoch => Ahead(seq) <= rejected
    /\ phase = "request" =>
         /\ seen = epoch /\ Unanswered => Ahead(seq) <= rejected
         /\ \A i \in 1 .. Len(Coming) :
              Coming[i].kind = "ack" /\ Coming[i].epoch = seen =>
                Ahead(Coming[i].seq) \in 1 .. rejected + 1

\* Taps have numbers below the next.
TapNumbers ==
  /\ polled <= taps /\ (tapped # None => tapped <= taps)
  /\ \A i \in 1 .. Len(events) : events[i] <= taps
  /\ \A i \in 1 .. Len(Coming) : Coming[i].kind = "event" => Coming[i].id <= taps

-----------------------------------------------------------------------------
(* The handshake.                                                          *)

\* What is lost or read does not upset it.
LEMMA HandshakeShrinks ==
  ASSUME TypeOK, TypeOK', Handshake, NEW k \in Nat, NEW l \in Nat, Passed(k), Left(l),
         nonce' = nonce, phase' = "ping" => phase = "ping",
         ~port' => phase' = "idle" /\ outcome' # "Delivered"
  PROVE  Handshake'
<1>0. Len(down) \in Nat /\ Len(down') \in Nat /\ Len(Coming) \in Nat /\ Len(Coming') \in Nat
  BY ComingLength, NextLength
<1>1. \A i \in 1 .. Len(down') :
        i + k \in 1 .. Len(down)
          /\ (down'[i] = down[i + k] \/ (i = 1 /\ down'[i].kind = "garbage"))
  BY <1>0 DEF Passed
<1>2. \A i \in 1 .. Len(Coming') :
        i + l \in 1 .. Len(Coming) /\ Coming'[i] = Coming[i + l]
  BY <1>0 DEF Left
<1>3. \A i \in 1 .. Len(down') : down'[i].kind = "ping" => down'[i].id <= nonce
  BY <1>1 DEF Handshake
<1>4. \A i \in 1 .. Len(Coming') : Coming'[i].kind = "pong" => Coming'[i].id <= nonce
  BY <1>2 DEF Handshake
<1>5. ASSUME phase' = "ping", NEW i \in 1 .. Len(down'),
             down'[i].kind = "ping" /\ down'[i].id = nonce
      PROVE  i = Len(down')
  <2>1. i + k = Len(down)
    BY <1>1, <1>5 DEF Handshake
  <2> QED
    BY <1>0, <2>1 DEF Passed
<1>6. ASSUME phase' = "ping", NEW i \in 1 .. Len(Coming'), ValidPong(Coming[i + l])
      PROVE  /\ Len(down') = 0
             /\ \A j \in i + 1 .. Len(Coming') : Coming'[j].kind = "event"
  <2>1. /\ Len(down) = 0
        /\ \A j \in i + l + 1 .. Len(Coming) : Coming[j].kind = "event"
    BY <1>2, <1>6 DEF Handshake
  <2>2. Len(down') = 0
    BY <1>0, <2>1 DEF Passed
  <2>3. ASSUME NEW j \in i + 1 .. Len(Coming') PROVE Coming'[j].kind = "event"
    <3>1. j \in 1 .. Len(Coming') /\ j + l \in i + l + 1 .. Len(Coming)
      BY <1>0, <1>2
    <3> QED
      BY <1>2, <2>1, <3>1
  <2> QED
    BY <2>2, <2>3
<1>7. \A i \in 1 .. Len(Coming') : ValidPong(Coming[i + l]) <=> ValidPong(Coming[i])'
  BY <1>2 DEF ValidPong
<1> QED
  BY <1>3, <1>4, <1>5, <1>6, <1>7 DEF Handshake

\* Nor do a request and a trim that are written once the handshake is over.
LEMMA HandshakeWrites ==
  ASSUME TypeOK, TypeOK', Handshake, NEW kind \in {"trim", "request"}, NEW id \in Nat,
         Wrote(kind, id), NEW l \in Nat, Left(l), nonce' = nonce, phase' # "ping",
         port'
  PROVE  Handshake'
<1>0. Len(down) \in Nat /\ Len(Coming) \in Nat /\ Len(Coming') \in Nat
  BY ComingLength, NextLength
<1>1. \A i \in 1 .. Len(down') : down'[i].kind = "ping" => down'[i].id <= nonce
  <2> SUFFICES ASSUME NEW i \in 1 .. Len(down'), down'[i].kind = "ping"
               PROVE  i \in 1 .. Len(down) /\ down'[i] = down[i]
    BY DEF Handshake
  <2>1. CASE down' = down
    BY <2>1
  <2>2. CASE Len(down') = Len(down) + 1 /\ down' # down
    BY <1>0, <2>2 DEF Wrote
  <2> QED
    BY <2>1, <2>2 DEF Wrote
<1>2. \A i \in 1 .. Len(Coming') :
        i + l \in 1 .. Len(Coming) /\ Coming'[i] = Coming[i + l]
  BY <1>0 DEF Left
<1>3. \A i \in 1 .. Len(Coming') : Coming'[i].kind = "pong" => Coming'[i].id <= nonce
  BY <1>2 DEF Handshake
<1> QED
  BY <1>1, <1>3 DEF Handshake

\* A new connection numbers its Ping higher than any Ping or Pong under way.
LEMMA HandshakeOpens ==
  ASSUME TypeOK, TypeOK', Handshake, SendClosed
  PROVE  Handshake'
<1>. nonce \in Nat
  BY DEF TypeOK
<1>0. Len(down) \in Nat /\ Len(Coming) \in Nat /\ Len(Coming') \in Nat
  BY ComingLength, NextLength
<1>1. phase' = "ping" /\ port' /\ nonce' = nonce + 1 /\ Wrote("ping", nonce + 1)
  BY <1>0, ExchangeLemma DEF SendClosed
<1>2. PICK l \in Nat : Left(l)
  BY ShrinksLemma
<1>3. \A i \in 1 .. Len(Coming') :
        i + l \in 1 .. Len(Coming) /\ Coming'[i] = Coming[i + l]
  BY <1>0, <1>2 DEF Left
<1>4. \A i \in 1 .. Len(Coming') : Coming'[i].kind = "pong" =>
        Coming'[i].id \in Nat /\ Coming'[i].id <= nonce
  <2>1. \A i \in 1 .. Len(Coming) : Coming[i].kind = "pong" => Coming[i].id \in Nat
    BY ComingReply, ReplyFields
  <2> QED
    BY <1>3, <2>1 DEF Handshake
<1>5. \A i \in 1 .. Len(down) : down[i].id \in Nat
  BY DownLength DEF Message
<1>6. \A i \in 1 .. Len(down') :
        down'[i].kind = "ping" =>
          \/ i = Len(down') /\ down'[i].id = nonce + 1
          \/ down'[i].id \in Nat /\ down'[i].id <= nonce
  <2>1. CASE down' = down
    BY <1>5, <2>1 DEF Handshake
  <2>2. CASE Len(down') = Len(down) + 1 /\ down' # down
    <3> SUFFICES ASSUME NEW i \in 1 .. Len(down'), down'[i].kind = "ping"
                 PROVE  \/ i = Len(down') /\ down'[i].id = nonce + 1
                        \/ down'[i].id \in Nat /\ down'[i].id <= nonce
      OBVIOUS
    <3>1. CASE i = Len(down) + 1
      BY <1>0, <1>1, <2>2, <3>1 DEF Wrote
    <3>2. CASE i \in 1 .. Len(down)
      BY <1>1, <1>5, <2>2, <3>2 DEF Wrote, Handshake
    <3> QED
      BY <1>0, <2>2, <3>1, <3>2
  <2> QED
    BY <1>1, <2>1, <2>2 DEF Wrote
<1>7. \A i \in 1 .. Len(Coming') : ~ValidPong(Coming[i])'
  <2>1. \A i \in 1 .. Len(Coming') : Coming'[i].kind = "pong" => Coming'[i].id # nonce'
    BY <1>1, <1>4
  <2> QED
    BY <2>1 DEF ValidPong
<1>8. /\ \A i \in 1 .. Len(down') : down'[i].kind = "ping" => down'[i].id <= nonce'
      /\ \A i \in 1 .. Len(Coming') : Coming'[i].kind = "pong" => Coming'[i].id <= nonce'
  <2>1. \A i \in 1 .. Len(down') : down'[i].kind = "ping" => down'[i].id <= nonce'
    BY <1>1, <1>6
  <2>2. \A i \in 1 .. Len(Coming') : Coming'[i].kind = "pong" => Coming'[i].id <= nonce'
    BY <1>1, <1>4
  <2> QED
    BY <2>1, <2>2
<1>9. \A i \in 1 .. Len(down') :
        down'[i].kind = "ping" /\ down'[i].id = nonce' => i = Len(down')
  BY <1>0, <1>1, <1>6
<1> QED
  BY <1>1, <1>7, <1>8, <1>9 DEF Handshake

\* The Ping of this connection is the last frame on its way, so that no reply
\* follows the answer to it.
LEMMA HandshakeAnswers ==
  ASSUME TypeOK, TypeOK', Handshake, Handle
  PROVE  Handshake'
<1>0. Len(down) \in Nat /\ Len(down') \in Nat /\ Len(Coming) \in Nat
  BY ComingLength, NextLength
<1>1. /\ Passed(1) /\ Len(down) >= 1 /\ Head(down) = down[1] /\ Head(down) \in Message
  BY TailLemma DEF Handle
<1>2. UNCHANGED <<port, phase, outcome, nonce>>
  BY DEF Handle, host, link, progress, attempt
<1>3. /\ Len(Coming') = Len(Coming) + 1 /\ Coming'[Len(Coming) + 1] = tx'
      /\ \A i \in 1 .. Len(Coming) : Coming'[i] = Coming[i]
  BY GrowsLemma DEF Grows
<1>4. tx'.kind = "pong" => Head(down).kind = "ping" /\ tx'.id = Head(down).id
  BY <1>1 DEF Handle, Pong, Ack, Rejected
<1>5. \A i \in 1 .. Len(down') :
        i + 1 \in 1 .. Len(down)
          /\ (down'[i] = down[i + 1] \/ (i = 1 /\ down'[i].kind = "garbage"))
  BY <1>0, <1>1 DEF Passed
<1>6. \A i \in 1 .. Len(down') : down'[i].kind = "ping" => down'[i].id <= nonce
  BY <1>5 DEF Handshake
<1>7. \A i \in 1 .. Len(Coming') : Coming'[i].kind = "pong" => Coming'[i].id <= nonce
  <2>1. Head(down).kind = "ping" => Head(down).id <= nonce
    BY <1>0, <1>1 DEF Handshake
  <2> QED
    BY <1>0, <1>3, <1>4, <2>1 DEF Handshake
<1>8. ASSUME phase = "ping", NEW i \in 1 .. Len(down'),
             down'[i].kind = "ping" /\ down'[i].id = nonce
      PROVE  i = Len(down')
  <2>1. i + 1 = Len(down)
    BY <1>5, <1>8 DEF Handshake
  <2> QED
    BY <1>0, <1>1, <2>1 DEF Passed
<1>9. ASSUME phase = "ping", NEW i \in 1 .. Len(Coming'), ValidPong(Coming[i])'
      PROVE  /\ Len(down') = 0
             /\ \A j \in i + 1 .. Len(Coming') : Coming'[j].kind = "event"
  <2>1. i = Len(Coming) + 1
    <3>1. i \in 1 .. Len(Coming) => ValidPong(Coming[i])
      BY <1>2, <1>3, <1>9 DEF ValidPong
    <3>2. i \notin 1 .. Len(Coming)
      BY <1>0, <1>1, <1>9, <3>1 DEF Handshake
    <3> QED
      BY <1>0, <1>3, <3>2
  <2>2. Head(down).kind = "ping" /\ Head(down).id = nonce
    BY <1>2, <1>3, <1>4, <1>9, <2>1 DEF ValidPong
  <2>3. Len(down) = 1
    <3>1. 1 \in 1 .. Len(down) /\ down[1].kind = "ping" /\ down[1].id = nonce
      BY <1>0, <1>1, <2>2
    <3> QED
      BY <1>9, <3>1 DEF Handshake
  <2> QED
    BY <1>0, <1>1, <1>3, <2>1, <2>3 DEF Passed
<1> QED
  BY <1>2, <1>6, <1>7, <1>8, <1>9 DEF Handshake

LEMMA HandshakeEvents ==
  ASSUME TypeOK, TypeOK', Handshake, TransmitEvent
  PROVE  Handshake'
<1>0. Len(Coming) \in Nat
  BY ComingLength
<1>1. UNCHANGED <<port, phase, outcome, nonce, down>>
  BY DEF TransmitEvent, host, link, progress, attempt
<1>2. /\ Len(Coming') = Len(Coming) + 1 /\ Coming'[Len(Coming) + 1].kind = "event"
      /\ \A i \in 1 .. Len(Coming) : Coming'[i] = Coming[i]
  BY GrowsLemma DEF Grows, TransmitEvent, TapEvent
<1>3. ASSUME phase = "ping", NEW i \in 1 .. Len(Coming'), ValidPong(Coming[i])'
      PROVE  /\ Len(down) = 0
             /\ \A j \in i + 1 .. Len(Coming') : Coming'[j].kind = "event"
  <2>1. i \in 1 .. Len(Coming)
    BY <1>0, <1>2, <1>3 DEF ValidPong
  <2>2. ValidPong(Coming[i])
    BY <1>1, <1>2, <1>3, <2>1 DEF ValidPong
  <2>3. Len(down) = 0 /\ \A j \in i + 1 .. Len(Coming) : Coming[j].kind = "event"
    BY <1>3, <2>1, <2>2 DEF Handshake
  <2>4. ASSUME NEW j \in i + 1 .. Len(Coming') PROVE Coming'[j].kind = "event"
    <3>1. j = Len(Coming) + 1 \/ (j \in 1 .. Len(Coming) /\ j \in i + 1 .. Len(Coming))
      BY <1>0, <1>2, <2>1
    <3> QED
      BY <1>2, <2>3, <3>1
  <2> QED
    BY <2>3, <2>4
<1>4. \A i \in 1 .. Len(Coming') : Coming'[i].kind = "pong" => Coming'[i].id <= nonce
  BY <1>0, <1>2 DEF Handshake
<1> QED
  BY <1>1, <1>3, <1>4 DEF Handshake

\* What reading a reply does to the host: it gives up, returns, or writes on.
LEMMA ReadOutcome ==
  ASSUME TypeOK, Read
  PROVE  /\ nonce' = nonce /\ phase # "idle"
         /\ \/ /\ Coming[1].kind = "event"
               /\ UNCHANGED <<port, phase, outcome, down, done>>
            \/ /\ Coming[1].kind # "event"
               /\ \/ /\ ~port' /\ phase' = "idle" /\ outcome' # "Delivered" /\ down' = down
                  \/ /\ UNCHANGED port /\ phase' = "idle" /\ down' = down /\ phase # "ping"
                  \/ /\ UNCHANGED port
                     /\ phase = "ping" => ValidPong(Coming[1])
                     /\ \/ Exchange("trim", nonce) /\ phase = "ping"
                        \/ Exchange("request", call) /\ phase \in {"ping", "trim"}
                        \/ /\ Exchange("retrim", nonce) /\ phase = "request"
                           /\ Coming[1].kind = "ack"
<1>1. Head(up) = Coming[1]
  BY ReadLemma
<1>2. nonce' = nonce /\ phase # "idle" /\ done' = done
  BY DEF Read, attempt, firmware
<1>3. CASE Coming[1].kind = "event"
  BY <1>1, <1>2, <1>3 DEF Read, link, progress, OnPing, OnTrim, OnRequest, OnRetrim
<1>4. CASE Coming[1].kind # "event" /\ OnPing(Coming[1])
  BY <1>2, <1>4 DEF OnPing, GiveUp, Return
<1>5. CASE Coming[1].kind # "event" /\ OnTrim(Coming[1])
  BY <1>2, <1>5 DEF OnTrim, GiveUp, Return
<1>6. CASE Coming[1].kind # "event" /\ OnRequest(Coming[1])
  BY <1>2, <1>6 DEF OnRequest, Return, Acked
<1>7. CASE Coming[1].kind # "event" /\ OnRetrim(Coming[1])
  BY <1>2, <1>7 DEF OnRetrim, Return
<1> QED
  BY <1>1, <1>3, <1>4, <1>5, <1>6, <1>7 DEF Read

\* The handshake holds its order through every step.
LEMMA HandshakeStep ==
  ASSUME TypeOK, TypeOK', Handshake, [Next]_vars
  PROVE  Handshake'
<1>1. CASE Handle
  BY <1>1, HandshakeAnswers
<1>2. CASE TransmitEvent
  BY <1>2, HandshakeEvents
<1>3. CASE SendClosed
  BY <1>3, HandshakeOpens
<1>4. CASE SendOpen
  <2>1. /\ Wrote("request", call + 1) /\ nonce' = nonce /\ phase' = "request"
        /\ port' /\ UNCHANGED <<tx, up>> /\ call + 1 \in Nat
    <3>1. call + 1 \in Nat
      BY DEF TypeOK
    <3> QED
      BY <1>4, <3>1, ExchangeLemma DEF SendOpen, link, firmware
  <2>2. Left(0)
    BY <2>1, SameLemma
  <2> QED
    BY <2>1, <2>2, HandshakeWrites
<1>5. CASE Read
  <2>1. Left(1)
    BY <1>5, ReadLemma
  <2>2. ASSUME down' = down, phase' = "idle" \/ phase' = phase,
               ~port' => phase' = "idle" /\ outcome' # "Delivered"
        PROVE  Handshake'
    BY <1>5, <2>1, <2>2, PassedLemma, HandshakeShrinks, ReadOutcome
  <2>3. ASSUME NEW p \in {"trim", "request", "retrim"}, NEW id \in Nat, Exchange(p, id),
               UNCHANGED port
        PROVE  Handshake'
    <3>1. Wrote(IF p = "retrim" THEN "trim" ELSE p, id) /\ phase' = p
      BY <2>3, ExchangeLemma
    <3>2. port'
      BY <1>5, <2>3 DEF Handshake, Read
    <3> QED
      BY <1>5, <2>1, <3>1, <3>2, ReadOutcome, HandshakeWrites
  <2>4. nonce \in Nat /\ call \in Nat /\ port
    BY <1>5 DEF TypeOK, Handshake, Read
  <2>5. CASE UNCHANGED <<port, phase, outcome, down>>
    BY <2>2, <2>4, <2>5
  <2>6. CASE ~port' /\ phase' = "idle" /\ outcome' # "Delivered" /\ down' = down
    BY <2>2, <2>6
  <2>7. CASE UNCHANGED port /\ phase' = "idle" /\ down' = down
    BY <2>2, <2>4, <2>7
  <2>8. CASE \E p \in {"trim", "request", "retrim"}, id \in Nat :
               Exchange(p, id) /\ UNCHANGED port
    BY <2>3, <2>8
  <2>9. \/ UNCHANGED <<port, phase, outcome, down>>
        \/ ~port' /\ phase' = "idle" /\ outcome' # "Delivered" /\ down' = down
        \/ UNCHANGED port /\ phase' = "idle" /\ down' = down
        \/ /\ UNCHANGED port
           /\ \/ Exchange("trim", nonce) \/ Exchange("request", call)
              \/ Exchange("retrim", nonce)
    BY <1>5, ReadOutcome
  <2> QED
    BY <2>4, <2>5, <2>6, <2>7, <2>8, <2>9
<1>6. CASE \/ SendFails \/ Fail \/ Poll \/ Tick \/ Join \/ Transmit \/ Tap \/ Restart
           \/ Unplug \/ UNCHANGED vars
  <2>1. PICK l \in Nat : Left(l)
    BY <1>6, ShrinksLemma
  <2>2. PICK k \in Nat : Passed(k)
    <3>1. Join \/ Restart \/ Unplug \/ down' = down
      BY <1>6 DEF SendFails, Fail, Poll, Tick, Transmit, Tap, vars
    <3> QED
      BY <3>1, PassedLemma
  <2>3. /\ nonce' = nonce /\ (phase' = "ping" => phase = "ping")
        /\ ~port' => phase' = "idle" /\ outcome' # "Delivered"
    BY <1>6 DEF Handshake, SendFails, Fail, Poll, Tick, Join, Transmit, Tap, Restart, Unplug,
                vars, host, link, progress, attempt, Return
  <2> QED
    BY <2>1, <2>2, <2>3, HandshakeShrinks
<1> QED
  BY <1>1, <1>2, <1>3, <1>4, <1>5, <1>6 DEF Next

-----------------------------------------------------------------------------
(* Nothing stale.                                                          *)

LEMMA FreshIsNothingStale == ASSUME TypeOK, Fresh PROVE NothingStale
<1>1. /\ DOMAIN down = 1 .. Len(down) /\ DOMAIN Coming = 1 .. Len(Coming)
      /\ Len(down) \in Nat /\ Len(Coming) \in Nat
  BY ComingType, DownLength
<1>2. ASSUME port, phase # "ping", phase = "idle" PROVE UnderWay = {}
  BY <1>1, <1>2 DEF Fresh, Clear, NoReply, UnderWay, IsReply
<1>3. ASSUME port, phase # "ping", phase # "idle", NEW a \in UnderWay, NEW b \in UnderWay
      PROVE  a = b
  <2>1. OneUnderWay
    BY <1>3 DEF Fresh
  <2>2. ASSUME NEW c \in UnderWay
        PROVE  \/ Len(down) = 1 /\ NoReply /\ c = <<"down", 1>>
               \/ \E i \in 1 .. Len(Coming) :
                    Coming[i].kind # "event" /\ c = <<"up", i>> /\ Len(down) = 0
    <3>1. CASE \E i \in 1 .. Len(down) : c = <<"down", i>>
      BY <1>1, <2>1, <3>1 DEF OneUnderWay
    <3>2. CASE \E i \in 1 .. Len(Coming) : Coming[i].kind # "event" /\ c = <<"up", i>>
      BY <1>1, <2>1, <3>2 DEF OneUnderWay, NoReply
    <3> QED
      BY <1>1, <2>2, <3>1, <3>2 DEF UnderWay, IsReply
  <2> QED
    BY <1>1, <1>3, <2>1, <2>2 DEF OneUnderWay
<1> QED
  BY <1>2, <1>3 DEF NothingStale

\* What is lost or read leaves no more under way.
LEMMA FreshShrinks ==
  ASSUME TypeOK, TypeOK', Fresh, NEW k \in Nat, NEW l \in Nat, Passed(k), Left(l),
         port' /\ phase' # "ping" => port /\ phase' = phase
  PROVE  Fresh'
<1>0. Len(down) \in Nat /\ Len(down') \in Nat /\ Len(Coming) \in Nat /\ Len(Coming') \in Nat
  BY ComingLength, NextLength
<1>1. Len(down') <= Len(down)
  BY <1>0 DEF Passed
<1>2. \A i \in 1 .. Len(Coming') :
        i + l \in 1 .. Len(Coming) /\ Coming'[i] = Coming[i + l]
  BY <1>0 DEF Left
<1>3. NoReply => NoReply'
  BY <1>2 DEF NoReply
<1>4. Clear => Clear'
  BY <1>0, <1>1, <1>3 DEF Clear
<1>5. ASSUME OneUnderWay PROVE OneUnderWay'
  <2>1. Len(down') <= 1 /\ (Len(down') = 1 => NoReply')
    BY <1>0, <1>1, <1>3, <1>5 DEF OneUnderWay
  <2>2. ASSUME NEW i \in 1 .. Len(Coming'), NEW j \in 1 .. Len(Coming'),
               Coming'[i].kind # "event", Coming'[j].kind # "event"
        PROVE  i = j
    <3>1. /\ i + l \in 1 .. Len(Coming) /\ Coming[i + l].kind # "event"
          /\ j + l \in 1 .. Len(Coming) /\ Coming[j + l].kind # "event"
      BY <1>2, <2>2
    <3>2. i + l = j + l
      BY <1>5, <3>1 DEF OneUnderWay
    <3> QED
      BY <3>2
  <2> QED
    BY <2>1, <2>2 DEF OneUnderWay
<1> QED
  BY <1>4, <1>5 DEF Fresh

\* The reply that continues an exchange was the last frame under way.
LEMMA AfterReply ==
  ASSUME TypeOK, TypeOK', Handshake, Fresh, Read, port, Coming[1].kind # "event",
         phase = "ping" => ValidPong(Coming[1])
  PROVE  Len(down) = 0 /\ NoReply'
<1>0. Len(down) \in Nat /\ Len(Coming) \in Nat /\ Len(Coming') \in Nat
  BY ComingLength, NextLength
<1>1. Len(Coming) >= 1 /\ Len(Coming') = Len(Coming) - 1 /\ Left(1) /\ phase # "idle"
  BY ReadLemma DEF Read
<1>2. 1 \in 1 .. Len(Coming)
  BY <1>0, <1>1
<1>3. Len(down) = 0 /\ \A j \in 1 + 1 .. Len(Coming) : Coming[j].kind = "event"
  <2>1. CASE phase = "ping"
    BY <1>2, <2>1 DEF Handshake
  <2>2. CASE phase # "ping"
    <3>1. OneUnderWay
      BY <1>1, <2>2 DEF Fresh
    <3>2. Len(down) = 0
      <4>1. ~NoReply
        BY <1>2 DEF NoReply
      <4>2. Len(down) <= 1 /\ Len(down) # 1
        BY <3>1, <4>1 DEF OneUnderWay
      <4>3. \A n \in Nat : n <= 1 /\ n # 1 => n = 0
        OBVIOUS
      <4> QED
        BY <1>0, <4>2, <4>3
    <3>3. \A j \in 1 + 1 .. Len(Coming) : j \in 1 .. Len(Coming) /\ j # 1
      BY <1>0
    <3> QED
      BY <1>2, <3>1, <3>2, <3>3 DEF OneUnderWay
  <2> QED
    BY <2>1, <2>2
<1>4. ASSUME NEW i \in 1 .. Len(Coming') PROVE Coming'[i].kind = "event"
  <2>1. i + 1 \in 1 + 1 .. Len(Coming) /\ Coming'[i] = Coming[i + 1]
    BY <1>0, <1>1 DEF Left
  <2> QED
    BY <1>3, <2>1
<1> QED
  BY <1>3, <1>4 DEF NoReply

LEMMA FreshWrites ==
  ASSUME TypeOK, TypeOK', NEW kind, NEW id, Len(down) = 0, Wrote(kind, id), NoReply',
         phase' # "idle"
  PROVE  Fresh'
<1>1. Len(down') <= 1
  <2>1. down' = down \/ Len(down') = Len(down) + 1
    BY DEF Wrote
  <2> QED
    BY <2>1
<1>2. \A i, j \in 1 .. Len(Coming') :
        Coming'[i].kind # "event" /\ Coming'[j].kind # "event" => i = j
  BY DEF NoReply
<1> QED
  BY <1>1, <1>2 DEF Fresh, OneUnderWay

LEMMA FreshAnswers ==
  ASSUME TypeOK, TypeOK', Fresh, Handle
  PROVE  Fresh'
<1>0. Len(down) \in Nat /\ Len(down') \in Nat /\ Len(Coming) \in Nat /\ Len(Coming') \in Nat
  BY ComingLength, NextLength
<1>1. Passed(1) /\ Len(down) >= 1
  BY TailLemma DEF Handle
<1>2. UNCHANGED <<port, phase>>
  BY DEF Handle, host, link, progress
<1>3. /\ Len(Coming') = Len(Coming) + 1
      /\ \A i \in 1 .. Len(Coming) : Coming'[i] = Coming[i]
  BY GrowsLemma DEF Grows
<1>4. ASSUME port, phase # "ping" PROVE phase # "idle" /\ OneUnderWay'
  <2>1. phase # "idle" /\ OneUnderWay
    BY <1>0, <1>1, <1>4 DEF Fresh, Clear
  <2>2. Len(down) = 1 /\ NoReply /\ Len(down') = 0
    BY <1>0, <1>1, <2>1 DEF OneUnderWay, Passed
  <2>3. \A i \in 1 .. Len(Coming') : Coming'[i].kind # "event" => i = Len(Coming) + 1
    BY <1>0, <1>3, <2>2 DEF NoReply
  <2> QED
    BY <2>1, <2>2, <2>3 DEF OneUnderWay
<1> QED
  BY <1>2, <1>4 DEF Fresh

LEMMA FreshEvents ==
  ASSUME TypeOK, TypeOK', Fresh, TransmitEvent
  PROVE  Fresh'
<1>0. Len(Coming) \in Nat
  BY ComingLength
<1>1. UNCHANGED <<port, phase, down>>
  BY DEF TransmitEvent, host, link, progress
<1>2. /\ Len(Coming') = Len(Coming) + 1 /\ Coming'[Len(Coming) + 1].kind = "event"
      /\ \A i \in 1 .. Len(Coming) : Coming'[i] = Coming[i]
  BY GrowsLemma DEF Grows, TransmitEvent, TapEvent
<1>3. \A i \in 1 .. Len(Coming') : i \in 1 .. Len(Coming) \/ i = Len(Coming) + 1
  BY <1>0, <1>2
<1>4. NoReply => NoReply'
  BY <1>2, <1>3 DEF NoReply
<1>5. OneUnderWay => OneUnderWay'
  BY <1>1, <1>2, <1>3, <1>4 DEF OneUnderWay
<1> QED
  BY <1>1, <1>4, <1>5 DEF Fresh, Clear

LEMMA FreshStep ==
  ASSUME TypeOK, TypeOK', Handshake, Fresh, [Next]_vars
  PROVE  Fresh'
<1>1. CASE Handle
  BY <1>1, FreshAnswers
<1>2. CASE TransmitEvent
  BY <1>2, FreshEvents
<1>3. CASE SendOpen
  <2>1. /\ Wrote("request", call + 1) /\ phase' = "request" /\ UNCHANGED <<tx, up>>
        /\ port /\ phase = "idle"
    <3>1. call + 1 \in Nat
      BY DEF TypeOK
    <3> QED
      BY <1>3, <3>1, ExchangeLemma DEF SendOpen, firmware
  <2>2. Clear
    BY <2>1 DEF Fresh
  <2>3. Coming' = Coming
    BY <2>1, SameLemma
  <2> QED
    BY <2>1, <2>2, <2>3, FreshWrites DEF Clear, NoReply
<1>4. CASE Read
  <2>1. Left(1) /\ port
    BY <1>4, ReadLemma DEF Handshake, Read
  <2>2. CASE UNCHANGED <<port, phase, outcome, down>>
    BY <2>1, <2>2, PassedLemma, FreshShrinks
  <2>3. CASE ~port'
    BY <2>3 DEF Fresh
  <2>4. CASE Coming[1].kind # "event" /\ UNCHANGED port /\ phase' = "idle" /\ down' = down
             /\ phase # "ping"
    <3>1. Len(down) = 0 /\ NoReply'
      BY <1>4, <2>1, <2>4, AfterReply
    <3> QED
      BY <2>4, <3>1 DEF Fresh, Clear
  <2>5. ASSUME Coming[1].kind # "event", phase = "ping" => ValidPong(Coming[1]),
               NEW p \in {"trim", "request", "retrim"}, NEW id \in Nat, Exchange(p, id)
        PROVE  Fresh'
    <3>1. Len(down) = 0 /\ NoReply'
      BY <1>4, <2>1, <2>5, AfterReply
    <3>2. Wrote(IF p = "retrim" THEN "trim" ELSE p, id) /\ phase' # "idle"
      BY <2>5, ExchangeLemma
    <3> QED
      BY <3>1, <3>2, FreshWrites
  <2>6. nonce \in Nat /\ call \in Nat
    BY DEF TypeOK
  <2>7. \/ UNCHANGED <<port, phase, outcome, down>>
        \/ ~port'
        \/ Coming[1].kind # "event" /\ UNCHANGED port /\ phase' = "idle" /\ down' = down
             /\ phase # "ping"
        \/ /\ Coming[1].kind # "event" /\ (phase = "ping" => ValidPong(Coming[1]))
           /\ \/ Exchange("trim", nonce) \/ Exchange("request", call)
              \/ Exchange("retrim", nonce)
    BY <1>4, ReadOutcome
  <2> QED
    BY <2>2, <2>3, <2>4, <2>5, <2>6, <2>7
<1>5. CASE \/ SendClosed \/ SendFails \/ Fail
  BY <1>5 DEF Fresh, Handshake, SendClosed, SendFails, Fail, Exchange
<1>6. CASE \/ Poll \/ Tick \/ Join \/ Transmit \/ Tap \/ Restart \/ Unplug \/ UNCHANGED vars
  <2>1. PICK l \in Nat : Left(l)
    BY <1>6, ShrinksLemma
  <2>2. PICK k \in Nat : Passed(k)
    <3>1. Join \/ Restart \/ Unplug \/ down' = down
      BY <1>6 DEF Poll, Tick, Transmit, Tap, vars
    <3> QED
      BY <3>1, PassedLemma
  <2>3. UNCHANGED <<port, phase>>
    BY <1>6 DEF Poll, Tick, Join, Transmit, Tap, Restart, Unplug, vars, host, link, progress
  <2> QED
    BY <2>1, <2>2, <2>3, FreshShrinks
<1> QED
  BY <1>1, <1>2, <1>3, <1>4, <1>5, <1>6 DEF Next

LEMMA Connection == Spec => [](TypeOK /\ Handshake /\ Fresh)
<1>1. Init => Handshake /\ Fresh
  <2> SUFFICES ASSUME Init PROVE Handshake /\ Fresh
    OBVIOUS
  <2>1. Fresh /\ (~port => phase = "idle" /\ outcome # "Delivered") /\ phase = "idle"
    BY DEF Init, Fresh
  <2>2. \A i \in 1 .. Len(down) : down[i].kind # "ping"
    BY DEF Init
  <2>3. \A i \in 1 .. Len(Coming) : Coming[i].kind # "pong"
    BY DEF Init, Coming, Ack
  <2> QED
    BY <2>1, <2>2, <2>3 DEF Handshake
<1>2. TypeOK /\ TypeOK' /\ Handshake /\ Fresh /\ [Next]_vars => Handshake' /\ Fresh'
  BY HandshakeStep, FreshStep
<1> QED
  BY <1>1, <1>2, TypeCorrect, PTL DEF Spec

\* Once a handshake has succeeded, nothing of an earlier connection or exchange is
\* under way, whatever was lost, cut, spoiled or restarted before: the first reply
\* is the reply to the request (exchange, handshake and connect).
THEOREM NothingStaleTheorem == Spec => []NothingStale
<1>1. TypeOK /\ Handshake /\ Fresh => NothingStale
  BY FreshIsNothingStale
<1> QED
  BY <1>1, Connection, PTL

-----------------------------------------------------------------------------
(* Calls in order.                                                         *)

LEMMA CallsShrink ==
  ASSUME TypeOK, TypeOK', CallOrder, NEW k \in Nat, NEW l \in Nat, Passed(k), Left(l),
         done' = done, call' = call, phase' \in {phase, "idle"}
  PROVE  CallOrder'
<1>0. Len(down) \in Nat /\ Len(down') \in Nat /\ Len(Coming) \in Nat /\ Len(Coming') \in Nat
  BY ComingLength, NextLength
<1>1. \A i \in 1 .. Len(down') :
        i + k \in 1 .. Len(down)
          /\ (down'[i] = down[i + k] \/ down'[i].kind = "garbage")
  BY <1>0 DEF Passed
<1>2. \A i \in 1 .. Len(Coming') :
        i + l \in 1 .. Len(Coming) /\ Coming'[i] = Coming[i + l]
  BY <1>0 DEF Left
<1>3. done <= call
  BY DEF CallOrder
<1>4. \A i \in 1 .. Len(down') :
        down'[i].kind = "request" => done < down'[i].id /\ down'[i].id <= call
  BY <1>1 DEF CallOrder
<1>5. ASSUME NEW i \in 1 .. Len(down'), NEW j \in 1 .. Len(down'),
             down'[i].kind = "request", down'[j].kind = "request", i < j
      PROVE  down'[i].id < down'[j].id
  <2>1. /\ i + k \in 1 .. Len(down) /\ j + k \in 1 .. Len(down)
        /\ down'[i] = down[i + k] /\ down'[j] = down[j + k]
    BY <1>1, <1>5
  <2>2. i + k < j + k
    BY <1>0, <1>5
  <2> QED
    BY <1>5, <2>1, <2>2 DEF CallOrder
<1>6. phase \in {"ping", "trim"} =>
        done < call /\ \A i \in 1 .. Len(down') : down'[i].kind = "request" => down'[i].id < call
  BY <1>1 DEF CallOrder
<1>7. phase = "request" =>
        /\ \A i \in 1 .. Len(down') :
             /\ down'[i].kind \in {"request", "partial", "garbage"}
             /\ down'[i].kind = "request" => down'[i].id = call
        /\ \A i \in 1 .. Len(Coming') : Coming'[i].kind = "ack" => done = call
  BY <1>1, <1>2 DEF CallOrder
<1>8. phase = "retrim" => done = call
  BY DEF CallOrder
<1> QED
  BY <1>3, <1>4, <1>5, <1>6, <1>7, <1>8 DEF CallOrder

\* Requests that wait for the firmware are carried out one by one.
LEMMA CallsAnswer ==
  ASSUME TypeOK, TypeOK', Handshake, Fresh, CallOrder, Handle
  PROVE  /\ CallOrder'
         /\ done' = done \/ done' \in done + 1 .. call
<1> DEFINE m == Head(down)
<1>0. Len(down) \in Nat /\ Len(down') \in Nat /\ Len(Coming) \in Nat /\ Len(Coming') \in Nat
  BY ComingLength, NextLength
<1>1. /\ Passed(1) /\ Len(down) >= 1 /\ m = down[1] /\ m \in Message
  BY TailLemma DEF Handle
<1>2. UNCHANGED <<port, phase, call>>
  BY DEF Handle, host, link, progress, attempt
<1>3. /\ Len(Coming') = Len(Coming) + 1 /\ Coming'[Len(Coming) + 1] = tx'
      /\ \A i \in 1 .. Len(Coming) : Coming'[i] = Coming[i]
  BY GrowsLemma DEF Grows
<1>4. /\ done' = done \/ (m.kind = "request" /\ done' = m.id)
      /\ tx'.kind = "ack" => \/ m.kind = "request" /\ done' = m.id
                             \/ m.kind = "trim"
  BY DEF Handle, Pong, Ack, Rejected
<1>5. done \in Nat /\ call \in Nat /\ m.id \in Nat /\ done' \in Nat
  BY <1>1 DEF TypeOK, Message
<1>6. m.kind = "request" => done < m.id /\ m.id <= call
  <2>1. 1 \in 1 .. Len(down)
    BY <1>0, <1>1
  <2> QED
    BY <1>1, <2>1 DEF CallOrder
<1>7. \A i \in 1 .. Len(down') :
        i + 1 \in 1 .. Len(down)
          /\ (down'[i] = down[i + 1] \/ down'[i].kind = "garbage")
  BY <1>0, <1>1 DEF Passed
<1>8. done' <= call
  BY <1>4, <1>6 DEF CallOrder
<1>9. ASSUME NEW i \in 1 .. Len(down'), down'[i].kind = "request"
      PROVE  done' < down'[i].id /\ down'[i].id <= call
  <2>1. i + 1 \in 1 .. Len(down) /\ down'[i] = down[i + 1] /\ 1 < i + 1 /\ 1 \in 1 .. Len(down)
    BY <1>0, <1>1, <1>7, <1>9
  <2>2. done < down[i + 1].id /\ down[i + 1].id <= call
    BY <1>9, <2>1 DEF CallOrder
  <2>3. m.kind = "request" => m.id < down[i + 1].id
    BY <1>1, <1>9, <2>1 DEF CallOrder
  <2> QED
    BY <1>4, <2>1, <2>2, <2>3
<1>10. ASSUME NEW i \in 1 .. Len(down'), NEW j \in 1 .. Len(down'),
              down'[i].kind = "request", down'[j].kind = "request", i < j
       PROVE  down'[i].id < down'[j].id
  <2>1. /\ i + 1 \in 1 .. Len(down) /\ down'[i] = down[i + 1]
        /\ j + 1 \in 1 .. Len(down) /\ down'[j] = down[j + 1]
    BY <1>7, <1>10
  <2>2. i + 1 < j + 1
    BY <1>10
  <2> QED
    BY <1>10, <2>1, <2>2 DEF CallOrder
<1>11. ASSUME phase \in {"ping", "trim"}
       PROVE  /\ done' < call
              /\ \A i \in 1 .. Len(down') : down'[i].kind = "request" => down'[i].id < call
  <2>1. m.kind = "request" => m.id < call
    <3>1. 1 \in 1 .. Len(down)
      BY <1>0, <1>1
    <3> QED
      BY <1>1, <1>11, <3>1 DEF CallOrder
  <2>2. done' < call
    BY <1>4, <1>11, <2>1 DEF CallOrder
  <2>3. \A i \in 1 .. Len(down') : down'[i].kind = "request" => down'[i].id < call
    BY <1>7, <1>11 DEF CallOrder
  <2> QED
    BY <2>2, <2>3
<1>12. ASSUME phase = "request"
       PROVE  Len(down') = 0
              /\ \A i \in 1 .. Len(Coming') : Coming'[i].kind = "ack" => done' = call
  <2>1. OneUnderWay
    BY <1>12 DEF Fresh, Handshake
  <2>2. Len(down) = 1 /\ NoReply /\ Len(down') = 0
    BY <1>0, <1>1, <2>1 DEF OneUnderWay, Passed
  <2>3. m.kind # "trim" /\ (m.kind = "request" => m.id = call)
    BY <1>1, <1>12, <2>2 DEF CallOrder
  <2>4. \A i \in 1 .. Len(Coming') : Coming'[i].kind = "ack" => Coming'[i] = tx'
    BY <1>0, <1>3, <2>2 DEF NoReply
  <2> QED
    BY <1>4, <2>2, <2>3, <2>4
<1>13. phase = "retrim" => done' = call
  BY <1>4, <1>5, <1>6 DEF CallOrder
<1>14. done' = done \/ done' \in done + 1 .. call
  BY <1>4, <1>5, <1>6
<1> QED
  BY <1>2, <1>8, <1>9, <1>10, <1>11, <1>12, <1>13, <1>14 DEF CallOrder

\* A frame that is written when nothing is under way.
LEMMA CallsWrite ==
  ASSUME TypeOK, TypeOK', NEW kind \in {"trim", "request"}, Len(down) = 0, NoReply',
         NEW id, Wrote(kind, id), done' <= call',
         kind = "request" => id = call' /\ done' < call' /\ phase' = "request",
         kind = "trim" => \/ phase' = "trim" /\ done' < call'
                          \/ phase' = "retrim" /\ done' = call'
  PROVE  CallOrder'
<1>1. \A i \in 1 .. Len(down') :
        i = 1 /\ (down'[i] = [kind |-> kind, id |-> id] \/ down'[i].kind = "partial")
  <2>1. CASE down' = down
    BY <2>1
  <2>2. CASE down' # down
    <3>1. /\ Len(down') = 0 + 1
          /\ \/ down'[0 + 1] = [kind |-> kind, id |-> id]
             \/ down'[0 + 1].kind = "partial"
      BY <2>2 DEF Wrote
    <3> QED
      BY <3>1
  <2> QED
    BY <2>1, <2>2
<1>2. \A i \in 1 .. Len(down') :
        /\ down'[i].kind \in {kind, "partial"}
        /\ down'[i].kind = "request" => kind = "request" /\ down'[i].id = call'
  BY <1>1
<1>3. \A i, j \in 1 .. Len(down') : ~(i < j)
  BY <1>1
<1>4. \A i \in 1 .. Len(Coming') : Coming'[i].kind # "ack"
  BY DEF NoReply
<1>5. done' \in Nat /\ call' \in Nat
  BY DEF TypeOK
<1>6. CASE kind = "request"
  BY <1>2, <1>3, <1>4, <1>5, <1>6 DEF CallOrder
<1>7. CASE kind = "trim"
  BY <1>2, <1>3, <1>4, <1>5, <1>7 DEF CallOrder
<1> QED
  BY <1>6, <1>7

LEMMA CallsOpen ==
  ASSUME TypeOK, TypeOK', CallOrder, SendClosed
  PROVE  CallOrder'
<1>0. Len(down) \in Nat /\ Len(Coming) \in Nat /\ Len(Coming') \in Nat
  BY ComingLength, NextLength
<1>1. nonce \in Nat /\ call \in Nat /\ done \in Nat
  BY DEF TypeOK
<1>2. phase' = "ping" /\ Wrote("ping", nonce + 1)
  BY <1>1, ExchangeLemma DEF SendClosed
<1>3. call' = call + 1 /\ done' = done
  BY DEF SendClosed, firmware
<1>4. ASSUME NEW i \in 1 .. Len(down'), down'[i].kind = "request"
      PROVE  i \in 1 .. Len(down) /\ down'[i] = down[i]
  <2>1. CASE down' = down
    BY <1>4, <2>1
  <2>2. CASE down' # down
    BY <1>0, <1>2, <1>4, <2>2 DEF Wrote
  <2> QED
    BY <2>1, <2>2
<1>5. \A i \in 1 .. Len(down') : down'[i].kind = "request" =>
        down'[i].id \in Nat /\ done < down'[i].id /\ down'[i].id <= call
  BY <1>4, DownLength DEF CallOrder, Message
<1>6. \A i, j \in 1 .. Len(down') :
        down'[i].kind = "request" /\ down'[j].kind = "request" /\ i < j
          => down'[i].id < down'[j].id
  BY <1>4 DEF CallOrder
<1>7. done <= call
  BY DEF CallOrder
<1> QED
  BY <1>1, <1>2, <1>3, <1>5, <1>6, <1>7 DEF CallOrder

LEMMA CallsStep ==
  ASSUME TypeOK, TypeOK', Handshake, Fresh, CallOrder, [Next]_vars
  PROVE  CallOrder'
<1>. done \in Nat /\ call \in Nat /\ nonce \in Nat
  BY DEF TypeOK
<1>1. CASE Handle
  BY <1>1, CallsAnswer
<1>2. CASE SendClosed
  BY <1>2, CallsOpen
<1>3. CASE SendOpen
  <2>1. /\ Wrote("request", call + 1) /\ phase' = "request" /\ UNCHANGED <<tx, up>>
        /\ port /\ phase = "idle" /\ call' = call + 1 /\ done' = done
    BY <1>3, ExchangeLemma DEF SendOpen, firmware
  <2>2. Clear
    BY <2>1 DEF Fresh
  <2>3. Coming' = Coming
    BY <2>1, SameLemma
  <2>4. Len(down) = 0 /\ NoReply'
    BY <2>2, <2>3 DEF Clear, NoReply
  <2>5. done <= call
    BY DEF CallOrder
  <2> QED
    BY <2>1, <2>4, <2>5, CallsWrite
<1>4. CASE Read
  <2>1. Left(1) /\ port /\ call' = call /\ done' = done
    BY <1>4, ReadLemma DEF Handshake, Read, attempt, firmware
  <2>2. CASE phase' \in {phase, "idle"} /\ down' = down
    BY <2>1, <2>2, PassedLemma, CallsShrink
  <2>3. CASE /\ Coming[1].kind # "event" /\ (phase = "ping" => ValidPong(Coming[1]))
             /\ \/ Exchange("trim", nonce) /\ phase = "ping"
                \/ Exchange("request", call) /\ phase \in {"ping", "trim"}
                \/ Exchange("retrim", nonce) /\ phase = "request" /\ Coming[1].kind = "ack"
    <3>1. Len(down) = 0 /\ NoReply'
      BY <1>4, <2>1, <2>3, AfterReply
    <3>2. phase \in {"ping", "trim"} => done < call
      BY DEF CallOrder
    <3>3. CASE Exchange("trim", nonce) /\ phase = "ping"
      <4>1. Wrote("trim", nonce) /\ phase' = "trim"
        BY <3>3, ExchangeLemma
      <4> QED
        BY <2>1, <3>1, <3>2, <3>3, <4>1, CallsWrite
    <3>4. CASE Exchange("request", call) /\ phase \in {"ping", "trim"}
      <4>1. Wrote("request", call) /\ phase' = "request"
        BY <3>4, ExchangeLemma
      <4> QED
        BY <2>1, <3>1, <3>2, <3>4, <4>1, CallsWrite
    <3>5. CASE Exchange("retrim", nonce) /\ phase = "request" /\ Coming[1].kind = "ack"
      <4>1. Wrote("trim", nonce) /\ phase' = "retrim"
        BY <3>5, ExchangeLemma
      <4>2. 1 \in 1 .. Len(Coming)
        BY <1>4, ReadLemma, ComingLength
      <4>3. done = call
        BY <3>5, <4>2 DEF CallOrder
      <4> QED
        BY <2>1, <3>1, <4>1, <4>3, CallsWrite
    <3> QED
      BY <2>3, <3>3, <3>4, <3>5
  <2>4. \/ phase' \in {phase, "idle"} /\ down' = down
        \/ /\ Coming[1].kind # "event" /\ (phase = "ping" => ValidPong(Coming[1]))
           /\ \/ Exchange("trim", nonce) /\ phase = "ping"
              \/ Exchange("request", call) /\ phase \in {"ping", "trim"}
              \/ Exchange("retrim", nonce) /\ phase = "request" /\ Coming[1].kind = "ack"
    BY <1>4, ReadOutcome
  <2> QED
    BY <2>2, <2>3, <2>4
<1>5. CASE SendFails
  <2>1. Left(0) /\ Coming' = Coming
    BY <1>5, SameLemma DEF SendFails, firmware
  <2>2. /\ call' = call + 1 /\ done' = done /\ down' = down
        /\ phase' = "idle" /\ phase = "idle"
    BY <1>5 DEF SendFails, firmware, Return
  <2>3. \A i \in 1 .. Len(down) : down[i].id \in Nat
    BY DownLength DEF Message
  <2>4. done <= call /\ \A i \in 1 .. Len(down) :
          down[i].kind = "request" => done < down[i].id /\ down[i].id <= call
    BY DEF CallOrder
  <2> QED
    BY <2>2, <2>3, <2>4 DEF CallOrder
<1>6. CASE TransmitEvent
  <2>1. UNCHANGED <<phase, down, call, done>>
    BY <1>6 DEF TransmitEvent, host, progress, attempt
  <2>2. /\ Len(Coming') = Len(Coming) + 1 /\ Coming'[Len(Coming) + 1].kind = "event"
        /\ \A i \in 1 .. Len(Coming) : Coming'[i] = Coming[i]
    BY <1>6, GrowsLemma DEF Grows, TransmitEvent, TapEvent
  <2>3. \A i \in 1 .. Len(Coming') : i \in 1 .. Len(Coming) \/ i = Len(Coming) + 1
    BY <2>2, ComingLength
  <2>4. phase = "request" =>
          \A i \in 1 .. Len(Coming') : Coming'[i].kind = "ack" => done = call
    BY <2>2, <2>3 DEF CallOrder
  <2> QED
    BY <2>1, <2>4 DEF CallOrder
<1>7. CASE \/ Fail \/ Poll \/ Tick \/ Join \/ Transmit \/ Tap \/ Restart \/ Unplug
           \/ UNCHANGED vars
  <2>1. PICK l \in Nat : Left(l)
    BY <1>7, ShrinksLemma
  <2>2. PICK k \in Nat : Passed(k)
    <3>1. Join \/ Restart \/ Unplug \/ down' = down
      BY <1>7 DEF Fail, Poll, Tick, Transmit, Tap, vars
    <3> QED
      BY <3>1, PassedLemma
  <2>3. UNCHANGED <<call, done>> /\ phase' \in {phase, "idle"}
    BY <1>7 DEF Fail, Return, Poll, Tick, Join, Transmit, Tap, Restart, Unplug, vars,
                host, progress, attempt, firmware
  <2> QED
    BY <2>1, <2>2, <2>3, CallsShrink
<1> QED
  BY <1>1, <1>2, <1>3, <1>4, <1>5, <1>6, <1>7 DEF Next

\* Every step is one of a call as its caller sees it, or none.
LEMMA CallsRefined ==
  ASSUME TypeOK, TypeOK', Handshake, Fresh, CallOrder, [Next]_vars
  PROVE  [Calls!Next]_Calls!vars
<1>. done \in Nat /\ call \in Nat /\ nonce \in Nat
  BY DEF TypeOK
<1>1. CASE Handle
  <2>1. UNCHANGED <<phase, outcome, call>>
    BY <1>1 DEF Handle, host, progress, attempt
  <2>2. done' = done \/ done' \in done + 1 .. call
    BY <1>1, CallsAnswer
  <2> QED
    BY <2>1, <2>2 DEF Calls!Next, Calls!Execute, Calls!vars
<1>2. CASE SendOpen \/ SendClosed
  <2>1. /\ phase = "idle" /\ phase' # "idle" /\ call' = call + 1
        /\ UNCHANGED <<done, outcome>>
    BY <1>2 DEF SendOpen, SendClosed, Exchange, firmware
  <2> QED
    BY <2>1 DEF Calls!Next, Calls!Start
<1>3. CASE SendFails
  <2>1. /\ phase = "idle" /\ phase' = "idle" /\ call' = call + 1
        /\ done' = done /\ outcome' = "Err"
    BY <1>3 DEF SendFails, Return, firmware
  <2> QED
    BY <2>1 DEF Calls!Next, Calls!Refuse
<1>4. CASE Read
  <2>1. UNCHANGED <<done, call>> /\ phase # "idle"
    BY <1>4 DEF Read, attempt, firmware
  <2>2. CASE phase' # "idle"
    <3>1. outcome' = outcome
      BY <1>4, <2>2 DEF Read, progress, OnPing, OnTrim, OnRequest, OnRetrim, GiveUp, Return,
                        Exchange
    <3> QED
      BY <2>1, <2>2, <3>1 DEF Calls!vars
  <2>3. CASE phase' = "idle" /\ outcome' = "Err"
    BY <2>1, <2>3 DEF Calls!Next, Calls!Fail
  <2>4. CASE phase' = "idle" /\ outcome' # "Err"
    <3>1. done = call
      <4>1. Head(up) = Coming[1] /\ 1 \in 1 .. Len(Coming)
        BY <1>4, ReadLemma, ComingLength
      <4>2. \/ phase = "retrim"
            \/ phase = "request" /\ Coming[1].kind = "ack"
        BY <1>4, <2>1, <2>4, <4>1
           DEF Read, progress, OnPing, OnTrim, OnRequest, OnRetrim, GiveUp, Return, Exchange,
               Acked
      <4> QED
        BY <4>1, <4>2 DEF CallOrder
    <3> QED
      BY <2>1, <2>4, <3>1 DEF Calls!Next, Calls!Succeed
  <2> QED
    BY <2>2, <2>3, <2>4
<1>5. CASE Fail
  <2>1. /\ phase # "idle" /\ phase' = "idle" /\ UNCHANGED <<done, call>>
        /\ outcome' = IF phase = "retrim" THEN "Reset" ELSE "Err"
    BY <1>5 DEF Fail, Return, attempt, firmware
  <2>2. CASE phase = "retrim"
    <3>1. done = call
      BY <2>2 DEF CallOrder
    <3> QED
      BY <2>1, <2>2, <3>1 DEF Calls!Next, Calls!Succeed
  <2>3. CASE phase # "retrim"
    BY <2>1, <2>3 DEF Calls!Next, Calls!Fail
  <2> QED
    BY <2>2, <2>3
<1>6. CASE \/ Poll \/ Tick \/ Join \/ Transmit \/ TransmitEvent \/ Tap \/ Restart \/ Unplug
           \/ UNCHANGED vars
  <2>1. UNCHANGED <<phase, outcome, call, done>>
    BY <1>6 DEF Poll, Tick, Join, Transmit, TransmitEvent, Tap, Restart, Unplug, vars,
                host, progress, attempt, firmware
  <2> QED
    BY <2>1 DEF Calls!vars
<1> QED
  BY <1>1, <1>2, <1>3, <1>4, <1>5, <1>6 DEF Next

LEMMA CallsInvariant == Spec => []CallOrder
<1>1. Init => CallOrder
  <2> SUFFICES ASSUME Init PROVE CallOrder
    OBVIOUS
  <2>1. \A i \in 1 .. Len(down) : down[i].kind # "request"
    BY DEF Init
  <2> QED
    BY <2>1 DEF Init, CallOrder
<1>2. /\ TypeOK /\ TypeOK' /\ Handshake /\ Fresh /\ CallOrder /\ [Next]_vars
      => CallOrder'
  BY CallsStep
<1> QED
  BY <1>1, <1>2, TypeCorrect, Connection, PTL DEF Spec

\* A call of send succeeds only if the firmware has carried out that request, and
\* requests are carried out at most once and in the order of the calls, however
\* many frames, replies and runs of the firmware are lost in between: SerialDevice
\* implements OrderedCalls.
THEOREM CallsTheorem == Spec => CallsInOrder
<1>1. Init => Calls!Init
  BY DEF Init, Calls!Init
<1>2. TypeOK /\ TypeOK' /\ Handshake /\ Fresh /\ CallOrder /\ [Next]_vars
        => [Calls!Next]_Calls!vars
  BY CallsRefined
<1> QED
  BY <1>1, <1>2, TypeCorrect, Connection, CallsInvariant, PTL
     DEF Spec, CallsInOrder, Calls!Spec

-----------------------------------------------------------------------------
(* Restarts of the firmware.                                               *)

LEMMA EchoShrinks ==
  ASSUME TypeOK, TypeOK', Echo, NEW l \in Nat, Left(l), UNCHANGED <<epoch, seq, seen>>,
         port' /\ phase' # "ping" => port /\ phase # "ping"
  PROVE  Echo'
<1>0. Len(Coming) \in Nat /\ Len(Coming') \in Nat
  BY ComingLength, NextLength
<1>1. \A i \in 1 .. Len(Coming') :
        i + l \in 1 .. Len(Coming) /\ Coming'[i] = Coming[i + l]
  BY <1>0 DEF Left
<1> QED
  BY <1>1 DEF Echo

LEMMA EchoAnswers ==
  ASSUME TypeOK, TypeOK', Handshake, Fresh, Echo, Handle
  PROVE  /\ Echo'
         /\ UNCHANGED <<port, phase, delivery, lastSeq, seen, known, excuse, epoch>>
         /\ tx'.kind = "ack" => tx'.epoch = epoch /\ tx'.seq = seq' /\ seq' = Following(seq)
         /\ port /\ phase # "ping" =>
              /\ phase # "idle" /\ Len(down) > 0 /\ Len(down') = 0
              /\ \A i \in 1 .. Len(Coming') : Coming'[i].kind # "event" => Coming'[i] = tx'
<1>0. Len(down) \in Nat /\ Len(down') \in Nat /\ Len(Coming) \in Nat /\ epoch \in Nat
  BY ComingLength, NextLength DEF TypeOK
<1>1. Passed(1) /\ Len(down) >= 1
  BY TailLemma DEF Handle
<1>2. UNCHANGED <<port, phase, delivery, lastSeq, seen, known, excuse, epoch>>
  BY DEF Handle, host, link, progress, attempt, told
<1>3. /\ Len(Coming') = Len(Coming) + 1 /\ Coming'[Len(Coming) + 1] = tx'
      /\ \A i \in 1 .. Len(Coming) : Coming'[i] = Coming[i]
  BY GrowsLemma DEF Grows
<1>4. tx'.kind = "ack" => tx'.epoch = epoch /\ tx'.seq = seq' /\ seq' = Following(seq)
  BY DEF Handle, Pong, Ack, Rejected
<1>5. ASSUME port, phase # "ping"
      PROVE  /\ phase # "idle" /\ Len(down) > 0 /\ Len(down') = 0
             /\ \A i \in 1 .. Len(Coming') : Coming'[i].kind # "event" => Coming'[i] = tx'
  <2>1. phase # "idle" /\ OneUnderWay
    BY <1>0, <1>1, <1>5 DEF Fresh, Clear
  <2>2. Len(down) = 1 /\ NoReply /\ Len(down') = 0
    BY <1>0, <1>1, <2>1 DEF OneUnderWay, Passed
  <2>3. \A i \in 1 .. Len(Coming') : Coming'[i].kind # "event" => i = Len(Coming) + 1
    BY <1>0, <1>3, <2>2 DEF NoReply
  <2> QED
    BY <1>3, <2>1, <2>2, <2>3
<1>6. \A i \in 1 .. Len(Coming') : Coming'[i].kind = "ack" => Coming'[i].epoch <= epoch
  <2>1. \A i \in 1 .. Len(Coming') : i \in 1 .. Len(Coming) \/ i = Len(Coming) + 1
    BY <1>0, <1>3
  <2> QED
    BY <1>0, <1>3, <1>4, <2>1 DEF Echo
<1>7. ASSUME port, phase # "ping", NEW i \in 1 .. Len(Coming'), Coming'[i].kind = "ack"
      PROVE  Coming'[i].epoch = epoch /\ Coming'[i].seq = seq' /\ seen <= epoch
  BY <1>4, <1>5, <1>7 DEF Echo
<1> QED
  BY <1>2, <1>4, <1>5, <1>6, <1>7 DEF Echo

LEMMA EchoRestarts ==
  ASSUME TypeOK, TypeOK', Echo, Restart
  PROVE  Echo'
<1>0. Len(Coming) \in Nat /\ Len(Coming') \in Nat /\ epoch \in Nat /\ seen \in Nat
  BY ComingLength, NextLength DEF TypeOK
<1>1. PICK l \in Nat : Left(l)
  BY ShrinksLemma
<1>2. UNCHANGED <<port, phase, seen>> /\ epoch' = epoch + 1 /\ seq' = 0
  BY DEF Restart, host, link, progress
<1>3. \A i \in 1 .. Len(Coming') :
        /\ i + l \in 1 .. Len(Coming) /\ Coming'[i] = Coming[i + l]
        /\ Coming[i + l].kind = "ack" => Coming[i + l].epoch \in Nat
  BY <1>0, <1>1, ComingReply, ReplyFields DEF Left
<1>4. \A i \in 1 .. Len(Coming') : Coming'[i].kind = "ack" => Coming'[i].epoch < epoch'
  <2>1. \A i \in 1 .. Len(Coming') : Coming'[i].kind = "ack" =>
          Coming'[i].epoch \in Nat /\ Coming'[i].epoch <= epoch
    BY <1>3 DEF Echo
  <2> QED
    BY <1>0, <1>2, <2>1
<1>5. \A i \in 1 .. Len(Coming') : Coming'[i].kind = "ack" => Coming'[i].epoch <= epoch'
  BY <1>0, <1>2, <1>3, <1>4
<1>6. port /\ phase # "ping" =>
        \A i \in 1 .. Len(Coming') : Coming'[i].kind = "ack" => seen <= Coming'[i].epoch
  BY <1>3 DEF Echo
<1>7. seen <= epoch'
  BY <1>0, <1>2 DEF Echo
<1> QED
  BY <1>2, <1>4, <1>5, <1>6, <1>7 DEF Echo

LEMMA EchoStep ==
  ASSUME TypeOK, TypeOK', Handshake, Fresh, Echo, [Next]_vars
  PROVE  Echo'
<1>1. CASE Handle
  BY <1>1, EchoAnswers
<1>2. CASE Restart
  BY <1>2, EchoRestarts
<1>3. CASE Read
  <2>1. Left(1) /\ port /\ UNCHANGED <<epoch, seq>> /\ Head(up) = Coming[1]
        /\ Len(Coming) >= 1
    BY <1>3, ReadLemma DEF Handshake, Read, firmware
  <2>2. seen' = seen \/ (Coming[1].kind = "ack" /\ seen' = Coming[1].epoch)
    BY <1>3, <2>1
       DEF Read, link, OnPing, OnTrim, OnRequest, OnRetrim, GiveUp, Acked
  <2>3. CASE seen' = seen /\ (UNCHANGED <<port, phase>> \/ ~port')
    BY <2>1, <2>3, EchoShrinks
  <2>4. CASE Coming[1].kind # "event" /\ (phase = "ping" => ValidPong(Coming[1]))
    <3>1. NoReply'
      BY <1>3, <2>1, <2>4, AfterReply
    <3>2. 1 \in 1 .. Len(Coming)
      BY <2>1, ComingLength
    <3>3. seen' <= epoch
      BY <2>2, <3>2 DEF Echo
    <3> QED
      BY <2>1, <3>1, <3>3 DEF Echo, NoReply
  <2>5. CASE ~port' /\ Coming[1].kind # "event" /\ phase = "ping"
    <3>1. seen' = seen
      BY <1>3, <2>1, <2>5
         DEF Read, OnPing, OnTrim, OnRequest, OnRetrim, GiveUp, Exchange
    <3> QED
      BY <2>1, <2>5, <3>1, EchoShrinks
  <2>6. Coming[1].kind = "event" => seen' = seen /\ UNCHANGED <<port, phase>>
    BY <1>3, <2>1 DEF Read, link, progress
  <2> QED
    BY <1>3, <2>3, <2>4, <2>5, <2>6, ReadOutcome
<1>4. CASE SendClosed
  <2>1. PICK l \in Nat : Left(l)
    BY <1>4, ShrinksLemma
  <2>2. phase' = "ping" /\ UNCHANGED <<epoch, seq, seen>>
    BY <1>4 DEF SendClosed, Exchange, firmware
  <2> QED
    BY <2>1, <2>2, EchoShrinks
<1>5. CASE TransmitEvent
  <2>1. UNCHANGED <<port, phase, seen, epoch, seq>>
    BY <1>5 DEF TransmitEvent, host, link, progress
  <2>2. /\ Len(Coming') = Len(Coming) + 1 /\ Coming'[Len(Coming) + 1].kind = "event"
        /\ \A i \in 1 .. Len(Coming) : Coming'[i] = Coming[i]
    BY <1>5, GrowsLemma DEF Grows, TransmitEvent, TapEvent
  <2>3. \A i \in 1 .. Len(Coming') : i \in 1 .. Len(Coming) \/ i = Len(Coming) + 1
    BY <2>2, ComingLength
  <2> QED
    BY <2>1, <2>2, <2>3 DEF Echo
<1>6. CASE \/ SendOpen \/ SendFails \/ Fail \/ Poll \/ Tick \/ Join \/ Transmit \/ Tap
           \/ Unplug \/ UNCHANGED vars
  <2>1. PICK l \in Nat : Left(l)
    BY <1>6, ShrinksLemma
  <2>2. /\ UNCHANGED <<epoch, seq, seen>>
        /\ port' /\ phase' # "ping" => port /\ phase # "ping"
    BY <1>6 DEF SendOpen, SendFails, Fail, Return, Poll, Tick, Join, Transmit, Tap, Unplug,
                vars, host, link, progress, firmware
  <2> QED
    BY <2>1, <2>2, EchoShrinks
<1> QED
  BY <1>1, <1>2, <1>3, <1>4, <1>5, <1>6 DEF Next

LEMMA NoticedShrinks ==
  ASSUME TypeOK, TypeOK', Noticed, NEW k \in Nat, NEW l \in Nat, Passed(k), Left(l),
         UNCHANGED <<port, phase, delivery, lastSeq, seen, known, excuse>>,
         UNCHANGED <<epoch, seq>> \/ seq' = 0
  PROVE  Noticed'
<1>0. Len(down) \in Nat /\ Len(down') \in Nat /\ Len(Coming) \in Nat /\ Len(Coming') \in Nat
  BY ComingLength, NextLength
<1>1. \A i \in 1 .. Len(Coming') :
        i + l \in 1 .. Len(Coming) /\ Coming'[i] = Coming[i + l]
  BY <1>0 DEF Left
<1>2. Len(down') > 0 => Len(down) > 0
  BY <1>0 DEF Passed
<1>3. phase = "request" /\ delivery = "Delivered" /\ excuse = {} =>
        \A i \in 1 .. Len(Coming') :
          Coming'[i].kind = "ack" /\ Coming'[i].epoch # seen => Coming'[i].seq = 1
  BY <1>1 DEF Noticed
<1> QED
  BY <1>2, <1>3 DEF Noticed

\* The Ack that is read: its number and run are the firmware's, or the firmware has
\* restarted since.
LEMMA ReadAck ==
  ASSUME TypeOK, TypeOK', Handshake, Echo, Read, phase # "ping", Acked(Coming[1])
  PROVE  /\ lastSeq' \in Seqs /\ lastSeq' # None /\ seen <= seen' /\ seen' <= epoch
         /\ lastSeq' = Coming[1].seq /\ seen' = Coming[1].epoch
         /\ UNCHANGED <<epoch, seq>>
         /\ seen' # epoch => seq = 0
         /\ lastSeq' = seq \/ seen' < epoch
<1>1. 1 \in 1 .. Len(Coming) /\ port
  BY ReadLemma, ComingLength DEF Handshake, Read
<1>2. Coming[1].kind = "ack" /\ lastSeq' = Coming[1].seq /\ seen' = Coming[1].epoch
  BY DEF Acked
<1>3. lastSeq' \in Seqs /\ lastSeq' # None
  <2>1. lastSeq' \in Seqs
    BY <1>1, <1>2, ComingReply, ReplyFields
  <2> QED
    BY <2>1, LinkAssumption DEF Seqs
<1>4. UNCHANGED <<epoch, seq>>
  BY DEF Read, firmware
<1> QED
  BY <1>1, <1>2, <1>3, <1>4 DEF Echo

\* A first Ack with the number 1 is taken for a restart, or may be the wrap.
LEMMA FirstAck ==
  ASSUME lastSeq \in Seqs, ~Restarted(lastSeq, 1)
  PROVE  NearWrap(lastSeq, 1)
<1>1. lastSeq # None /\ lastSeq \in Nat
  BY LinkAssumption DEF Seqs
<1>2. CASE lastSeq = 0
  BY <1>1, <1>2 DEF NearWrap
<1>3. CASE lastSeq >= 1
  BY <1>1, <1>3 DEF NearWrap, Restarted
<1> QED
  BY <1>1, <1>2, <1>3

LEMMA NoticedRequest ==
  ASSUME TypeOK, TypeOK', Handshake, Fresh, Echo, Noticed, Read,
         OnRequest(Coming[1]), Coming[1].kind # "event"
  PROVE  Noticed'
<1> DEFINE r == Coming[1]
<1>1. phase = "request" /\ port /\ UNCHANGED <<port, delivery, epoch, seq>>
  BY DEF OnRequest, Handshake, Read, attempt, firmware
<1>2. Len(down) = 0 /\ NoReply'
  BY <1>1, AfterReply
<1>3. 1 \in 1 .. Len(Coming)
  BY ReadLemma, ComingLength
<1>4. phase' \in {"retrim", "idle"}
  BY DEF OnRequest, Exchange, Return
<1>5. CASE r.kind # "ack"
  <2>1. excuse' # {} /\ phase' = "idle"
    BY <1>5 DEF OnRequest, Acked, Return
  <2> QED
    BY <2>1 DEF Noticed
<1>6. CASE Acked(r) /\ TellReset(r)
  <2>1. known' = seen'
    BY <1>6 DEF TellReset, Acked
  <2> QED
    BY <1>1, <1>4, <1>6, <2>1, ReadAck DEF Noticed
<1>7. CASE /\ Acked(r) /\ ~Restarted(lastSeq, r.seq) /\ delivery = "Delivered" /\ phase' = "idle"
           /\ excuse' = IF r.epoch # seen /\ NearWrap(lastSeq, r.seq)
                        THEN excuse \cup {"wrap"} ELSE excuse
           /\ known' = IF known = 0 THEN r.epoch ELSE known
  <2> SUFFICES ASSUME excuse' = {}
               PROVE  lastSeq' # None /\ seen' = known' /\ (epoch' # seen' => seq' = 0)
    BY <1>7 DEF Noticed
  <2>1. excuse = {} /\ ~(r.epoch # seen /\ NearWrap(lastSeq, r.seq))
    BY <1>7
  <2>2. lastSeq # None /\ seen = known /\ (r.epoch # seen => r.seq = 1)
    BY <1>1, <1>3, <1>7, <2>1 DEF Noticed, Acked
  <2>3. r.epoch = seen
    <3>1. lastSeq \in Seqs
      BY <2>2 DEF TypeOK
    <3> QED
      BY <1>7, <2>1, <2>2, <3>1, FirstAck
  <2>4. seen' = known'
    BY <1>7, <2>2, <2>3 DEF Acked
  <2> QED
    BY <1>1, <1>7, <2>4, ReadAck
<1>8. delivery \in {"Delivered", "Reset"}
  BY DEF TypeOK
<1>9. \/ r.kind # "ack"
      \/ Acked(r) /\ TellReset(r)
      \/ /\ Acked(r) /\ ~Restarted(lastSeq, r.seq) /\ delivery # "Reset" /\ phase' = "idle"
         /\ excuse' = IF r.epoch # seen /\ NearWrap(lastSeq, r.seq)
                      THEN excuse \cup {"wrap"} ELSE excuse
         /\ known' = IF known = 0 THEN r.epoch ELSE known
  BY DEF OnRequest, Return
<1> QED
  BY <1>5, <1>6, <1>7, <1>8, <1>9

LEMMA NoticedStep ==
  ASSUME TypeOK, TypeOK', Handshake, Fresh, Echo, Noticed, [Next]_vars
  PROVE  Noticed'
<1>. call \in Nat /\ nonce \in Nat /\ Reconnect \in Nat
  BY LinkAssumption DEF TypeOK
<1>1. CASE Handle
  <2>1. /\ UNCHANGED <<port, phase, delivery, lastSeq, seen, known, excuse, epoch>>
        /\ tx'.kind = "ack" => tx'.epoch = epoch /\ tx'.seq = seq' /\ seq' = Following(seq)
        /\ port /\ phase # "ping" =>
              /\ phase # "idle" /\ Len(down) > 0 /\ Len(down') = 0
              /\ \A i \in 1 .. Len(Coming') : Coming'[i].kind # "event" => Coming'[i] = tx'
    BY <1>1, EchoAnswers
  <2>2. ASSUME phase = "request", delivery = "Delivered", excuse = {},
               NEW i \in 1 .. Len(Coming'), Coming'[i].kind = "ack", Coming'[i].epoch # seen
        PROVE  Coming'[i].seq = 1
    <3>1. Coming'[i] = tx' /\ Len(down) > 0
      BY <2>1, <2>2 DEF Handshake
    <3>2. tx'.epoch = epoch /\ tx'.seq = Following(seq)
      BY <2>1, <2>2, <3>1
    <3>3. seq = 0
      BY <2>2, <3>1, <3>2 DEF Noticed
    <3>4. Following(0) = 1
      BY FollowingLemma, LinkAssumption DEF Seqs
    <3> QED
      BY <3>1, <3>2, <3>3, <3>4
  <2>3. port /\ phase # "ping" => phase # "idle" /\ Len(down') = 0
    BY <2>1
  <2>4. phase = "request" => Len(down') = 0
    BY <2>3 DEF Handshake
  <2> QED
    BY <2>1, <2>2, <2>3, <2>4 DEF Noticed
<1>2. CASE Read
  <2>1. /\ Head(up) = Coming[1] /\ Left(1) /\ port
        /\ UNCHANGED <<delivery, epoch, seq>>
    BY <1>2, ReadLemma DEF Handshake, Read, attempt, firmware
  <2>2. CASE Coming[1].kind = "event"
    <3>1. UNCHANGED <<port, phase, lastSeq, seen, known, excuse, down>>
      BY <1>2, <2>1, <2>2 DEF Read, link, progress, told
    <3> QED
      BY <2>1, <3>1, PassedLemma, NoticedShrinks
  <2>3. CASE Coming[1].kind # "event" /\ (OnPing(Coming[1]) \/ OnTrim(Coming[1]))
    <3>1. phase \in {"ping", "trim"} /\ delivery = "Reset"
      BY <2>3 DEF OnPing, OnTrim, Noticed
    <3>2. (~port' /\ phase' = "idle") \/ phase' \in {"trim", "request"}
      BY <2>3 DEF OnPing, OnTrim, GiveUp, Return, Exchange
    <3> QED
      BY <2>1, <3>1, <3>2 DEF Noticed
  <2>4. CASE Coming[1].kind # "event" /\ OnRequest(Coming[1])
    BY <1>2, <2>4, NoticedRequest
  <2>5. CASE Coming[1].kind # "event" /\ OnRetrim(Coming[1])
    <3>1. phase = "retrim" /\ phase' = "idle"
      BY <2>5 DEF OnRetrim, Return
    <3>2. CASE ~port'
      BY <3>1, <3>2 DEF Noticed
    <3>3. CASE /\ Acked(Coming[1]) /\ known' = known
               /\ excuse' = IF Coming[1].epoch # known THEN excuse \cup {"retrim"} ELSE excuse
      <4>1. excuse' = {} => seen' = known'
        BY <3>3 DEF Acked
      <4> QED
        BY <1>2, <2>1, <3>1, <3>3, <4>1, ReadAck DEF Noticed
    <3> QED
      BY <2>5, <3>2, <3>3 DEF OnRetrim
  <2> QED
    BY <1>2, <2>1, <2>2, <2>3, <2>4, <2>5 DEF Read
<1>3. CASE SendOpen
  <2>1. /\ phase' = "request" /\ port /\ phase = "idle"
        /\ UNCHANGED <<tx, up, lastSeq, seen, known, excuse, epoch, seq>>
    BY <1>3 DEF SendOpen, Exchange, link, told, firmware
  <2>2. NoReply
    BY <2>1 DEF Fresh, Clear
  <2>3. Coming' = Coming
    BY <2>1, SameLemma
  <2>4. \A i \in 1 .. Len(Coming') : Coming'[i].kind # "ack"
    BY <2>2, <2>3 DEF NoReply
  <2> QED
    BY <2>1, <2>4 DEF Noticed
<1>4. CASE SendClosed
  BY <1>4 DEF SendClosed, Exchange, Noticed
<1>5. CASE SendFails
  <2>1. ~port' /\ phase' = "idle"
    BY <1>5 DEF SendFails, Return
  <2> QED
    BY <2>1 DEF Noticed
<1>6. CASE Fail
  <2>1. ~port' /\ phase' = "idle"
    BY <1>6 DEF Fail, Return
  <2> QED
    BY <2>1 DEF Noticed
<1>7. CASE TransmitEvent
  <2>1. UNCHANGED <<port, phase, delivery, lastSeq, seen, known, excuse, epoch, seq, down>>
    BY <1>7 DEF TransmitEvent, host, link, progress, attempt, told
  <2>2. /\ Len(Coming') = Len(Coming) + 1 /\ Coming'[Len(Coming) + 1].kind = "event"
        /\ \A i \in 1 .. Len(Coming) : Coming'[i] = Coming[i]
    BY <1>7, GrowsLemma DEF Grows, TransmitEvent, TapEvent
  <2>3. \A i \in 1 .. Len(Coming') : i \in 1 .. Len(Coming) \/ i = Len(Coming) + 1
    BY <2>2, ComingLength
  <2>4. phase = "request" /\ delivery = "Delivered" /\ excuse = {} =>
          \A i \in 1 .. Len(Coming') :
            Coming'[i].kind = "ack" /\ Coming'[i].epoch # seen => Coming'[i].seq = 1
    BY <2>2, <2>3 DEF Noticed
  <2> QED
    BY <2>1, <2>4 DEF Noticed
<1>8. CASE \/ Poll \/ Tick \/ Join \/ Transmit \/ Tap \/ Restart \/ Unplug \/ UNCHANGED vars
  <2>1. PICK l \in Nat : Left(l)
    BY <1>8, ShrinksLemma
  <2>2. PICK k \in Nat : Passed(k)
    <3>1. Join \/ Restart \/ Unplug \/ down' = down
      BY <1>8 DEF Poll, Tick, Transmit, Tap, vars
    <3> QED
      BY <3>1, PassedLemma
  <2>3. /\ UNCHANGED <<port, phase, delivery, lastSeq, seen, known, excuse>>
        /\ UNCHANGED <<epoch, seq>> \/ seq' = 0
    BY <1>8 DEF Poll, Tick, Join, Transmit, Tap, Restart, Unplug, vars,
                host, link, progress, attempt, told, firmware
  <2> QED
    BY <2>1, <2>2, <2>3, NoticedShrinks
<1> QED
  BY <1>1, <1>2, <1>3, <1>4, <1>5, <1>6, <1>7, <1>8 DEF Next

LEMMA Restarts == Spec => [](Echo /\ Noticed)
<1>1. Init => Echo /\ Noticed
  <2> SUFFICES ASSUME Init PROVE Echo /\ Noticed
    OBVIOUS
  <2>1. \A i \in 1 .. Len(Coming) : Coming[i].kind = "ack" => Coming[i].epoch = 1
    BY DEF Init, Coming, Ack
  <2> QED
    BY <2>1 DEF Init, Echo, Noticed
<1>2. /\ TypeOK /\ TypeOK' /\ Handshake /\ Fresh /\ Echo /\ Noticed /\ [Next]_vars
      => Echo' /\ Noticed'
  BY EchoStep, NoticedStep
<1> QED
  BY <1>1, <1>2, TypeCorrect, Connection, PTL DEF Spec

\* All that was delivered since the daemon was last told to start over has reached
\* the same run of the firmware, but for the cases that `excuse` names, whatever
\* the width of the sequence number and the window (restarted, send and acked).
THEOREM RestartsTheorem == Spec => []RestartsNoticed
<1>1. Handshake /\ Noticed => RestartsNoticed
  BY DEF Handshake, Noticed, RestartsNoticed
<1> QED
  BY <1>1, Connection, Restarts, PTL

-----------------------------------------------------------------------------
(* A restart that is reported.                                             *)

\* How far ahead is a number of those that are counted around.
LEMMA AheadLemma ==
  ASSUME lastSeq \in Seqs, NEW s \in Seqs
  PROVE  /\ Ahead(s) \in 0 .. SeqMod - 1
         /\ Ahead(s) = 0 <=> s = lastSeq
         /\ Ahead(s) < SeqMod - 1 => Ahead(Following(s)) = Ahead(s) + 1
<1>1. /\ lastSeq \in Nat /\ lastSeq <= SeqMod - 1 /\ s \in Nat /\ s <= SeqMod - 1
      /\ SeqMod \in Nat /\ SeqMod >= 2
  BY LinkAssumption DEF Seqs
<1>2. Following(s) = IF s = SeqMod - 1 THEN 0 ELSE s + 1
  BY FollowingLemma
<1> QED
  BY <1>1, <1>2 DEF Ahead

\* What is read, lost or restarted does not bring the firmware ahead.
LEMMA AheadShrinks ==
  ASSUME TypeOK, TypeOK', Echo, NotFarAhead, NEW l \in Nat, Left(l),
         Len(down') > 0 => Len(down) > 0,
         UNCHANGED <<port, phase, lastSeq, seen, rejected>>,
         UNCHANGED <<epoch, seq>> \/ epoch' = epoch + 1
  PROVE  NotFarAhead'
<1>1. /\ Len(Coming) \in Nat /\ Len(Coming') \in Nat /\ epoch \in Nat /\ seen \in Nat
      /\ seen <= epoch
  BY ComingLength, NextLength DEF TypeOK, Echo
<1>2. \A i \in 1 .. Len(Coming') :
        i + l \in 1 .. Len(Coming) /\ Coming'[i] = Coming[i + l]
  BY <1>1 DEF Left
<1>3. Unanswered' => Unanswered
  BY <1>2 DEF Unanswered
<1>4. seen' = epoch' => seen = epoch /\ seq' = seq
  BY <1>1
<1>5. ASSUME rejected < SeqWindow, lastSeq # None, phase = "request",
             NEW i \in 1 .. Len(Coming'), Coming'[i].kind = "ack", Coming'[i].epoch = seen
      PROVE  Ahead(Coming'[i].seq) \in 1 .. rejected + 1
  BY <1>2, <1>5 DEF NotFarAhead
<1>6. ASSUME rejected < SeqWindow, lastSeq # None, phase = "request",
             seen' = epoch', Unanswered'
      PROVE  Ahead(seq') <= rejected
  BY <1>3, <1>4, <1>6 DEF NotFarAhead
<1>7. ASSUME rejected < SeqWindow, lastSeq # None, port, phase = "idle", seen' = epoch'
      PROVE  Ahead(seq') <= rejected
  BY <1>4, <1>7 DEF NotFarAhead
<1> QED
  BY <1>5, <1>6, <1>7 DEF NotFarAhead, Ahead

\* A request that is carried out brings the firmware one ahead: either its Ack is on
\* its way, or it is counted as rejected.
LEMMA AheadAnswers ==
  ASSUME TypeOK, TypeOK', Handshake, Fresh, Echo, NotFarAhead, Handle
  PROVE  NotFarAhead'
<1>1. /\ SeqWindow \in Nat /\ SeqMod \in Nat /\ SeqWindow <= SeqMod - 1
      /\ seq \in Seqs /\ seq' \in Seqs /\ rejected \in Nat /\ rejected' \in Nat
  BY LinkAssumption DEF TypeOK
<1>2. \/ seq' = seq /\ rejected' = rejected /\ tx'.kind # "ack"
      \/ seq' = Following(seq) /\ rejected' = rejected /\ tx'.kind = "ack"
      \/ seq' = Following(seq) /\ rejected' = rejected + 1 /\ tx'.kind # "ack"
  BY DEF Handle, Ack, Rejected, Pong
<1>3. /\ UNCHANGED <<port, phase, delivery, lastSeq, seen, known, excuse, epoch>>
      /\ tx'.kind = "ack" => tx'.epoch = epoch /\ tx'.seq = seq' /\ seq' = Following(seq)
      /\ port /\ phase # "ping" =>
            /\ phase # "idle" /\ Len(down) > 0 /\ Len(down') = 0
            /\ \A i \in 1 .. Len(Coming') : Coming'[i].kind # "event" => Coming'[i] = tx'
  BY EchoAnswers
<1>4. rejected' < SeqWindow => rejected < SeqWindow
  BY <1>1, <1>2
<1>5. ASSUME rejected < SeqWindow, phase = "request", lastSeq # None, seen = epoch
      PROVE  Ahead(seq) \in Nat /\ Ahead(seq) <= rejected
             /\ Ahead(Following(seq)) = Ahead(seq) + 1
  <2>1. port /\ Len(down) > 0
    BY <1>3, <1>5 DEF Handshake
  <2>2. Ahead(seq) <= rejected
    BY <1>5, <2>1 DEF NotFarAhead, Unanswered
  <2>3. Ahead(seq) \in 0 .. SeqMod - 1
    BY <1>1, <1>5, AheadLemma DEF TypeOK
  <2>4. Ahead(seq) < SeqMod - 1
    BY <1>1, <1>5, <2>2, <2>3
  <2>5. Ahead(Following(seq)) = Ahead(seq) + 1
    BY <1>1, <1>5, <2>4, AheadLemma DEF TypeOK
  <2> QED
    BY <1>1, <2>2, <2>3, <2>5
<1>6. ASSUME rejected' < SeqWindow, phase = "request", lastSeq # None, seen = epoch,
             tx'.kind # "ack"
      PROVE  Ahead(seq') <= rejected'
  <2>1. CASE seq' = seq /\ rejected' = rejected
    BY <1>4, <1>5, <1>6, <2>1
  <2>2. CASE seq' = Following(seq) /\ rejected' = rejected + 1
    BY <1>1, <1>4, <1>5, <1>6, <2>2
  <2> QED
    BY <1>2, <1>6, <2>1, <2>2
<1>7. ASSUME rejected' < SeqWindow, phase = "request", lastSeq # None, seen = epoch,
             tx'.kind = "ack"
      PROVE  Ahead(tx'.seq) \in 1 .. rejected' + 1
  <2>1. rejected' = rejected /\ tx'.seq = Following(seq)
    BY <1>2, <1>3, <1>7
  <2> QED
    BY <1>1, <1>4, <1>5, <1>7, <2>1
<1>8. ASSUME rejected' < SeqWindow, phase = "request", lastSeq # None
      PROVE  /\ seen = epoch /\ Unanswered' => Ahead(seq') <= rejected'
             /\ \A i \in 1 .. Len(Coming') :
                  Coming'[i].kind = "ack" /\ Coming'[i].epoch = seen =>
                    Ahead(Coming'[i].seq) \in 1 .. rejected' + 1
  <2>1. port
    BY <1>8 DEF Handshake
  <2>2. /\ Len(down') = 0
        /\ \A i \in 1 .. Len(Coming') : Coming'[i].kind # "event" => Coming'[i] = tx'
    BY <1>3, <1>8, <2>1
  <2>3. Unanswered' => tx'.kind # "ack"
    BY <2>2 DEF Unanswered
  <2>4. seen = epoch /\ Unanswered' => Ahead(seq') <= rejected'
    BY <1>6, <1>8, <2>3
  <2>5. ASSUME NEW i \in 1 .. Len(Coming'), Coming'[i].kind = "ack", Coming'[i].epoch = seen
        PROVE  Ahead(Coming'[i].seq) \in 1 .. rejected' + 1
    <3>1. Coming'[i] = tx'
      BY <2>2, <2>5
    <3>2. tx'.kind = "ack" /\ seen = epoch
      BY <1>3, <2>5, <3>1
    <3>3. Ahead(tx'.seq) \in 1 .. rejected' + 1
      BY <1>7, <1>8, <3>2
    <3> QED
      BY <3>1, <3>3
  <2> QED
    BY <2>4, <2>5
<1>9. port => phase # "idle"
  BY <1>3
<1> QED
  BY <1>3, <1>8, <1>9 DEF NotFarAhead, Ahead

\* An Ack that is read brings the host up to the firmware, if that still runs; after
\* any other answer the count of what was rejected goes on.
LEMMA AheadReads ==
  ASSUME TypeOK, TypeOK', Handshake, Fresh, Echo, NotFarAhead, Read
  PROVE  NotFarAhead'
<1>1. /\ call \in Nat /\ nonce \in Nat /\ seq \in Seqs /\ rejected \in Nat
      /\ rejected' \in Nat
  BY DEF TypeOK
<1>2. /\ Head(up) = Coming[1] /\ Left(1) /\ port
      /\ UNCHANGED <<epoch, seq>> /\ 1 \in 1 .. Len(Coming)
  BY ReadLemma, ComingLength DEF Handshake, Read
<1>3. ASSUME Acked(Coming[1]), phase # "ping", seen' = epoch
      PROVE  Ahead(seq)' = 0
  <2>1. lastSeq' = seq /\ seq' = seq
    <3>1. lastSeq' = seq \/ seen' < epoch
      BY <1>2, <1>3, ReadAck
    <3> QED
      BY <1>2, <1>3, <3>1 DEF TypeOK
  <2> QED
    BY <1>1, <2>1, LinkAssumption DEF Ahead, Seqs
<1>4. CASE Coming[1].kind = "event"
  <2>1. UNCHANGED <<port, phase, lastSeq, seen, down>>
    BY <1>2, <1>4 DEF Read, link, progress
  <2>2. rejected' = rejected
    BY <1>2, <1>4 DEF Read, Awaited, ValidPong
  <2> QED
    BY <1>2, <2>1, <2>2, AheadShrinks
<1>5. CASE Coming[1].kind # "event" /\ OnPing(Coming[1])
  <2>1. \/ ~port' /\ phase' = "idle"
        \/ phase' = "trim"
        \/ phase' = "request" /\ lastSeq' = None
    BY <1>5 DEF OnPing, GiveUp, Return, Exchange
  <2> QED
    BY <2>1 DEF NotFarAhead
<1>6. CASE Coming[1].kind # "event" /\ OnTrim(Coming[1])
  <2>1. CASE ~port' /\ phase' = "idle"
    BY <2>1 DEF NotFarAhead
  <2>2. CASE Acked(Coming[1]) /\ phase' = "request"
    <3>1. phase = "trim"
      BY <1>6 DEF OnTrim
    <3>2. NoReply'
      BY <1>2, <1>6, <3>1, AfterReply
    <3>3. seen' = epoch' => Ahead(seq)' <= rejected'
      BY <1>1, <1>2, <1>3, <2>2, <3>1
    <3> QED
      BY <2>2, <3>2, <3>3 DEF NotFarAhead, NoReply
  <2> QED
    BY <1>6, <2>1, <2>2 DEF OnTrim, GiveUp, Return, Exchange
<1>7. CASE Coming[1].kind # "event" /\ (OnRequest(Coming[1]) \/ OnRetrim(Coming[1]))
  <2>1. phase \in {"request", "retrim"} /\ phase' \in {"idle", "retrim"}
    BY <1>7 DEF OnRequest, OnRetrim, Return, Exchange
  <2>2. CASE Acked(Coming[1])
    <3>1. seen' = epoch' => Ahead(seq)' <= rejected'
      BY <1>1, <1>2, <1>3, <2>1, <2>2
    <3> QED
      BY <2>1, <3>1 DEF NotFarAhead
  <2>3. CASE Coming[1].kind # "ack" /\ phase = "request"
    <3>1. UNCHANGED <<lastSeq, seen>> /\ phase' = "idle"
      BY <1>7, <2>3 DEF OnRequest, OnRetrim, Acked, Return
    <3>2. rejected' = rejected
      BY <1>2, <2>3 DEF Read, Awaited
    <3>3. Unanswered
      BY <1>2, <1>7, <2>3 DEF Unanswered
    <3>4. rejected < SeqWindow /\ lastSeq # None /\ seen = epoch => Ahead(seq) <= rejected
      BY <2>3, <3>3 DEF NotFarAhead
    <3> QED
      BY <1>2, <3>1, <3>2, <3>4 DEF NotFarAhead, Ahead
  <2>4. CASE Coming[1].kind # "ack" /\ phase = "retrim"
    <3>1. ~port' /\ phase' = "idle"
      BY <1>7, <2>4 DEF OnRequest, OnRetrim, Acked, Return
    <3> QED
      BY <3>1 DEF NotFarAhead
  <2> QED
    BY <1>7, <2>1, <2>2, <2>3, <2>4 DEF OnRequest, OnRetrim
<1> QED
  BY <1>2, <1>4, <1>5, <1>6, <1>7 DEF Read

LEMMA AheadStep ==
  ASSUME TypeOK, TypeOK', Handshake, Fresh, Echo, NotFarAhead, [Next]_vars
  PROVE  NotFarAhead'
<1>1. CASE Handle
  BY <1>1, AheadAnswers
<1>2. CASE Read
  BY <1>2, AheadReads
<1>3. CASE SendOpen
  <2>1. /\ phase' = "request" /\ port /\ phase = "idle"
        /\ UNCHANGED <<tx, up, port, lastSeq, seen, epoch, seq, rejected>>
    BY <1>3 DEF SendOpen, Exchange, link, firmware
  <2>2. NoReply /\ Coming' = Coming
    BY <2>1, SameLemma DEF Fresh, Clear
  <2>3. rejected < SeqWindow /\ lastSeq # None /\ seen = epoch => Ahead(seq) <= rejected
    BY <2>1 DEF NotFarAhead
  <2> QED
    BY <2>1, <2>2, <2>3 DEF NotFarAhead, Ahead, NoReply
<1>4. CASE SendClosed
  <2>1. phase' = "ping"
    BY <1>4 DEF SendClosed, Exchange
  <2> QED
    BY <2>1 DEF NotFarAhead
<1>5. CASE SendFails \/ Fail
  <2>1. ~port' /\ phase' = "idle"
    BY <1>5 DEF SendFails, Fail, Return
  <2> QED
    BY <2>1 DEF NotFarAhead
<1>6. CASE Poll
  <2>1. phase' = "idle" /\ UNCHANGED <<port, phase, lastSeq, seen, epoch, seq, rejected>>
    BY <1>6 DEF Poll, link, progress, firmware
  <2> QED
    BY <2>1 DEF NotFarAhead, Ahead
<1>7. CASE TransmitEvent
  <2>1. UNCHANGED <<port, phase, lastSeq, seen, epoch, seq, rejected, down>>
    BY <1>7 DEF TransmitEvent, host, link, progress
  <2>2. /\ Len(Coming') = Len(Coming) + 1 /\ Coming'[Len(Coming) + 1].kind = "event"
        /\ \A i \in 1 .. Len(Coming) : Coming'[i] = Coming[i]
    BY <1>7, GrowsLemma DEF Grows, TransmitEvent, TapEvent
  <2>3. \A i \in 1 .. Len(Coming') : i \in 1 .. Len(Coming) \/ i = Len(Coming) + 1
    BY <2>2, ComingLength
  <2>4. Unanswered' => Unanswered
    BY <2>1, <2>2, <2>3 DEF Unanswered
  <2>5. ASSUME rejected < SeqWindow, phase = "request", lastSeq # None
        PROVE  \A i \in 1 .. Len(Coming') :
                 Coming'[i].kind = "ack" /\ Coming'[i].epoch = seen =>
                   Ahead(Coming'[i].seq) \in 1 .. rejected + 1
    BY <2>2, <2>3, <2>5 DEF NotFarAhead
  <2> QED
    BY <2>1, <2>4, <2>5 DEF NotFarAhead, Ahead
<1>8. CASE Restart \/ Unplug \/ Transmit \/ Tick \/ Join \/ Tap \/ UNCHANGED vars
  <2>1. PICK l \in Nat : Left(l)
    BY <1>8, ShrinksLemma
  <2>2. /\ UNCHANGED <<port, phase, lastSeq, seen, rejected>>
        /\ UNCHANGED <<epoch, seq>> \/ epoch' = epoch + 1
    BY <1>8 DEF Restart, Unplug, Transmit, Tick, Join, Tap, vars, host, link, progress,
                firmware
  <2>3. Len(down') > 0 => Len(down) > 0
    <3>1. down = <<>> => down' = <<>>
      BY <1>8 DEF Restart, Unplug, Transmit, Tick, Join, Tap, vars
    <3>2. Len(down) \in Nat /\ (Len(down) = 0 => down = <<>>)
      BY ComingLength DEF TypeOK
    <3> QED
      BY <3>1, <3>2
  <2> QED
    BY <2>1, <2>2, <2>3, AheadShrinks
<1> QED
  BY <1>1, <1>2, <1>3, <1>4, <1>5, <1>6, <1>7, <1>8 DEF Next

LEMMA AheadInvariant == Spec => []NotFarAhead
<1>1. Init => NotFarAhead
  BY DEF Init, NotFarAhead
<1>2. /\ TypeOK /\ TypeOK' /\ Handshake /\ Fresh /\ Echo /\ NotFarAhead /\ [Next]_vars
      => NotFarAhead'
  BY AheadStep
<1> QED
  BY <1>1, <1>2, TypeCorrect, Connection, Restarts, PTL DEF Spec

\* The daemon is told of a restart only if the firmware has restarted, also where
\* the number wraps around and however long it runs, whatever the width of the
\* number and the window: unless, since the host last had the answer it waited for,
\* as many requests as the window is wide were rejected though carried out
\* (restarted).
THEOREM RestartIsRealTheorem == Spec => RestartIsReal
<1> DEFINE Reported == phase = "request" /\ delivery = "Delivered" /\ rejected < SeqWindow
                         /\ (phase' = "retrim" \/ (phase' = "idle" /\ outcome' = "Reset"))
<1>1. ASSUME TypeOK, TypeOK', Handshake, Echo, NotFarAhead, Next, Reported
      PROVE  seen' > seen
  <2>1. Read
    <3>1. CASE Fail
      BY <1>1, <3>1 DEF Fail, Return
    <3>2. CASE SendOpen \/ SendClosed \/ SendFails \/ Poll
      BY <1>1, <3>2 DEF SendOpen, SendClosed, SendFails, Poll
    <3>3. CASE \/ Tick \/ Handle \/ Join \/ Transmit \/ TransmitEvent \/ Tap \/ Restart
               \/ Unplug
      <4>1. phase' = phase
        BY <3>3 DEF Tick, Handle, Join, Transmit, TransmitEvent, Tap, Restart, Unplug,
                    host, progress
      <4> QED
        BY <1>1, <4>1
    <3> QED
      BY <1>1, <3>1, <3>2, <3>3 DEF Next
  <2>2. /\ Head(up) = Coming[1] /\ 1 \in 1 .. Len(Coming) /\ Coming[1] \in Reply
        /\ Coming[1].kind = "ack" => Coming[1].seq \in Seqs
    BY <1>1, <2>1, ReadLemma, ComingLength, ReplyFields
  <2>3. Acked(Coming[1]) /\ Restarted(lastSeq, Coming[1].seq)
    <3>1. Coming[1].kind # "event" /\ OnRequest(Coming[1])
      BY <1>1, <2>1, <2>2 DEF Read, progress, OnPing, OnTrim, OnRequest, OnRetrim
    <3> QED
      BY <1>1, <3>1 DEF OnRequest, Return, Exchange
  <2>4. /\ lastSeq \in Seqs /\ lastSeq # None /\ Coming[1].seq <= lastSeq
        /\ ~(lastSeq > SeqMod - 1 - SeqWindow /\ Coming[1].seq < SeqWindow)
    BY <1>1, <2>3 DEF TypeOK, Restarted
  <2>5. seen <= seen' /\ seen' = Coming[1].epoch /\ seen \in Nat /\ seen' \in Nat
    <3>1. phase # "ping" /\ seen \in Nat /\ seen' \in Nat
      BY <1>1 DEF TypeOK
    <3> QED
      BY <1>1, <2>1, <2>3, <3>1, ReadAck
  <2>6. ASSUME Coming[1].epoch = seen PROVE FALSE
    <3>1. Ahead(Coming[1].seq) \in 1 .. rejected + 1
      BY <1>1, <2>2, <2>3, <2>4, <2>6 DEF NotFarAhead, Acked
    <3>2. rejected \in Nat /\ rejected < SeqWindow
      BY <1>1 DEF TypeOK
    <3> QED
      BY <2>2, <2>3, <2>4, <3>1, <3>2, LinkAssumption DEF Ahead, Seqs, Acked
  <2> QED
    BY <2>5, <2>6
<1>2. TypeOK /\ TypeOK' /\ Handshake /\ Echo /\ NotFarAhead /\ [Next]_vars
        => [Reported => seen' > seen]_vars
  BY <1>1
<1> QED
  BY <1>2, TypeCorrect, Connection, Restarts, AheadInvariant, PTL DEF Spec, RestartIsReal

-----------------------------------------------------------------------------
(* The order of events.                                                    *)

IsTap(i) == i \in 1 .. Len(Coming) /\ Coming[i].kind = "event"

\* EventsInOrder, by the places in the queues.
Ordered ==
  /\ \A i, j \in 1 .. Len(events) : i < j => events[i] < events[j]
  /\ \A i, j \in 1 .. Len(Coming) :
       IsTap(i) /\ IsTap(j) /\ i < j => Coming[i].id < Coming[j].id
  /\ \A i \in 1 .. Len(events) : polled < events[i]
  /\ \A j \in 1 .. Len(Coming) : IsTap(j) => polled < Coming[j].id
  /\ \A i \in 1 .. Len(events), j \in 1 .. Len(Coming) :
       IsTap(j) => events[i] < Coming[j].id
  /\ tapped # None =>
       /\ polled < tapped
       /\ \A i \in 1 .. Len(events) : events[i] < tapped
       /\ \A j \in 1 .. Len(Coming) : IsTap(j) => Coming[j].id < tapped

LEMMA OrderedForm ==
  ASSUME TypeOK
  PROVE  EventsInOrder <=> Ordered
<1>1. DOMAIN Coming = 1 .. Len(Coming)
  BY ComingType
<1>2. DOMAIN events = 1 .. Len(events)
  BY DEF TypeOK
<1> QED
  BY <1>1, <1>2 DEF EventsInOrder, Ordered, IsTap

\* Numbers of what is queued.
LEMMA TapFacts ==
  ASSUME TypeOK
  PROVE  /\ Len(events) \in Nat /\ Len(Coming) \in Nat /\ polled \in Nat /\ taps \in Nat
         /\ \A i \in 1 .. Len(events) : events[i] \in Nat
         /\ \A i \in 1 .. Len(Coming) : IsTap(i) => Coming[i].id \in Nat
         /\ tapped # None => tapped \in Nat
<1>1. Len(events) \in Nat /\ polled \in Nat /\ taps \in Nat
      /\ \A i \in 1 .. Len(events) : events[i] \in Nat
  BY DEF TypeOK
<1>2. tapped # None => tapped \in Nat
  BY DEF TypeOK
<1>3. \A i \in 1 .. Len(Coming) : IsTap(i) => Coming[i].id \in Nat
  BY ComingReply, ReplyFields DEF IsTap
<1> QED
  BY <1>1, <1>2, <1>3, ComingLength

\* What is lost leaves the others in order; a tap has a number above all others.
LEMMA OrderShrinks ==
  ASSUME TypeOK, TypeOK', Ordered, TapNumbers, NEW k \in Nat, Left(k),
         events' = events, polled' = polled,
         \/ taps' = taps /\ (tapped' = tapped \/ tapped' = None)
         \/ taps' = taps + 1 /\ tapped' = taps + 1
  PROVE  Ordered' /\ TapNumbers'
<1>1. \A i \in 1 .. Len(Coming') :
        i + k \in 1 .. Len(Coming) /\ Coming'[i] = Coming[i + k]
          /\ (IsTap(i)' => IsTap(i + k))
  <2>1. Len(Coming) \in Nat /\ Len(Coming') \in Nat
    BY ComingLength, NextLength
  <2> QED
    BY <2>1 DEF Left, IsTap
<1>2. Len(Coming') \in Nat
  BY NextLength
<1>3. ASSUME NEW j \in 1 .. Len(Coming'), IsTap(j)'
      PROVE  /\ Coming'[j].id \in Nat /\ polled < Coming'[j].id /\ Coming'[j].id <= taps
             /\ \A i \in 1 .. Len(events) : events[i] < Coming'[j].id
             /\ tapped # None => Coming'[j].id < tapped
  <2>1. IsTap(j + k) /\ j + k \in 1 .. Len(Coming) /\ Coming'[j] = Coming[j + k]
    BY <1>1, <1>3
  <2> QED
    BY <2>1, TapFacts DEF Ordered, TapNumbers, IsTap
<1>4. ASSUME NEW i \in 1 .. Len(Coming'), NEW j \in 1 .. Len(Coming'),
             IsTap(i)', IsTap(j)', i < j
      PROVE  Coming'[i].id < Coming'[j].id
  <2>1. /\ IsTap(i + k) /\ i + k \in 1 .. Len(Coming) /\ Coming'[i] = Coming[i + k]
        /\ IsTap(j + k) /\ j + k \in 1 .. Len(Coming) /\ Coming'[j] = Coming[j + k]
        /\ i + k < j + k
    BY <1>1, <1>4
  <2> QED
    BY <2>1 DEF Ordered
<1>5. TapNumbers'
  <2>1. \A i \in 1 .. Len(Coming') : Coming'[i].kind = "event" => IsTap(i)'
    BY DEF IsTap
  <2>2. CASE taps' = taps /\ (tapped' = tapped \/ tapped' = None)
    BY <1>3, <2>1, <2>2, TapFacts DEF TapNumbers
  <2>3. CASE taps' = taps + 1 /\ tapped' = taps + 1
    BY <1>3, <2>1, <2>3, TapFacts DEF TapNumbers
  <2> QED
    BY <2>2, <2>3
<1>6. tapped' # None =>
        /\ polled < tapped'
        /\ \A i \in 1 .. Len(events) : events[i] < tapped'
        /\ \A j \in 1 .. Len(Coming') : IsTap(j)' => Coming'[j].id < tapped'
  <2>1. CASE taps' = taps /\ (tapped' = tapped \/ tapped' = None)
    <3> SUFFICES ASSUME tapped' # None
                 PROVE  /\ polled < tapped'
                        /\ \A i \in 1 .. Len(events) : events[i] < tapped'
                        /\ \A j \in 1 .. Len(Coming') : IsTap(j)' => Coming'[j].id < tapped'
      OBVIOUS
    <3>1. /\ polled < tapped /\ tapped' = tapped
          /\ \A i \in 1 .. Len(events) : events[i] < tapped
          /\ \A j \in 1 .. Len(Coming) : IsTap(j) => Coming[j].id < tapped
      BY <2>1 DEF Ordered
    <3> QED
      BY <1>3, <3>1
  <2>2. CASE taps' = taps + 1 /\ tapped' = taps + 1
    BY <1>3, <2>2, TapFacts DEF TapNumbers
  <2> QED
    BY <2>1, <2>2
<1> QED
  BY <1>3, <1>4, <1>5, <1>6 DEF Ordered

\* A reply that is not an event is no event; the event sent is the one tapped last.
LEMMA OrderGrows ==
  ASSUME TypeOK, TypeOK', Ordered, TapNumbers, Handle \/ TransmitEvent
  PROVE  Ordered' /\ TapNumbers'
<1>1. Grows
  BY GrowsLemma
<1>2. UNCHANGED <<events, polled, taps>>
  BY DEF Handle, TransmitEvent, host
<1>3. /\ Len(Coming) \in Nat /\ Len(Coming') = Len(Coming) + 1
      /\ \A i \in 1 .. Len(Coming) : Coming'[i] = Coming[i] /\ (IsTap(i)' <=> IsTap(i))
      /\ Coming'[Len(Coming) + 1] = tx'
      /\ \A i \in 1 .. Len(Coming') : i \in 1 .. Len(Coming) \/ i = Len(Coming) + 1
  <2>1. Len(Coming) \in Nat
    BY ComingLength
  <2> QED
    BY <1>1, <2>1 DEF Grows, IsTap
<1>4. CASE Handle
  <2>1. tx'.kind # "event" /\ tapped' = tapped
    <3>1. \/ tx' = Pong(Head(down).id)
          \/ tx' = Ack(seq', Head(down), epoch)
          \/ tx' = Rejected(Head(down))
      BY <1>4 DEF Handle
    <3> QED
      BY <1>4, <3>1 DEF Handle, Pong, Ack, Rejected
  <2>2. \A i \in 1 .. Len(Coming') : IsTap(i)' =>
          i \in 1 .. Len(Coming) /\ IsTap(i) /\ Coming'[i] = Coming[i]
    BY <1>3, <2>1 DEF IsTap
  <2>3. TapNumbers'
    <3>1. \A i \in 1 .. Len(Coming') : Coming'[i].kind = "event" => IsTap(i)'
      BY DEF IsTap
    <3> QED
      BY <1>2, <2>1, <2>2, <3>1 DEF TapNumbers, IsTap
  <2> QED
    BY <1>2, <2>1, <2>2, <2>3 DEF Ordered
<1>5. CASE TransmitEvent
  <2>1. tapped # None /\ tapped' = None /\ tx'.kind = "event" /\ tx'.id = tapped
        /\ tapped \in Nat
    BY <1>5, TapFacts DEF TransmitEvent, TapEvent
  <2>2. \A i \in 1 .. Len(Coming') : IsTap(i)' =>
          \/ i \in 1 .. Len(Coming) /\ IsTap(i) /\ Coming'[i] = Coming[i]
          \/ i = Len(Coming) + 1 /\ Coming'[i].id = tapped
    BY <1>3, <2>1
  <2>3. TapNumbers'
    <3>1. \A i \in 1 .. Len(Coming') : Coming'[i].kind = "event" => IsTap(i)'
      BY DEF IsTap
    <3> QED
      BY <1>2, <2>1, <2>2, <3>1 DEF TapNumbers, IsTap
  <2>4. ASSUME NEW i \in 1 .. Len(Coming'), NEW j \in 1 .. Len(Coming'),
               IsTap(i)', IsTap(j)', i < j
        PROVE  Coming'[i].id < Coming'[j].id
    <3>1. i \in 1 .. Len(Coming) /\ IsTap(i) /\ Coming'[i] = Coming[i]
      BY <1>3, <2>2, <2>4
    <3> QED
      BY <2>1, <2>2, <2>4, <3>1 DEF Ordered
  <2>5. ASSUME NEW j \in 1 .. Len(Coming'), IsTap(j)'
        PROVE  polled < Coming'[j].id
               /\ \A i \in 1 .. Len(events) : events[i] < Coming'[j].id
    BY <2>1, <2>2, <2>5 DEF Ordered
  <2> QED
    BY <1>2, <2>1, <2>3, <2>4, <2>5 DEF Ordered
<1> QED
  BY <1>4, <1>5

\* The event that is read is the first that comes, and the last to be kept.
LEMMA OrderReads ==
  ASSUME TypeOK, TypeOK', Ordered, TapNumbers, Read, Head(up).kind = "event"
  PROVE  Ordered' /\ TapNumbers'
<1> DEFINE q == Append(events, Coming[1].id)
<1>1. /\ Left(1) /\ IsTap(1) /\ Coming[1].id \in Nat
      /\ 1 \in 1 .. Len(Coming) /\ Head(up) = Coming[1]
  <2>1. Left(1) /\ Len(Coming) >= 1 /\ Head(up) = Coming[1]
    BY ReadLemma
  <2>2. 1 \in 1 .. Len(Coming)
    BY <2>1, ComingLength
  <2> QED
    BY <2>1, <2>2, TapFacts DEF IsTap
<1>2. UNCHANGED <<polled, taps, tapped>> /\ events' = Keep(q)
  BY <1>1 DEF Read, firmware, OnPing
<1>3. /\ q \in Seq(Nat) /\ Len(q) = Len(events) + 1 /\ q[Len(events) + 1] = Coming[1].id
      /\ \A i \in 1 .. Len(events) : q[i] = events[i]
      /\ Len(events) \in Nat
  <2>1. events \in Seq(Nat) /\ Coming[1].id \in Nat /\ Len(events) \in Nat
    BY <1>1 DEF TypeOK
  <2> QED
    BY <2>1, AppendProperties
<1>4. /\ \A i, j \in 1 .. Len(q) : i < j => q[i] < q[j]
      /\ \A i \in 1 .. Len(q) : q[i] \in Nat /\ polled < q[i] /\ q[i] <= taps
      /\ tapped # None => \A i \in 1 .. Len(q) : q[i] < tapped
      /\ \A i \in 1 .. Len(q), j \in 1 .. Len(Coming) :
           IsTap(j) /\ 1 < j => q[i] < Coming[j].id
  <2> HIDE DEF q
  <2>1. \A i \in 1 .. Len(q) :
          \/ i \in 1 .. Len(events) /\ q[i] = events[i]
          \/ i = Len(events) + 1 /\ q[i] = Coming[1].id
    BY <1>3
  <2>2. /\ \A i \in 1 .. Len(events) : events[i] < Coming[1].id /\ events[i] <= taps
                                         /\ polled < events[i] /\ events[i] \in Nat
        /\ polled < Coming[1].id /\ Coming[1].id <= taps
    BY <1>1, TapFacts DEF Ordered, TapNumbers, IsTap
  <2>3. ASSUME NEW i \in 1 .. Len(q), NEW j \in 1 .. Len(q), i < j PROVE q[i] < q[j]
    <3>1. i \in 1 .. Len(events) /\ q[i] = events[i]
      BY <1>3, <2>3
    <3> QED
      BY <2>1, <2>2, <2>3, <3>1 DEF Ordered
  <2>4. tapped # None => \A i \in 1 .. Len(q) : q[i] < tapped
    BY <1>1, <2>1 DEF Ordered
  <2>5. ASSUME NEW i \in 1 .. Len(q), NEW j \in 1 .. Len(Coming), IsTap(j), 1 < j
        PROVE  q[i] < Coming[j].id
    BY <1>1, <2>1, <2>5 DEF Ordered
  <2> QED
    BY <1>1, <2>1, <2>2, <2>3, <2>4, <2>5
<1>5. PICK k \in Nat : /\ k + Len(events') = Len(q)
                       /\ \A i \in 1 .. Len(events') : events'[i] = q[i + k]
  <2> HIDE DEF q
  <2> QED
    BY <1>2, <1>3, KeepLemma
<1> HIDE DEF q
<1>6. \A i \in 1 .. Len(events') : i + k \in 1 .. Len(q) /\ events'[i] = q[i + k]
  <2>1. Len(events') \in Nat
    BY DEF TypeOK
  <2> QED
    BY <1>3, <1>5, <2>1
<1>7. \A j \in 1 .. Len(Coming') :
        j + 1 \in 1 .. Len(Coming) /\ Coming'[j] = Coming[j + 1]
          /\ (IsTap(j)' => IsTap(j + 1))
  <2>1. Len(Coming) \in Nat /\ Len(Coming') \in Nat
    BY ComingLength, NextLength
  <2> QED
    BY <1>1, <2>1 DEF Left, IsTap
<1>8. ASSUME NEW j \in 1 .. Len(Coming'), IsTap(j)'
      PROVE  /\ polled < Coming'[j].id /\ Coming'[j].id <= taps
             /\ \A i \in 1 .. Len(events') : events'[i] < Coming'[j].id
             /\ tapped # None => Coming'[j].id < tapped
  <2>1. IsTap(j + 1) /\ j + 1 \in 1 .. Len(Coming) /\ Coming'[j] = Coming[j + 1] /\ 1 < j + 1
    BY <1>7, <1>8
  <2>2. polled < Coming[j + 1].id /\ Coming[j + 1].id <= taps
        /\ (tapped # None => Coming[j + 1].id < tapped)
    BY <2>1 DEF Ordered, TapNumbers, IsTap
  <2> QED
    BY <1>4, <1>6, <2>1, <2>2
<1>9. ASSUME NEW i \in 1 .. Len(Coming'), NEW j \in 1 .. Len(Coming'),
             IsTap(i)', IsTap(j)', i < j
      PROVE  Coming'[i].id < Coming'[j].id
  <2>1. /\ IsTap(i + 1) /\ i + 1 \in 1 .. Len(Coming) /\ Coming'[i] = Coming[i + 1]
        /\ IsTap(j + 1) /\ j + 1 \in 1 .. Len(Coming) /\ Coming'[j] = Coming[j + 1]
        /\ i + 1 < j + 1
    BY <1>7, <1>9
  <2> QED
    BY <2>1 DEF Ordered
<1>10. /\ \A i \in 1 .. Len(events') : polled < events'[i] /\ events'[i] <= taps
       /\ tapped # None => \A i \in 1 .. Len(events') : events'[i] < tapped
  BY <1>4, <1>6
<1>11. ASSUME NEW i \in 1 .. Len(events'), NEW j \in 1 .. Len(events'), i < j
       PROVE  events'[i] < events'[j]
  <2>1. i + k \in 1 .. Len(q) /\ j + k \in 1 .. Len(q) /\ i + k < j + k
    BY <1>6, <1>11
  <2> QED
    BY <1>4, <1>6, <2>1
<1>12. TapNumbers'
  <2>1. \A j \in 1 .. Len(Coming') : Coming'[j].kind = "event" => IsTap(j)'
    BY DEF IsTap
  <2>2. polled' <= taps' /\ (tapped' # None => tapped' <= taps')
    BY <1>2 DEF TapNumbers
  <2> QED
    BY <1>2, <1>8, <1>10, <2>1, <2>2 DEF TapNumbers
<1>13. tapped' # None => polled' < tapped'
  BY <1>2 DEF Ordered
<1> QED
  BY <1>2, <1>8, <1>9, <1>10, <1>11, <1>12, <1>13 DEF Ordered

\* What poll returns last is below all that it leaves.
LEMMA OrderPolls ==
  ASSUME TypeOK, TypeOK', Ordered, TapNumbers, Poll
  PROVE  Ordered' /\ TapNumbers'
<1>1. PICK n \in 0 .. Len(up) :
        /\ \/ \E i \in 1 .. n : up[i].kind = "event" /\ polled' = up[i].id
           \/ polled' = IF events = <<>> THEN polled ELSE events[Len(events)]
        /\ up' = SubSeq(up, n + 1, Len(up))
  <2>1. PICK n \in 0 .. IF port THEN Len(up) ELSE 0 :
          /\ \/ \E i \in 1 .. n : up[i].kind = "event" /\ polled' = up[i].id
             \/ polled' = IF events = <<>> THEN polled ELSE events[Len(events)]
          /\ up' = SubSeq(up, n + 1, Len(up))
    BY DEF Poll
  <2>2. n \in 0 .. Len(up)
    BY <2>1 DEF TypeOK
  <2> QED
    BY <2>1, <2>2
<1>2. UNCHANGED <<taps, tapped, tx>> /\ events' = <<>>
  BY DEF Poll, firmware
<1>3. Left(n)
  BY <1>1, <1>2, TakeLemma
<1>4. Len(events') = 0
  BY <1>2
<1>5. \A j \in 1 .. Len(Coming') :
        j + n \in 1 .. Len(Coming) /\ Coming'[j] = Coming[j + n]
          /\ (IsTap(j)' => IsTap(j + n))
  <2>1. Len(Coming) \in Nat /\ Len(Coming') \in Nat
    BY ComingLength, NextLength
  <2> QED
    BY <1>3, <2>1 DEF Left, IsTap
<1>6. \/ polled' = polled
      \/ \E i \in 1 .. Len(events) : polled' = events[i]
      \/ \E i \in 1 .. n : IsTap(i) /\ i \in 1 .. Len(Coming) /\ polled' = Coming[i].id
  <2>1. CASE \E i \in 1 .. n : up[i].kind = "event" /\ polled' = up[i].id
    <3>1. PICK i \in 1 .. n : up[i].kind = "event" /\ polled' = up[i].id
      BY <2>1
    <3>2. /\ Len(up) \in Nat /\ Len(Coming) \in Nat /\ Len(up) <= Len(Coming)
          /\ \A j \in 1 .. Len(up) : Coming[j] = up[j]
      BY ComingType
    <3>3. i \in 1 .. Len(up) /\ i \in 1 .. Len(Coming)
      BY <3>2
    <3> QED
      BY <3>1, <3>2, <3>3 DEF IsTap
  <2>2. CASE polled' = IF events = <<>> THEN polled ELSE events[Len(events)]
    <3>1. events # <<>> => Len(events) \in 1 .. Len(events)
      <4>1. events \in Seq(Nat) /\ (events # <<>> => Len(events) # 0)
        BY EmptySeq DEF TypeOK
      <4> QED
        BY <4>1
    <3> QED
      BY <2>2, <3>1
  <2> QED
    BY <1>1, <2>1, <2>2
<1>7. ASSUME NEW j \in 1 .. Len(Coming'), IsTap(j)'
      PROVE  /\ polled' < Coming'[j].id /\ Coming'[j].id <= taps
             /\ tapped # None => Coming'[j].id < tapped
  <2>1. IsTap(j + n) /\ j + n \in 1 .. Len(Coming) /\ Coming'[j] = Coming[j + n]
    BY <1>5, <1>7
  <2>2. \A i \in 1 .. n : i < j + n
    OBVIOUS
  <2>3. polled' < Coming[j + n].id
    BY <1>6, <2>1, <2>2 DEF Ordered
  <2> QED
    BY <2>1, <2>3 DEF Ordered, TapNumbers, IsTap
<1>8. ASSUME NEW i \in 1 .. Len(Coming'), NEW j \in 1 .. Len(Coming'),
             IsTap(i)', IsTap(j)', i < j
      PROVE  Coming'[i].id < Coming'[j].id
  <2>1. /\ IsTap(i + n) /\ i + n \in 1 .. Len(Coming) /\ Coming'[i] = Coming[i + n]
        /\ IsTap(j + n) /\ j + n \in 1 .. Len(Coming) /\ Coming'[j] = Coming[j + n]
        /\ i + n < j + n
    BY <1>5, <1>8
  <2> QED
    BY <2>1 DEF Ordered
<1>9. polled' <= taps /\ (tapped # None => polled' < tapped)
  BY <1>6 DEF Ordered, TapNumbers, IsTap
<1>10. TapNumbers'
  <2>1. \A j \in 1 .. Len(Coming') : Coming'[j].kind = "event" => IsTap(j)'
    BY DEF IsTap
  <2>2. tapped' # None => tapped' <= taps'
    BY <1>2 DEF TapNumbers
  <2> QED
    BY <1>2, <1>4, <1>7, <1>9, <2>1, <2>2 DEF TapNumbers
<1>11. \A i \in 1 .. Len(events') : FALSE
  BY <1>4
<1> QED
  BY <1>2, <1>7, <1>8, <1>9, <1>10, <1>11 DEF Ordered

LEMMA OrderStep ==
  ASSUME TypeOK, TypeOK', Ordered, TapNumbers, [Next]_vars
  PROVE  Ordered' /\ TapNumbers'
<1>1. CASE Handle \/ TransmitEvent
  BY <1>1, OrderGrows
<1>2. CASE Poll
  BY <1>2, OrderPolls
<1>3. CASE Read
  <2>1. CASE Head(up).kind = "event"
    BY <1>3, <2>1, OrderReads
  <2>2. CASE Head(up).kind # "event"
    <3>1. Left(1)
      BY <1>3, ReadLemma
    <3>2. UNCHANGED <<events, polled, taps, tapped>>
      BY <1>3, <2>2 DEF Read, firmware
    <3> QED
      BY <3>1, <3>2, OrderShrinks
  <2> QED
    BY <2>1, <2>2
<1>4. CASE \/ SendOpen \/ SendClosed \/ SendFails \/ Fail \/ Tick \/ Join \/ Transmit
           \/ Tap \/ Restart \/ Unplug \/ UNCHANGED vars
  <2>1. PICK k \in Nat : Left(k)
    BY <1>4, ShrinksLemma
  <2>2. /\ UNCHANGED <<events, polled>>
        /\ \/ taps' = taps /\ (tapped' = tapped \/ tapped' = None)
           \/ taps' = taps + 1 /\ tapped' = taps + 1
    BY <1>4 DEF SendOpen, SendClosed, SendFails, Fail, Tick, Join, Transmit, Tap, Restart,
                Unplug, vars, host, firmware
  <2> QED
    BY <2>1, <2>2, OrderShrinks
<1> QED
  BY <1>1, <1>2, <1>3, <1>4 DEF Next

\* Events reach the daemon in the order of the taps and at most once, whatever is
\* lost on the way and however long the queues are (queue_event, poll, pending_event).
THEOREM EventsTheorem == Spec => []EventsInOrder
<1>1. Init => Ordered /\ TapNumbers
  <2> SUFFICES ASSUME Init PROVE Ordered /\ TapNumbers
    OBVIOUS
  <2>1. /\ events = <<>> /\ up = <<>> /\ polled = 0 /\ taps = 0 /\ tapped = None
        /\ tx \in {None, Ack(seq, [kind |-> "request", id |-> 0], 1)}
    BY DEF Init
  <2>2. /\ Len(events) = 0 /\ Len(Coming) \in {0, 1}
        /\ \A i \in 1 .. Len(Coming) : Coming[i].kind # "event"
    <3>1. CASE tx = None
      BY <2>1, <3>1 DEF Coming
    <3>2. CASE tx # None
      <4>1. Coming = <<tx>> /\ tx.kind = "ack"
        BY <2>1, <3>2 DEF Coming, Ack
      <4> QED
        BY <2>1, <4>1
    <3> QED
      BY <3>1, <3>2
  <2> QED
    BY <2>1, <2>2 DEF Ordered, TapNumbers, IsTap
<1>2. TypeOK /\ TypeOK' /\ Ordered /\ TapNumbers /\ [Next]_vars => Ordered' /\ TapNumbers'
  BY OrderStep
<1>3. TypeOK /\ Ordered => EventsInOrder
  BY OrderedForm
<1> QED
  BY <1>1, <1>2, <1>3, TypeCorrect, PTL DEF Spec

=============================================================================
