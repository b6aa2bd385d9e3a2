------------------------------- MODULE Framing -------------------------------
(***************************************************************************)
(* The five readers that cut a stream of bytes into frames ended by a zero *)
(* byte: Receiver of firmware/src/transport.rs, Frames of the daemon's     *)
(* device.rs, read_reply of main.rs, FrameReader of plugin-api and         *)
(* launch::receive.  All of them must find the same frames, however the    *)
(* bytes are cut into reads and whatever came before.                      *)
(*                                                                         *)
(* Of a byte the readers tell only its class, and of a frame only whether  *)
(* it decodes: here when its single control byte comes first, as the COBS  *)
(* code and the variant of the frames in use do.                           *)
(***************************************************************************)
EXTENDS Integers, Sequences

CONSTANTS
  MaxFrame,   \* MAX_FRAME_BYTES, the zero byte included
  MaxBytes    \* bound of the model: the length of the stream

ASSUME FramingAssumption == MaxFrame \in Nat \ {0, 1} /\ MaxBytes \in Nat

Byte == {"zero", "control", "newline", "text"}

VARIABLES
  stream,    \* history: every byte so far
  receiver,  \* Receiver: len and frame, discarding, and what push returned
  frames,    \* Frames of device.rs: buffer, discarding, and the replies
  reply,     \* the loop of read_reply, one call after the other
  reader,    \* FrameReader: frame, discarding, and the results of read_frame
  pipe,      \* bytes FrameReader's source has not given it yet
  available, \* bytes in its BufReader
  launch     \* receive: the bytes read, the outcome, and what it has left to read
fvars == <<stream, receiver, frames, reply, reader, pipe, available, launch>>

Empty   == [buffer |-> <<>>, discarding |-> FALSE, out |-> <<>>]
Decodes(b) == Head(b) = "control" /\ \A i \in 2 .. Len(b) : b[i] # "control"
IsText(b)  == \A i \in 1 .. Len(b) : b[i] # "control"

Keep(d, byte)  == [d EXCEPT !.buffer = Append(@, byte)]
Discard(d)     == [d EXCEPT !.buffer = <<>>, !.discarding = TRUE]
Restart(d)     == [d EXCEPT !.buffer = <<>>, !.discarding = FALSE]
Result(d, r)   == [Restart(d) EXCEPT !.out = Append(@, r)]
Full(d)        == Len(d.buffer) = MaxFrame - 1

-----------------------------------------------------------------------------
(* One byte.                                                               *)

\* Receiver::push.
PushReceiver(d, byte) ==
  IF byte # "zero"
  THEN IF d.discarding THEN d ELSE IF Full(d) THEN Discard(d) ELSE Keep(d, byte)
  ELSE IF d.discarding THEN Result(d, "Rejected")
  ELSE IF d.buffer = <<>> THEN d
  ELSE Result(d, IF Decodes(d.buffer) THEN d.buffer ELSE "Rejected")

\* Mistake: lines of text are left to the frame that follows them.
PushFramesPlain(d, byte) ==
  IF byte # "zero"
  THEN IF d.discarding THEN d ELSE IF Full(d) THEN Discard(d) ELSE Keep(d, byte)
  ELSE IF ~d.discarding /\ d.buffer # <<>> /\ Decodes(d.buffer) THEN Result(d, d.buffer)
  ELSE Restart(d)

\* Frames::push; a text is only logged.
PushFrames(d, byte) ==
  IF byte # "zero"
  THEN IF d.discarding THEN d
       ELSE IF byte = "newline" /\ ~Full(d)
       THEN IF IsText(d.buffer) THEN Restart(d) ELSE Keep(d, byte)
       ELSE IF Full(d)
       THEN IF IsText(d.buffer) THEN Keep(Restart(d), byte) ELSE Discard(d)
       ELSE Keep(d, byte)
  ELSE IF ~d.discarding /\ d.buffer # <<>> /\ Decodes(d.buffer) THEN Result(d, d.buffer)
  ELSE Restart(d)

\* read_reply: what does not decode is passed over.
PushReply(d, byte) ==
  IF byte # "zero"
  THEN IF d.discarding THEN d
       ELSE IF Full(d) THEN [d EXCEPT !.discarding = TRUE] ELSE Keep(d, byte)
  ELSE IF ~d.discarding /\ d.buffer # <<>> /\ Decodes(d.buffer) THEN Result(d, d.buffer)
  ELSE Restart(d)

\* launch::receive: byte by byte, so that what follows is left to the plugin.
PushLaunch(l, byte) ==
  IF l.outcome # "reading" THEN [l EXCEPT !.rest = Append(@, byte)]
  ELSE IF byte = "zero"
  THEN [l EXCEPT !.outcome = IF l.frame # <<>> /\ Decodes(l.frame) THEN "launched"
                             ELSE "failed"]
  ELSE IF Len(l.frame) + 1 >= MaxFrame THEN [l EXCEPT !.outcome = "failed"]
  ELSE [l EXCEPT !.frame = Append(@, byte)]

\* One turn of the loop of read_frame: the bytes up to the zero byte, or all of them.
Piece(d, chunk, terminated) ==
  LET e == IF d.discarding THEN d
           ELSE IF Len(d.buffer) + Len(chunk) + 1 > MaxFrame THEN Discard(d)
           ELSE [d EXCEPT !.buffer = @ \o chunk]
  IN  IF ~terminated THEN e
      ELSE IF e.discarding THEN Result(e, "Oversized")
      ELSE IF e.buffer = <<>> THEN e
      ELSE Result(e, IF Decodes(e.buffer) THEN e.buffer ELSE "Malformed")

-----------------------------------------------------------------------------
FramingInit ==
  /\ stream = <<>> /\ pipe = <<>> /\ available = <<>>
  /\ receiver = Empty /\ frames = Empty /\ reply = Empty /\ reader = Empty
  /\ launch = [frame |-> <<>>, outcome |-> "reading", rest |-> <<>>]

\* A byte reaches the readers that take one at a time, and FrameReader's source.
Arrive ==
  /\ Len(stream) < MaxBytes
  /\ \E byte \in Byte :
       /\ stream' = Append(stream, byte)
       /\ receiver' = PushReceiver(receiver, byte)
       /\ frames' = PushFrames(frames, byte)
       /\ reply' = PushReply(reply, byte)
       /\ launch' = PushLaunch(launch, byte)
       /\ pipe' = Append(pipe, byte)
  /\ UNCHANGED <<reader, available>>

\* fill_buf, when its buffer is used up.
Fill ==
  /\ available = <<>> /\ pipe # <<>>
  /\ available' = pipe /\ pipe' = <<>>
  /\ UNCHANGED <<stream, receiver, frames, reply, reader, launch>>

\* consume.
Consume ==
  /\ available # <<>>
  /\ LET zeros == {i \in 1 .. Len(available) : available[i] = "zero"}
         n     == IF zeros = {} THEN Len(available)
                  ELSE (CHOOSE i \in zeros : \A j \in zeros : i <= j) - 1
     IN  /\ reader' = Piece(reader, SubSeq(available, 1, n), zeros # {})
         /\ available' = SubSeq(available, n + 2, Len(available))
  /\ UNCHANGED <<stream, receiver, frames, reply, pipe, launch>>

FramingNext == Arrive \/ Fill \/ Consume

FramingSpec == FramingInit /\ [][FramingNext]_fvars

-----------------------------------------------------------------------------
(* What the readers should find.                                           *)

Fits(b) == Len(b) < MaxFrame
Good(b) == b # <<>> /\ Fits(b) /\ Decodes(b)

Zeros(s) == {i \in 1 .. Len(s) : s[i] = "zero"}

\* The last of places before i, or 0.
LastBefore(places, i) ==
  CHOOSE j \in places \cup {0} : j < i /\ \A l \in places : l < i => l <= j

\* What there is of a frame after n bytes of s: all that follows the last zero byte.
Begun(s, n) == SubSeq(s, LastBefore(Zeros(s), n + 1) + 1, n)

\* Where the first n bytes of s end a frame, empty ones left out; and the frames.
EndsOf(s, n) == {e \in Zeros(s) : e <= n /\ Begun(s, e - 1) # <<>>}
Bodies(s)  == [e \in Zeros(s) |-> Begun(s, e - 1)]

\* out is what `of` holds for the places, in their order.
Lists(out, places, of) ==
  \E at \in [1 .. Len(out) -> places] :
    /\ \A j, k \in 1 .. Len(out) : j < k => at[j] < at[k]
    /\ \A p \in places : \E k \in 1 .. Len(out) : at[k] = p
    /\ \A k \in 1 .. Len(out) : out[k] = of[at[k]]

\* Where b has lines of text before its frame, and b without them.
LineEnds(b)    == {i \in 1 .. Len(b) : b[i] = "newline" /\ IsText(SubSeq(b, 1, i))}
WithoutText(b) == SubSeq(b, LastBefore(LineEnds(b), Len(b) + 1) + 1, Len(b))

\* A line that ends just where Frames runs full leaves its newline in the buffer,
\* and a text as long as a frame that no newline ends is cut anywhere.  The firmware
\* prints neither; the frame that follows would be lost, or found out of place.
LineFills(b) ==
  \E i \in LineEnds(b), times \in 1 .. Len(b) :
    i - 1 = LastBefore(LineEnds(b), i) + times * (MaxFrame - 1)
Endless(b)   == Len(b) >= MaxFrame /\ IsText(SubSeq(b, 1, MaxFrame - 1))
Separate(b)  == ~LineFills(b) /\ ~Endless(WithoutText(b))

ReceiverAgrees(s, d) ==
  Lists(d.out, EndsOf(s, Len(s)),
        [e \in Zeros(s) |-> IF Good(Bodies(s)[e]) THEN Bodies(s)[e] ELSE "Rejected"])

ReplyAgrees(s, d) == Lists(d.out, {e \in EndsOf(s, Len(s)) : Good(Bodies(s)[e])}, Bodies(s))

ReaderAgrees(s, n, d) ==
  Lists(d.out, EndsOf(s, n),
        [e \in Zeros(s) |-> IF ~Fits(Bodies(s)[e]) THEN "Oversized"
                            ELSE IF Decodes(Bodies(s)[e]) THEN Bodies(s)[e] ELSE "Malformed"])

FramesAgree(s, d) ==
  (\A e \in Zeros(s) : Separate(Bodies(s)[e])) =>
    Lists(d.out, {e \in Zeros(s) : Good(WithoutText(Bodies(s)[e]))},
          [e \in Zeros(s) |-> WithoutText(Bodies(s)[e])])

LaunchAgrees(s, l) ==
  IF \E i \in Zeros(s) : LastBefore(Zeros(s), i) = 0 /\ Good(SubSeq(s, 1, i - 1))
  THEN /\ l.outcome = "launched"
       /\ \E i \in Zeros(s) : /\ LastBefore(Zeros(s), i) = 0
                              /\ l.frame = SubSeq(s, 1, i - 1)
                              /\ l.rest = SubSeq(s, i + 1, Len(s))
  ELSE l.outcome # "launched"

Consumed == Len(stream) - Len(pipe) - Len(available)

\* After any garbage, cut frame, over-long frame or output of the firmware, every
\* reader finds the frames between zero bytes, whole and in order, up to the same
\* length, however its input is cut; the daemon finds them behind lines of text
\* too; and receive leaves every byte behind its frame to the plugin (the readers
\* named above).
DecodersAgree ==
  /\ ReceiverAgrees(stream, receiver)
  /\ ReplyAgrees(stream, reply)
  /\ ReaderAgrees(stream, Consumed, reader)
  /\ FramesAgree(stream, frames)
  /\ LaunchAgrees(stream, launch)
=============================================================================
