---------------------------- MODULE MqttFraming ----------------------------
(***************************************************************************)
(* The byte side of the WebSocket transport: the scan of MQTT fixed        *)
(* headers before any byte reaches the MQTT parser, and the buffer that    *)
(* writes whole packets.  Bytes are numbers; the type byte is not read.    *)
(***************************************************************************)
EXTENDS Naturals, Sequences
LOCAL INSTANCE SequencesExt
LOCAL INSTANCE FiniteSetsExt

CONSTANTS Bytes, MaxFrame, MaxStream
ASSUME FramingAssumption ==
  Bytes \subseteq 0..255 /\ MaxFrame \in Nat /\ MaxFrame >= 5 /\ MaxStream \in Nat

\* One fixed header at the start of buf: at most four length bytes, seven bits
\* each, least significant first.
ScanMqttFrameLength(buf) ==
  LET ends == {i \in 2..Len(buf) : i <= 5 /\ buf[i] < 128} IN
  IF ends # {}
  THEN LET last == Min(ends) IN
       [kind |-> "frame",
        total |-> last + MapThenSumSet(LAMBDA i : (buf[i] % 128) * 128^(i - 2), 2..last)]
  ELSE [kind |-> IF Len(buf) >= 5 THEN "malformed" ELSE "incomplete", total |-> 0]

\* The loop of the message handler over the complete frames of buf: how far it
\* gets, and whether it met a frame that closes the socket.
ScanFrames(buf) ==
  LET Step(a, i) ==
        LET rest == SubSeq(buf, a.offset + 1, Len(buf))
            scan == ScanMqttFrameLength(rest)
        IN  IF a.stop \/ scan.kind = "incomplete" THEN [a EXCEPT !.stop = TRUE]
            ELSE IF scan.kind = "malformed" \/ scan.total > MaxFrame
                 THEN [a EXCEPT !.stop = TRUE, !.bad = TRUE]
            ELSE IF scan.total > Len(rest) THEN [a EXCEPT !.stop = TRUE]
            ELSE [a EXCEPT !.offset = @ + scan.total]
  IN  FoldLeft(Step, [offset |-> 0, stop |-> FALSE, bad |-> FALSE], buf)

NewSocket == [partial |-> <<>>, pushed |-> <<>>, open |-> TRUE]

\* (mutant) Every message is scanned by itself, as if it held whole frames.
OnMessageAlone(ws, bytes) ==
  LET scan == ScanFrames(bytes)
  IN  IF ~ws.open \/ bytes = <<>> THEN ws
      ELSE IF scan.bad THEN [ws EXCEPT !.partial = <<>>, !.open = FALSE]
      ELSE [ws EXCEPT !.partial = SubSeq(bytes, scan.offset + 1, Len(bytes)),
                      !.pushed = @ \o SubSeq(bytes, 1, scan.offset)]

\* The message handler: bytes join what is left of earlier messages, whole
\* frames go to the parser, the tail is kept, a bad frame closes the socket.
OnMessage(ws, bytes) ==
  LET buf == ws.partial \o bytes
      scan == ScanFrames(buf)
  IN  IF ~ws.open \/ bytes = <<>> THEN ws
      ELSE IF scan.bad THEN [ws EXCEPT !.partial = <<>>, !.open = FALSE]
      ELSE [ws EXCEPT !.partial = SubSeq(buf, scan.offset + 1, Len(buf)),
                      !.pushed = @ \o SubSeq(buf, 1, scan.offset)]

\* MqttFrameBuffer.push on the write side: the frames one write completes.
\* Nothing is too large here; a malformed header fails the write.
FramesOf(buf) ==
  LET Step(a, i) ==
        LET scan == ScanMqttFrameLength(a.buf) IN
        IF scan.kind = "malformed" THEN [a EXCEPT !.failed = TRUE]
        ELSE IF scan.kind = "incomplete" \/ scan.total > Len(a.buf) THEN a
        ELSE [a EXCEPT !.frames = Append(@, SubSeq(a.buf, 1, scan.total)),
                       !.buf = SubSeq(a.buf, scan.total + 1, Len(a.buf))]
  IN  FoldLeft(Step, [frames |-> <<>>, buf |-> buf, failed |-> FALSE], buf)

-----------------------------------------------------------------------------
VARIABLES stream,     \* the bytes a device sends
          received,   \* how many have arrived
          ws          \* the data of the socket

framingVars == <<stream, received, ws>>

FramingInit ==
  /\ stream \in SeqOf(Bytes, MaxStream) \ {<<>>}
  /\ received = 0
  /\ ws = NewSocket

\* The next WebSocket message: the network cuts the stream where it likes.
ReceiveMessage ==
  \E n \in 1..(Len(stream) - received) :
    /\ ws.open
    /\ received' = received + n
    /\ ws' = OnMessage(ws, SubSeq(stream, received + 1, received + n))
    /\ UNCHANGED stream

\* s is a row of well-formed frames of at most MaxFrame bytes.
IsFrames(s) ==
  \E ends \in SUBSET (1..Len(s)) :
    /\ s # <<>> => Len(s) \in ends
    /\ \A e \in ends :
         LET start == Max({0} \cup {b \in ends : b < e})
             frame == SubSeq(s, start + 1, e)
         IN  /\ Len(frame) <= MaxFrame
             /\ ScanMqttFrameLength(frame) = [kind |-> "frame", total |-> Len(frame)]

\* However the network cuts a device's stream into messages, the parser gets
\* whole frames, in order and none lost; what is kept back is less than a
\* frame, and the socket closes exactly when the bytes that have arrived hold
\* an oversized or malformed header.  What is written leaves as the same bytes,
\* and no whole frame is kept back (the message and write handlers and the
\* MqttFrameBuffer of ws-adapter.ts).
FramingFaithful ==
  LET arrived == SubSeq(stream, 1, received)
      written == FramesOf(arrived)
  IN
  /\ ws.open => ws.pushed \o ws.partial = arrived
  /\ ws.open # ScanFrames(arrived).bad
  /\ IsFrames(ws.pushed)
  /\ Len(ws.partial) < MaxFrame
  /\ FlattenSeq(written.frames) \o written.buf = arrived
  /\ ~written.failed =>
       LET rest == ScanMqttFrameLength(written.buf) IN
       rest.kind = "incomplete" \/ (rest.kind = "frame" /\ rest.total > Len(written.buf))
=============================================================================
