---------------------------- MODULE LogContainer ----------------------------
(***************************************************************************)
(* The payload of a log topic (core/logging/container.ts): one packet, or  *)
(* a MessagePack array of packets, scanned without being decoded.  Bytes   *)
(* are numbers, positions start at 1, and 0 stands for a scan that failed. *)
(* A device's bundle is an array of values, cut or followed by more bytes. *)
(***************************************************************************)
EXTENDS Naturals, Sequences
LOCAL INSTANCE SequencesExt

CONSTANTS MaxElements,  \* MAX_BUNDLE_ELEMENTS
          MaxDepth,     \* MAX_SKIP_DEPTH
          BundleSizes   \* numbers of values a device sends

\* Reader.u8, u16, u32: n bytes at pos, most significant first.
Number(b, pos, n) ==
    FoldLeft(LAMBDA a, i : a * 256 + i, 0, SubSeq(b, pos, pos + n - 1))

\* Reader.take: the position after n bytes at pos.
Take(b, pos, n) == IF pos = 0 \/ pos + n > Len(b) + 1 THEN 0 ELSE pos + n

\* Width of the length of the values that have one, and bytes besides it
\* (an extension's type).
LengthWidth(t) ==
    CASE t \in {196, 199, 217} -> 1 [] t \in {197, 200, 218} -> 2 [] OTHER -> 4
HasLength(t) == t \in 196 .. 201 \cup 217 .. 219
Besides(t) == IF t \in 199 .. 201 THEN 1 ELSE 0

\* Bytes after the first of the values of fixed size.
FixedSize(t) ==
    CASE t <= 127 \/ t >= 224 \/ t \in {192, 194, 195} -> 0
      [] t \in 160 .. 191                         -> t - 160
      [] t \in {204, 208}                         -> 1
      [] t \in {205, 209}                         -> 2
      [] t \in {202, 206, 210}                    -> 4
      [] t \in {203, 207, 211}                    -> 8
      [] t \in 212 .. 216                         -> 2 ^ (t - 212) + 1
HasFixedSize(t) ==
    t <= 127 \/ t >= 224 \/ t \in {192, 194, 195} \cup 160 .. 191 \cup 202 .. 216

\* Arrays and maps: width of their count (0 when it is in the first byte).
CountWidth(t) == CASE t \in {220, 222} -> 2 [] t \in {221, 223} -> 4 [] OTHER -> 0

\* (mutant) A map is skipped as if it had one value for each pair.
InsideAsArray(t, n) == n

\* The number of values in an array or map of count n.
Inside(t, n) == IF t \in 128 .. 143 \cup {222, 223} THEN 2 * n ELSE n

RECURSIVE SkipMsgValue(_, _, _, _), SkipValues(_, _, _, _)

\* n values at pos.
SkipValues(b, pos, n, depth) ==
    IF n = 0 \/ pos = 0 THEN pos
    ELSE IF pos > Len(b) THEN 0
    ELSE SkipValues(b, SkipMsgValue(b, pos + 1, b[pos], depth), n - 1, depth)

\* skipMsgValue: the value whose first byte t is before pos.
SkipMsgValue(b, pos, t, depth) ==
    IF depth > MaxDepth THEN 0
    ELSE IF HasFixedSize(t) THEN Take(b, pos, FixedSize(t))
    ELSE IF HasLength(t)
    THEN LET p == Take(b, pos, LengthWidth(t)) IN
         IF p = 0 THEN 0 ELSE Take(b, p, Number(b, pos, LengthWidth(t)) + Besides(t))
    ELSE IF t \in 128 .. 159 \cup 220 .. 223
    THEN LET p == Take(b, pos, CountWidth(t)) IN
         IF p = 0 THEN 0
         ELSE SkipValues(b, p, Inside(t, IF CountWidth(t) = 0 THEN t % 16
                                         ELSE Number(b, pos, CountWidth(t))), depth + 1)
    ELSE 0

-----------------------------------------------------------------------------
Rejected == [ok |-> FALSE, elements |-> <<>>, dropped |-> 0]

\* One element of a bundle: a packet is kept, anything else is passed over
\* and counted.
ScanElement(b, a) ==
    LET t == IF a.pos \in 1 .. Len(b) THEN b[a.pos] ELSE 0
        w == LengthWidth(t)
        p == Take(b, a.pos + 1, w)
        len == Number(b, a.pos + 1, w)
        next == IF t \in {196, 197, 198} THEN (IF p = 0 THEN 0 ELSE Take(b, p, len))
                ELSE SkipMsgValue(b, a.pos + 1, t, 1)
    IN  IF a.pos \notin 1 .. Len(b) \/ next = 0 THEN [a EXCEPT !.pos = 0]
        ELSE IF t \in {196, 197} /\ len > 0
        THEN [a EXCEPT !.pos = next, !.elements = Append(@, SubSeq(b, p, next - 1))]
        ELSE [a EXCEPT !.pos = next, !.dropped = @ + 1]

\* parseMsgBundle: the array's header, its elements, and nothing after them.
ParseMsgBundle(b) ==
    LET t == IF b = <<>> THEN 0 ELSE b[1]
        w == CountWidth(t)
        pos == Take(b, 2, w)
        declared == IF t \in 144 .. 159 THEN t % 16 ELSE Number(b, 2, w)
        scan == FoldLeft(LAMBDA a, i : ScanElement(b, a),
                         [pos |-> pos, elements |-> <<>>, dropped |-> 0],
                         [i \in 1 .. declared |-> i])
    IN  IF t \notin 144 .. 159 \cup {220, 221} \/ pos = 0 THEN Rejected
        ELSE IF declared \notin 1 .. MaxElements \/ scan.pos # Len(b) + 1 THEN Rejected
        ELSE [ok |-> TRUE, elements |-> scan.elements, dropped |-> scan.dropped]

\* parseLogContainer.
ParseLogContainer(b) ==
    IF b = <<>> THEN Rejected
    ELSE CASE b[1] = 154 -> [ok |-> TRUE, elements |-> <<b>>, dropped |-> 0]
           [] b[1] = 1   -> ParseMsgBundle(Tail(b))
           [] OTHER      -> Rejected

-----------------------------------------------------------------------------
\* What a device may put in a bundle: packets as bin8 and bin16, an empty
\* one, and values the contract does not know, some of them nested.  Two of
\* these cannot be passed over: one nested too deep, and a byte that starts no
\* value.
TooDeep == <<145, 145, 145, 145, 5>>
NoValue == <<193>>
Values ==
  { <<196, 2, 154, 7>>, <<197, 0, 1, 154>>, <<196, 0>>, <<198, 0, 0, 0, 1, 9>>, <<5>>,
    <<162, 1, 2>>, <<129, 161, 3, 192>>, <<146, 196, 1, 154, 206, 0, 0, 0, 1>>,
    <<199, 1, 8, 8>>, <<213, 1, 1, 1>>, <<220, 0, 1, 145, 0>>, TooDeep, NoValue }
Packet(v) == v[1] \in {196, 197} /\ v # <<196, 0>>
Payload(v) == SubSeq(v, IF v[1] = 196 THEN 3 ELSE 4, Len(v))

\* The array of vs with its count in one, three or five bytes.
Bundle(vs, w) ==
    <<1>> \o (CASE w = 0 -> <<144 + Len(vs)>>
                [] w = 2 -> <<220, 0, Len(vs)>>
                [] w = 4 -> <<221, 0, 0, 0, Len(vs)>>)
          \o FlattenSeq(vs)

VARIABLES bundle,   \* the values sent
          arrived,  \* the payload, whole, cut, or with bytes after it
          parsed    \* what parseLogContainer answered: nothing yet, or one answer

containerVars == <<bundle, arrived, parsed>>

ContainerInit ==
    /\ bundle \in UNION {[1 .. n -> Values] : n \in BundleSizes}
    /\ \E w \in {0, 2, 4} :
         LET b == Bundle(bundle, w) IN
         \/ \E n \in 0 .. Len(b) : arrived = SubSeq(b, 1, n)
         \/ arrived = b \o <<196>>
    /\ parsed = <<>>

ReceiveLog ==
    /\ parsed = <<>>
    /\ parsed' = <<ParseLogContainer(arrived)>>
    /\ UNCHANGED <<bundle, arrived>>

\* The bundle as it was sent, of a size that is accepted.
Whole ==
    /\ \E w \in {0, 2, 4} : arrived = Bundle(bundle, w)
    /\ Len(bundle) \in 1 .. MaxElements
Packets == LET ps == SelectSeq(bundle, Packet) IN [i \in DOMAIN ps |-> Payload(ps[i])]

\* A bundle gives exactly its packets, in order, and the number of values passed
\* over; a bundle that is cut short, is followed by more, has no value or too
\* many, gives nothing at all.  Of a bundle with a value nothing can pass over,
\* nested too deeply or of no type, no packet is read from the bytes of another
\* value: it gives its packets, as the protocol document has it ("one bad element
\* never invalidates its siblings"), or nothing, as the code does
\* (parseMsgBundle, skipMsgValue).
ContainerFaithful ==
    parsed # <<>> =>
      LET faithful == [ok |-> TRUE, elements |-> Packets, dropped |-> Len(bundle) - Len(Packets)]
          skippable == Range(bundle) \cap {TooDeep, NoValue} = {}
      IN  \/ Whole /\ parsed[1] = faithful
          \/ ~(Whole /\ skippable) /\ parsed[1] = Rejected
=============================================================================
