------------------------------- MODULE Utils --------------------------------
(* The text codecs of drogon::utils (base64, hexadecimal, percent encoding) *)
(* and the two ends of a query string: the parameters a client renders and  *)
(* HttpRequestImpl::parseParameters.  Characters are their codes, 0..255.   *)
EXTENDS Integers, SequencesExt, Sequences

CONSTANTS Bytes,     \* the bytes inputs are made of
          MaxBytes   \* bound: length of an input

VARIABLE input

cdVars == <<input>>

CDInit == input = <<>>

\* Another byte: the inputs are enumerated by growing them.
More == Len(input) < MaxBytes /\ \E b \in Bytes : input' = Append(input, b)

CDNext == More
CDSpec == CDInit /\ [][CDNext]_cdVars

Space == 32
Percent == 37
Plus == 43
Equals == 61
And == 38
Question == 63

Digits == 48..57
Upper == 65..90
Lower == 97..122
Alnum == Digits \union Upper \union Lower
XDigits == Digits \union 65..70 \union 97..102
Spaces == {Space} \union 9..13

-----------------------------------------------------------------------------
(* Base64.                                                                  *)

\* base64Chars and urlBase64Chars.
CharSet(urlSafe) ==
    [i \in 0..63 |-> CASE i < 26 -> 65 + i [] i \in 26..51 -> 71 + i [] i \in 52..61 -> i - 4
                       [] i = 62 -> (IF urlSafe THEN 45 ELSE Plus)
                       [] OTHER  -> (IF urlSafe THEN 95 ELSE 47)]

IsBase64Char(c) == c \in Alnum \union {Plus, 47, 45, 95}

\* Base64CharMap: one map for both alphabets.
GetIndex(c) ==
    CASE c \in Upper -> c - 65 [] c \in Lower -> c - 71 [] c \in Digits -> c + 4
      [] c \in {Plus, 45} -> 62 [] OTHER -> 63

\* Bytes beyond the end count as zero.
ByteAt(s, i) == IF i <= Len(s) THEN s[i] ELSE 0

\* The k-th (0..3) group of six bits of three bytes.
Sextet(c, k) ==
    CASE k = 0 -> c[1] \div 4
      [] k = 1 -> (c[1] % 4) * 16 + c[2] \div 16
      [] k = 2 -> (c[2] % 16) * 4 + c[3] \div 64
      [] OTHER -> c[3] % 64

\* A plausible bug: two left-over bytes give two characters.
MutTailChars(n) == IF n % 3 = 0 THEN 0 ELSE 2

\* Characters made of the bytes left over by the groups of three.
TailChars(n) == IF n % 3 = 0 THEN 0 ELSE (n % 3) + 1

Base64Encode(s, urlSafe, padded) ==
    LET n == 4 * (Len(s) \div 3) + TailChars(Len(s))
        total == IF padded THEN 4 * ((Len(s) + 2) \div 3) ELSE n
        Three(g) == [j \in 1..3 |-> ByteAt(s, 3 * g + j)]
    IN  [a \in 1..total |->
            IF a > n THEN Equals
            ELSE CharSet(urlSafe)[Sextet(Three((a - 1) \div 4), (a - 1) % 4)]]

\* base64Decode: up to the first '=', other characters skipped; a last group of
\* two or three characters gives one byte less than it has characters.
Base64Decode(t) ==
    LET end  == SelectInSeq(t, LAMBDA c : c = Equals)
        used == IF end = 0 THEN t ELSE SubSeq(t, 1, end - 1)
        q    == [i \in DOMAIN SelectSeq(used, IsBase64Char) |->
                   GetIndex(SelectSeq(used, IsBase64Char)[i])]
        rest == Len(q) % 4
        n    == 3 * (Len(q) \div 4) + (IF rest = 0 THEN 0 ELSE rest - 1)
        Four(g, k) == ByteAt(q, 4 * g + k)
    IN  [p \in 1..n |->
            LET g == (p - 1) \div 3
            IN  CASE p % 3 = 1 -> Four(g, 1) * 4 + Four(g, 2) \div 16
                  [] p % 3 = 2 -> (Four(g, 2) % 16) * 16 + Four(g, 3) \div 4
                  [] OTHER     -> (Four(g, 3) % 4) * 64 + Four(g, 4)]

\* isBase64 of a text.
IsBase64(t) ==
    LET n == Len(t)
        padding == (IF n > 0 /\ t[n] = Equals THEN 1 ELSE 0)
                   + (IF n > 1 /\ t[n - 1] = Equals THEN 1 ELSE 0)
    IN  /\ n > 0
        /\ \A i \in 1..(n - padding) : IsBase64Char(t[i])
        /\ padding > 0 => n % 4 = 0

-----------------------------------------------------------------------------
(* Hexadecimal digits and percent encoding.                                 *)

HexDigit(v, lower) == IF v < 10 THEN v + 48 ELSE IF lower THEN v + 87 ELSE v + 55

\* A plausible bug: lower-case digits are taken for upper-case ones.
MutHexValue(c) == IF c \in Digits THEN c - 48 ELSE c - 55

HexValue(c) == CASE c \in Digits -> c - 48 [] c \in 97..102 -> c - 87 [] OTHER -> c - 55

BinaryStringToHex(s, lower) ==
    [i \in 1..(2 * Len(s)) |->
        HexDigit(IF i % 2 = 1 THEN s[(i + 1) \div 2] \div 16 ELSE s[i \div 2] % 16, lower)]

\* hexToBinaryString and hexToBinaryVector: nothing at the first wrong digit.
HexToBinaryString(t) ==
    IF \E i \in DOMAIN t : t[i] \notin XDigits THEN <<>>
    ELSE [i \in 1..(Len(t) \div 2) |-> HexValue(t[2 * i - 1]) * 16 + HexValue(t[2 * i])]

\* The marks urlEncodeComponent leaves alone: - _ . ! ~ * ( ).
ComponentMarks == {45, 95, 46, 33, 126, 42, 40, 41}

\* urlEncode leaves ' & = / \ ? alone as well.
UrlMarks == ComponentMarks \union {39, And, Equals, 47, 92, Question}

\* A plausible bug: '+' is taken for a mark.
MutEscaped(c, marks) == c \notin Alnum \union marks \union {Space, Plus}

Escaped(c, marks) == c \notin Alnum \union marks \union {Space}

EncodeChar(c, marks) ==
    IF c = Space THEN <<Plus>>
    ELSE IF Escaped(c, marks) THEN <<Percent, HexDigit(c \div 16, FALSE), HexDigit(c % 16, FALSE)>>
    ELSE <<c>>

UrlEncode(s, marks) == FlattenSeq([i \in DOMAIN s |-> EncodeChar(s[i], marks)])

UrlEncodeComponent(s) == UrlEncode(s, ComponentMarks)

NeedUrlDecoding(t) == \E i \in DOMAIN t : t[i] \in {Plus, Percent}

\* A '%' that two hexadecimal digits do not follow stays.
UrlDecode(t) ==
    LET IsEscape(i) == /\ t[i] = Percent /\ i + 2 <= Len(t)
                       /\ t[i + 1] \in XDigits /\ t[i + 2] \in XDigits
        from[i \in 1..(Len(t) + 3)] ==
            IF i > Len(t) THEN <<>>
            ELSE IF t[i] = Plus THEN <<Space>> \o from[i + 1]
            ELSE IF IsEscape(i) THEN <<HexValue(t[i + 1]) * 16 + HexValue(t[i + 2])>> \o from[i + 3]
            ELSE <<t[i]>> \o from[i + 1]
    IN  from[1]

-----------------------------------------------------------------------------
(* Query strings.  A parameter map is a sequence of keys and values, the    *)
(* last one with a key being the one that counts.                           *)

\* appendToBuffer: the parameters of a request, encoded and joined.
Render(params) ==
    FlattenSeq([i \in DOMAIN params |->
        (IF i = 1 THEN <<>> ELSE <<And>>)
        \o UrlEncodeComponent(params[i][1]) \o <<Equals>> \o UrlEncodeComponent(params[i][2])])

\* Characters at the front that parseParameters skips.
SkipFront(t, chars) ==
    LET first == SelectInSeq(t, LAMBDA c : c \notin chars)
    IN  IF first = 0 THEN <<>> ELSE SubSeq(t, first, Len(t))

\* One parameter: the text between two '&'.
ParseOne(coo) ==
    LET epos == SelectInSeq(coo, LAMBDA c : c = Equals)
    IN  IF epos = 0 THEN <<UrlDecode(coo), <<>>>>
        ELSE <<UrlDecode(SkipFront(SubSeq(coo, 1, epos - 1), Spaces)),
               UrlDecode(SubSeq(coo, epos + 1, Len(coo)))>>

\* A plausible bug: the text is decoded before it is split.
MutSplitText(t) == UrlDecode(SkipFront(t, Spaces \union {Question}))

SplitText(t) == SkipFront(t, Spaces \union {Question})

ParseParameters(t) ==
    LET value == SplitText(t)
        from[i \in 1..(Len(value) + 2)] ==     \* the parameters of value from i on
            IF i > Len(value) THEN <<>>
            ELSE LET pos == SelectInSubSeq(value, i, Len(value), LAMBDA c : c = And)
                     end == IF pos = 0 THEN Len(value) + 1 ELSE pos
                 IN  <<ParseOne(SubSeq(value, i, end - 1))>> \o from[end + 1]
    IN  from[1]

-----------------------------------------------------------------------------
CDTypeOK == input \in Seq(0..255) /\ Len(input) <= MaxBytes

\* What base64Encode makes of any bytes, in both alphabets and with or without
\* padding, is base64 and is decoded to the same bytes.
Base64RoundTrip ==
    \A urlSafe, padded \in BOOLEAN :
      LET t == Base64Encode(input, urlSafe, padded)
      IN  /\ Base64Decode(t) = input
          /\ input # <<>> => IsBase64(t)

\* Hexadecimal text in either case is turned back into the bytes it was made of.
HexRoundTrip ==
    \A lower \in BOOLEAN : HexToBinaryString(BinaryStringToHex(input, lower)) = input

\* Percent encoding, of a component and of a whole path, is undone by urlDecode;
\* and where needUrlDecoding says no, decoding would change nothing.
UrlRoundTrip ==
    /\ \A marks \in {ComponentMarks, UrlMarks} : UrlDecode(UrlEncode(input, marks)) = input
    /\ ~NeedUrlDecoding(input) => UrlDecode(input) = input

\* The parameters a client renders are the parameters the server parses, whatever
\* bytes (separators and '%' included) keys and values hold.
ParametersArrive ==
    \A k \in 0..Len(input) :
      LET params == <<<<SubSeq(input, 1, k), SubSeq(input, k + 1, Len(input))>>,
                      <<input, SubSeq(input, 1, k)>>>>
      IN  ParseParameters(Render(params)) = params

-----------------------------------------------------------------------------
(* trantor's growable byte buffer (drogon/trantor/utils/MsgBuffer.cc): a    *)
(* vector with a head and a tail index, from which the readable bytes are   *)
(* moved, copied into a larger vector or shrunk away by the operations      *)
(* below.  Every connection reads into one and writes from one.             *)

CONSTANTS kBufferOffset,  \* bytes kept free in front of the data (8 in the code)
          InitLen,        \* the length the buffer is constructed with
          ExtBuffer,      \* size of the stack buffer of readFd (8192 in the code)
          MaxLen,         \* bound: bytes one call adds or takes
          MaxContent,     \* bound: readable bytes
          ByteKinds       \* how many different bytes the callers write

VARIABLES buffer,         \* the MsgBuffer: mem is buffer_, cap is initCap_
          content         \* history: what the calls so far leave to be read

mbVars == <<buffer, content>>

\* MsgBuffer(len): kBufferOffset + len zeroed bytes, none of them readable.
New(len) == [mem |-> [i \in 1..(len + kBufferOffset) |-> 0],
             head |-> kBufferOffset, tail |-> kBufferOffset, cap |-> len]

WritableBytes(b) == Len(b.mem) - b.tail
ReadableBytes(b) == b.tail - b.head
Readable(b) == SubSeq(b.mem, b.head + 1, b.tail)

\* memcpy of s to begin() + at.
Store(mem, at, s) ==
    [i \in 1..Len(mem) |-> IF i - at \in 1..Len(s) THEN s[i - at] ELSE mem[i]]

\* The memcpy and the tail_ += len that end every append.
PutBytes(b, s) == [b EXCEPT !.mem = Store(b.mem, b.tail, s), !.tail = @ + Len(s)]

\* The length of the replacement: twice the old one if that is enough.
NewLen(b, len) ==
    IF 2 * Len(b.mem) > kBufferOffset + ReadableBytes(b) + len
    THEN 2 * Len(b.mem)
    ELSE ReadableBytes(b) + len

\* The readable bytes go back to kBufferOffset.
MoveToFront(b) ==
    [b EXCEPT !.mem = Store(b.mem, kBufferOffset, Readable(b)),
              !.head = kBufferOffset, !.tail = kBufferOffset + ReadableBytes(b)]

\* A plausible bug: the offset kept in front is counted as room.
MutHasRoom(b, len) == b.head + WritableBytes(b) >= len

\* Whether moving the readable bytes to the front makes room for len more.
HasRoom(b, len) == b.head + WritableBytes(b) >= len + kBufferOffset

\* ensureWritableBytes.  The inner append never grows: newLen >= readableBytes.
EnsureWritableBytes(b, len) ==
    IF WritableBytes(b) >= len THEN b
    ELSE IF HasRoom(b, len) THEN MoveToFront(b)
    ELSE PutBytes(New(NewLen(b, len)), Readable(b))

AppendTo(b, s) == PutBytes(EnsureWritableBytes(b, Len(s)), s)

\* retrieveAll: a buffer that has outgrown twice its capacity is cut back.
RetrieveAll(b) ==
    [b EXCEPT !.mem = IF Len(b.mem) > 2 * b.cap
                      THEN [i \in 1..(b.cap + kBufferOffset) |->
                                IF i <= Len(b.mem) THEN b.mem[i] ELSE 0]
                      ELSE b.mem,
              !.head = kBufferOffset, !.tail = kBufferOffset]

Retrieve(b, len) ==
    IF len >= ReadableBytes(b) THEN RetrieveAll(b) ELSE [b EXCEPT !.head = @ + len]

\* addInFront: into the free bytes in front, else by moving the data up inside
\* the vector (an overlapping std::copy of chars, a memmove in the build), else
\* into a new buffer.
AddInFrontTo(b, s) ==
    IF b.head >= Len(s)
    THEN [b EXCEPT !.mem = Store(b.mem, b.head - Len(s), s), !.head = @ - Len(s)]
    ELSE IF Len(s) <= WritableBytes(b)
    THEN [b EXCEPT !.mem = Store(Store(b.mem, b.head + Len(s), Readable(b)), b.head, s),
                   !.tail = @ + Len(s)]
    ELSE LET need == Len(s) + ReadableBytes(b)
         IN  PutBytes(PutBytes(New(IF need < b.cap THEN b.cap ELSE need), s), Readable(b))

\* No operation looks at the bytes outside head_..tail_: their values are
\* forgotten (0), so that two buffers differing only there are one state.
Forget(b) ==
    [b EXCEPT !.mem = [i \in 1..Len(b.mem) |->
                           IF i \in (b.head + 1)..b.tail THEN b.mem[i] ELSE 0]]

MBInit == buffer = New(InitLen) /\ content = <<>>

\* The bytes a caller passes: a run of different values, at any phase.
Chunks(n) == {[i \in 1..n |-> 1 + ((k + i) % ByteKinds)] : k \in 1..ByteKinds}

\* append and every appendIntN, which append the network form of a number.
Append_(s) ==
    /\ Len(content) + Len(s) <= MaxContent
    /\ buffer' = Forget(AppendTo(buffer, s))
    /\ content' = content \o s

\* addInFront and every addInFrontIntN.
AddInFront(s) ==
    /\ Len(content) + Len(s) <= MaxContent
    /\ buffer' = Forget(AddInFrontTo(buffer, s))
    /\ content' = s \o content

\* retrieve, retrieveUntil and the read functions, which also copy the bytes.
Take(len) ==
    /\ buffer' = Forget(Retrieve(buffer, len))
    /\ content' = SubSeq(content, len + 1, Len(content))

\* unwrite; its assert asks for that many readable bytes.
Unwrite(len) ==
    /\ ReadableBytes(buffer) >= len
    /\ buffer' = Forget([buffer EXCEPT !.tail = @ - len])
    /\ content' = SubSeq(content, 1, Len(content) - len)

\* readFd: readv fills the writable bytes and then, if these are fewer than the
\* stack buffer holds, the stack buffer, whose bytes are appended.
ReadFd(s) ==
    LET writable == WritableBytes(buffer)
        direct   == SubSeq(s, 1, writable)
        full     == PutBytes(buffer, direct)
    IN  /\ Len(content) + Len(s) <= MaxContent
        /\ Len(s) <= writable + (IF writable < ExtBuffer THEN ExtBuffer ELSE 0)
        /\ buffer' = Forget(IF Len(s) <= writable THEN PutBytes(buffer, s)
                            ELSE AppendTo(full, SubSeq(s, writable + 1, Len(s))))
        /\ content' = content \o s

MBNext ==
    \/ \E n \in 1..MaxLen : \E s \in Chunks(n) : Append_(s) \/ AddInFront(s) \/ ReadFd(s)
    \/ \E n \in 1..MaxLen : Take(n) \/ Unwrite(n)

MBSpec == MBInit /\ [][MBNext]_mbVars

-----------------------------------------------------------------------------
MBTypeOK ==
    /\ buffer.mem \in Seq(0..ByteKinds)
    /\ buffer.cap \in Nat
    /\ content \in Seq(1..ByteKinds)

\* Through every move, growth and shrink the readable bytes are the ones the
\* calls left, in order, and lie inside the vector (ensureWritableBytes,
\* addInFront, readFd and retrieveAll together).
BytesKept ==
    /\ 0 <= buffer.head /\ buffer.head <= buffer.tail /\ buffer.tail <= Len(buffer.mem)
    /\ Readable(buffer) = content
=============================================================================
