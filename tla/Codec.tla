------------------------------- MODULE Codec --------------------------------
(***************************************************************************)
(* The pure part of protocol.py: the vendor frames and their checksums,    *)
(* the settings buffers, the status block, and the scaling of levels to    *)
(* the device's ranges; and the sequence numbers of camera.py.             *)
(*                                                                         *)
(* A buffer is a sequence of bytes; offset i of the code is element i + 1. *)
(* Floats are fractions: a level is a whole number of percent, a ratio a   *)
(* whole number of thousandths.                                            *)
(***************************************************************************)
EXTENDS Integers, Sequences

-----------------------------------------------------------------------------
(* CRC-16/USB.  The register is the set of the numbers of its 1 bits.      *)
Weights == <<1, 2, 4, 8, 16, 32, 64, 128,
             256, 512, 1024, 2048, 4096, 8192, 16384, 32768>>
BitsOf(n) == {k \in 0..15 : (n \div Weights[k + 1]) % 2 = 1}
Bit(A, k) == IF k \in A THEN 1 ELSE 0
Digit(A, k) ==  \* the four bits from k on
    Bit(A, k) + 2 * Bit(A, k + 1) + 4 * Bit(A, k + 2) + 8 * Bit(A, k + 3)
Byte(A, k) == Digit(A, k) + 16 * Digit(A, k + 4)
ValueOf(A) == Byte(A, 0) + 256 * Byte(A, 8)
Xor(A, B) == (A \ B) \cup (B \ A)
Halved(A) == {k - 1 : k \in A \ {0}}
Polynomial == BitsOf(40961)  \* 0xA001

Shifted(A) == IF 0 \in A THEN Xor(Halved(A), Polynomial) ELSE Halved(A)

CrcBits(data) ==
    LET Twice(A) == Shifted(Shifted(A))
        eight == [A \in SUBSET (0..15) |-> Twice(Twice(Twice(Twice(A))))]
        crc[i \in 0..Len(data)] ==
           IF i = 0 THEN 0..15 ELSE eight[Xor(crc[i - 1], BitsOf(data[i]))]
    IN (0..15) \ crc[Len(data)]
Crc16(data) == ValueOf(CrcBits(data))

-----------------------------------------------------------------------------
(* Frames: 12 bytes of header, the payload with 4 bytes before it, zeros.  *)
FrameLen == 60
LowByte(n) == <<n % 256, 0>>  \* mutant: only the low byte
Word(n) == <<n % 256, (n \div 256) % 256>>
WordAt(buf, i) == buf[i + 1] + 256 * buf[i + 2]
Zeros(n) == [i \in 1..n |-> 0]

Headed(flags, seq, receiver, cmd, token) ==
    <<170, flags>> \o Word(seq) \o Word(12) \o token \o <<10, receiver>> \o Word(cmd)
Segment(payload, token) == Word(Len(payload)) \o token \o payload

BuildFrame(cmd, receiver, seq, payload, flags) ==
    LET Top(token) == Headed(flags, seq, receiver, cmd, token)
        Body(token) == IF payload = <<>> THEN <<>> ELSE Segment(payload, token)
        frame == Top(Word(Crc16(Top(<<0, 0>>))))
                    \o (IF payload = <<>> THEN <<>>
                        ELSE Body(Word(Crc16(Body(<<0, 0>>)))))
    IN frame \o Zeros(FrameLen - Len(frame))

BadFrame == [seq |-> 0, sender |-> 0, receiver |-> 0, cmd |-> 0, payload |-> <<-1>>]
Untokened(buf, from, to, at) ==
    [i \in 1..to - from |-> IF from + i - 1 \in {at, at + 1} THEN 0 ELSE buf[from + i]]

TrustsPayload(buf, end) == TRUE  \* mutant: the payload's checksum is not compared
PayloadIntact(buf, end) == Crc16(Untokened(buf, 12, end, 14)) = WordAt(buf, 14)

ParseFrame(buf) ==
    LET Parsed(payload) == [seq |-> WordAt(buf, 2), sender |-> buf[9], receiver |-> buf[10],
                            cmd |-> WordAt(buf, 10), payload |-> payload]
        end == 16 + WordAt(buf, 12)
    IN IF \/ Len(buf) < 12
          \/ buf[1] # 170
          \/ Crc16(Untokened(buf, 0, 12, 6)) # WordAt(buf, 6)
       THEN BadFrame
       ELSE IF Len(buf) < 16 \/ end = 16 THEN Parsed(<<>>)
       ELSE IF Len(buf) < end \/ ~PayloadIntact(buf, end) THEN BadFrame
       ELSE Parsed(SubSeq(buf, 17, end))

-----------------------------------------------------------------------------
(* The sequence number: 1..SeqMax, 0xFFFF in the code, never 0.            *)
NextSeqLate(seq, SeqMax) == IF seq > SeqMax THEN 1 ELSE seq + 1  \* mutant: off by one
NextSeq(seq, SeqMax) == IF seq >= SeqMax THEN 1 ELSE seq + 1

-----------------------------------------------------------------------------
(* The names of the settings and their bytes, as they are written and as   *)
(* the status block is read.                                               *)
FramingModes == [normal |-> 0, upper_body |-> 1, close_up |-> 2,
                 headless |-> 3, lower_body |-> 4]
SceneModes == [group |-> 1, whiteboard |-> 4, desk |-> 5, hand |-> 3]
AiModes == DOMAIN FramingModes \cup DOMAIN SceneModes

EncodeAiMode(mode) ==
    CASE mode = "none" -> <<0, 0>>
      [] mode \in DOMAIN SceneModes -> <<SceneModes[mode], 0>>
      [] OTHER -> <<2, FramingModes[mode]>>

DecodeAiMode(m, n) ==
    CASE <<m, n>> = <<0, 0>> -> "no_tracking"
      [] m = 2 /\ n \in 0..4 ->
            <<"normal", "upper_body", "close_up", "headless", "lower_body">>[n + 1]
      [] n = 0 /\ m \in {1, 3, 4, 5} ->
            [i \in {1, 3, 4, 5} |->
               CASE i = 5 -> "desk" [] i = 4 -> "whiteboard"
                 [] i = 3 -> "hand" [] i = 1 -> "group"][m]
      [] OTHER -> "unknown"

FovValue == [wide |-> 0, medium |-> 1, narrow |-> 2]
DecodeFov(b) ==
    IF b \in 0..3 THEN <<"wide", "medium", "narrow", "custom">>[b + 1] ELSE "unknown"
EncodeSpeed(speed) == IF speed = "sport" THEN 2 ELSE 0
DecodeSpeed(b) ==
    CASE b = 0 -> "standard" [] b = 2 -> "sport" [] OTHER -> "unknown"

(* encode_exposure: the mode and a 32-bit value, low byte first.           *)
EncodeExposure(manual, raw) ==
    <<IF manual THEN 1 ELSE 0>> \o Word(raw) \o Word(raw \div 65536)

-----------------------------------------------------------------------------
(* Python's round of n / d: to the nearest, a tie to the even one.         *)
Round(n, d) ==
    LET q == n \div d
        r == 2 * (n % d)
    IN IF r < d \/ (r = d /\ q % 2 = 0) THEN q ELSE q + 1

Truncated(pct, lo, hi) == lo + ((hi - lo) * pct) \div 100  \* mutant: no rounding
PercentToRange(pct, lo, hi) == Round(100 * lo + (hi - lo) * pct, 100)
RangeToPercent(value, lo, hi) ==
    IF hi = lo THEN 0 ELSE Round((value - lo) * 100, hi - lo)

ExposureRange == <<1, 2500>>

-----------------------------------------------------------------------------
(* Whatever is sent with a vendor command is what the frame is parsed to,  *)
(* for every payload a frame can hold: "the wire layer is golden-tested"   *)
(* for two of them.                                                        *)
Commands == {<<41154, 2>>, <<13826, 2>>, <<10626, 2>>, <<3268, 4>>}
Payloads == {[i \in 1..n |-> (37 * i + 200) % 256] : n \in 0..44}

Survives(cmd, receiver, seq, payload, flags) ==
    LET frame == BuildFrame(cmd, receiver, seq, payload, flags)
    IN /\ Len(frame) = FrameLen
       /\ ParseFrame(frame) = [seq |-> seq, sender |-> 10, receiver |-> receiver,
                               cmd |-> cmd, payload |-> payload]
Misparsed ==
    {sent \in [c : Commands, seq : {1, 255, 256, 65535}, payload : Payloads] :
       ~Survives(sent.c[1], sent.c[2], sent.seq, sent.payload, 37)}

(* A frame with one bit flipped, or two neighbours, anywhere in it, is     *)
(* rejected or says the same, the bits being padding; but the header's     *)
(* checksum does not cover the payload's length, so a frame whose length   *)
(* is damaged to 0 is taken for one without payload.                       *)
Damages == {{b} : b \in 0..479} \cup {{b, b + 1} : b \in 0..478}
Damaged(frame, bits) ==
    [i \in 1..Len(frame) |->
       ValueOf(Xor(BitsOf(frame[i]), {b - 8 * (i - 1) : b \in bits} \cap 0..7))]

Samples == {<<>>, <<1, 0, 0, 0>>, EncodeExposure(TRUE, 1250)}
Unnoticed ==
    {d \in [payload : Samples, bits : Damages] :
       LET sent == BuildFrame(10626, 2, 7, d.payload, 37)
           read == Damaged(sent, d.bits)
       IN /\ WordAt(read, 12) # 0 \/ d.payload = <<>>
          /\ ParseFrame(read) \notin {BadFrame, ParseFrame(sent)}}

(* A setting that the camera has taken is read back under the name it was  *)
(* set by, which ai_track waits for, and "none" as "no_tracking"; the byte *)
(* of a mode switch under way never reads as a mode, whatever comes with it*)
ReadBack(mode) == LET bytes == EncodeAiMode(mode) IN DecodeAiMode(bytes[1], bytes[2])
Misnamed ==
    {mode \in AiModes : ReadBack(mode) # mode}
    \cup {mode \in {"none"} : ReadBack(mode) # "no_tracking"}
    \cup {fov \in DOMAIN FovValue : DecodeFov(FovValue[fov]) # fov}
    \cup {speed \in {"standard", "sport"} : DecodeSpeed(EncodeSpeed(speed)) # speed}
Transients == {n \in 0..255 : DecodeAiMode(6, n) # "unknown"}

(* A level in percent is taken into the range of the control, its ends to  *)
(* the ends, a higher one to no lower value; and where the range has room  *)
(* for a hundred steps the value is read back as the same percentage.      *)
Scales(lo, hi) ==
    LET Value(p) == PercentToRange(p, lo, hi)
    IN /\ Value(0) = lo /\ Value(100) = hi
       /\ \A p \in 1..100 : Value(p - 1) <= Value(p)
       /\ hi - lo >= 100 => \A p \in 0..100 : RangeToPercent(Value(p), lo, hi) = p
BadRanges ==
    {r \in [lo : {-64, 0, 1}, span : {0, 1, 7, 99, 100, 101, 128, 200, 255, 2499}] :
       ~Scales(r.lo, r.lo + r.span)}
=============================================================================
