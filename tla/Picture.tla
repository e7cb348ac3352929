------------------------------ MODULE Picture -------------------------------
(***************************************************************************)
(* What capture.py reads of a JPEG and what size it scales one to, and the *)
(* guard of aim.py on a frame's shape.                                     *)
(*                                                                         *)
(* A buffer is a sequence of bytes; offset i of the code is element i + 1. *)
(* Quotients of floats are fractions; where two integers are equally near, *)
(* the float may have come out on either side, so round gives either.      *)
(***************************************************************************)
EXTENDS Integers, Sequences

NoPadding(buf) == Len(buf)  \* mutant: the padding is not stripped
Unpadded(buf) ==
    CHOOSE n \in 2..Len(buf) :
       (n = 2 \/ buf[n] # 0) /\ \A j \in n + 1..Len(buf) : buf[j] = 0

IsCompleteJpeg(buf) ==
    /\ Len(buf) >= 4 /\ buf[1] = 255 /\ buf[2] = 216
    /\ LET end == Unpadded(buf) IN buf[end - 1] = 255 /\ buf[end] = 217

-----------------------------------------------------------------------------
(* The size is in the first SOF marker.  What is not a marker is stepped   *)
(* over, a marker without a segment too, and a segment is skipped whole.   *)
Big(buf, i) == 256 * buf[i + 1] + buf[i + 2]
Bare == {216, 1} \cup 208..215
StartOfFrame == (192..207) \ {196, 200, 204}

IntoSegment(buf, i) == i + 2  \* mutant: the segment is searched for markers
PastSegment(buf, i) == i + 2 + Big(buf, i + 2)

JpegDimensions(buf) ==
    LET size[i \in Nat] ==
           IF i + 9 >= Len(buf) THEN <<0, 0>>
           ELSE IF buf[i + 1] # 255 THEN size[i + 1]
           ELSE IF buf[i + 2] \in Bare THEN size[i + 2]
           ELSE IF buf[i + 2] \in StartOfFrame
                THEN <<Big(buf, i + 7), Big(buf, i + 5)>>
                ELSE size[PastSegment(buf, i)]
    IN size[2]

-----------------------------------------------------------------------------
Nearest(n, d) ==
    {k \in n \div d..n \div d + 1 : 2 * n - d <= 2 * k * d /\ 2 * k * d <= 2 * n + d}

CutOff(side, longest, resolution) ==  \* mutant: the side is cut to an even one
    {2 * ((side * resolution) \div (2 * longest))}
ScaledSide(side, longest, resolution) ==
    {IF half = 0 THEN 2 ELSE 2 * half :
        half \in Nearest(side * resolution, 2 * longest)}

(* take_snapshot scales a frame whose longest edge is over the resolution, *)
(* and returns it as it is if the scaling fails.                           *)
Sizes(width, height, resolution) ==
    LET longest == IF width > height THEN width ELSE height
        scaled == ScaledSide(width, longest, resolution)
                     \X ScaledSide(height, longest, resolution)
    IN {<<width, height>>} \cup IF longest > resolution THEN scaled ELSE {}

(* A grab names the native size; the one that follows it names none, and   *)
(* gets what the camera or another program has set last, these for some.   *)
NativeSize == <<1920, 1080>>
DefaultSizes == {<<640, 480>>, <<800, 600>>, <<1280, 960>>, NativeSize}

(* |w / h - 16 / 9| <= 0.02                                                *)
Is16To9(width, height) ==
    LET off == 100 * (9 * width - 16 * height)
    IN -18 * height <= off /\ off <= 18 * height

-----------------------------------------------------------------------------
(* A buffer passes for a complete picture just if it starts as one and its *)
(* end marker is followed by zeros only: the camera pads its frames.       *)
Buffers == UNION {[1..n -> {0, 216, 217, 255}] : n \in 0..6}
EndsWhole(buf) ==
    \E k \in 4..Len(buf) :
       /\ buf[k - 1] = 255 /\ buf[k] = 217
       /\ \A j \in k + 1..Len(buf) : buf[j] = 0
Whole(buf) == Len(buf) >= 4 /\ SubSeq(buf, 1, 2) = <<255, 216>> /\ EndsWhole(buf)
Misjudged == {buf \in Buffers : IsCompleteJpeg(buf) # Whole(buf)}

(* The size that is reported, and that the clients measure their pixels in,*)
(* is that of the picture's own SOF, whatever thumbnails, tables and stray *)
(* bytes come before it.                                                   *)
Sof(marker, w, h) ==
    <<255, marker, 0, 11, 8, h \div 256, h % 256, w \div 256, w % 256, 1, 1, 17, 0>>
Thumbnail == <<255, 225, 0, 15>> \o Sof(192, 160, 120)
Parts == {<<>>, Thumbnail, <<255, 196, 0, 4, 255, 192>>, <<255, 216>>, <<0, 7>>}
Missized ==
    {s \in [p : Parts, q : Parts, marker : {192, 194}] :
       JpegDimensions(<<255, 216>> \o s.p \o s.q \o Sof(s.marker, 1920, 1080))
          # <<1920, 1080>>}

(* The longest edges that obsbot_snapshot asks for, whatever its caller does. *)
Resolutions == 256..1920

(* Of a 16:9 stream every frame that obsbot_snapshot returns, in any       *)
(* resolution it admits, passes the shape guard of the aiming tools, and is*)
(* the stream's own or has the longest edge asked for, but for a pixel.  Of*)
(* a 4:3 stream none passes: however it is rounded, no client aims by it.  *)
Aimable(size, stream, resolution) ==
    /\ Is16To9(size[1], size[2])
    /\ \/ size = stream
       \/ size[1] \in resolution - 1..resolution + 1 /\ size[2] <= size[1]
Wide == {<<640, 360>>, <<1280, 720>>, <<3840, 2160>>, NativeSize}
Misshapen ==
    {resolution \in Resolutions :
       \/ \E stream \in Wide :
            \E size \in Sizes(stream[1], stream[2], resolution) :
               ~Aimable(size, stream, resolution)
       \/ \E stream \in DefaultSizes \ Wide :
            \E size \in Sizes(stream[1], stream[2], resolution) : Is16To9(size[1], size[2])}
=============================================================================
