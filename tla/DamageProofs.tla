---------------------------- MODULE DamageProofs ----------------------------
(***************************************************************************)
(* What parse_frame makes of a damaged frame: one of its bits flipped, or  *)
(* two neighbours (protocol.py:96).                                        *)
(*                                                                         *)
(* The header and the segment are each under a checksum.  The register of  *)
(* the checksum is linear: of two buffers that both pass it, the           *)
(* difference of the registers is fed the damage alone, and it is never    *)
(* empty again once a damage has been fed (BurstLives), so a damage within *)
(* a section is noticed.  What is left is the length: a damaged one moves  *)
(* the end of the segment.  One longer by one flipped bit is noticed       *)
(* because the checksum then has the wrong number of 1 bits, whatever the  *)
(* payload; one beyond the frame because parse_frame looks.  For the       *)
(* others it depends on the payload, so that the sample of the run is      *)
(* written down: tables of registers, each line of which the prover        *)
(* checks.                                                                 *)
(***************************************************************************)
EXTENDS FunctionProofs

-----------------------------------------------------------------------------
(* The register of the checksum is a set of bits, shifted eight times for  *)
(* each byte (protocol.py:42).  Stepped says, bit by bit, what eight       *)
(* shifts make of it, and it says it of one register only (SteppedOnce):   *)
(* so the shift of a difference is the difference of the shifts, and only  *)
(* the empty register becomes empty.                                       *)

(* A register, two bits that differ, and eight shifts.                     *)
Regs == SUBSET (0..15)
Differ(p, q) == ~(p <=> q)
Eight(A) == Shifted(Shifted(Shifted(Shifted(Shifted(Shifted(Shifted(Shifted(A))))))))

LEMMA XorIs == \A A, B, k : k \in Xor(A, B) <=> Differ(k \in A, k \in B)
  BY DEF Xor, Differ

LEMMA SameReg == ASSUME NEW A \in Regs, NEW B \in Regs, \A k \in 0..15 : k \in A <=> k \in B
                 PROVE  A = B
  BY DEF Regs

LEMMA XorReg == ASSUME NEW A \in Regs, NEW B \in Regs PROVE Xor(A, B) \in Regs
  BY DEF Xor, Regs

LEMMA PolynomialIs == Polynomial = {0, 13, 15}
  <1>1. ASSUME NEW k \in 0..15 PROVE k \in Polynomial <=> k \in {0, 13, 15}
    <2>1. k \in Polynomial <=> (40961 \div Weights[k + 1]) % 2 = 1
      BY DEF Polynomial, BitsOf
    <2>2. \/ k = 0 \/ k = 1 \/ k = 2 \/ k = 3 \/ k = 4 \/ k = 5 \/ k = 6 \/ k = 7 \/ k = 8
          \/ k = 9 \/ k = 10 \/ k = 11 \/ k = 12 \/ k = 13 \/ k = 14 \/ k = 15
      OBVIOUS
    <2> QED  BY <2>1, <2>2 DEF Weights
  <1> QED  BY <1>1 DEF Polynomial, BitsOf

LEMMA ShiftedIs ==
    ASSUME NEW A \in Regs
    PROVE  /\ Shifted(A) \in Regs
           /\ \A k \in 0..15 : k \in Shifted(A) <=>
                  Differ(k + 1 \in A, 0 \in A /\ k \in {0, 13, 15})
  <1>1. \A k \in 0..15 : k \in Halved(A) <=> k + 1 \in A
    BY DEF Halved, Regs
  <1>2. Halved(A) \in Regs
    BY DEF Halved, Regs
  <1>3. Shifted(A) \in Regs
    <2>1. Polynomial \in Regs
      BY PolynomialIs DEF Regs
    <2>2. Xor(Halved(A), Polynomial) \in Regs
      BY <1>2, <2>1, XorReg
    <2> QED  BY <1>2, <2>2, Zenon DEF Shifted
  <1> QED  BY <1>1, <1>3, PolynomialIs, XorIs DEF Shifted, Differ

(* A bit of the register after two shifts, and after four.                 *)
Twice(k, A) ==
    Differ(k + 2 \in A,
           Differ(0 \in A /\ k \in {0, 12, 13, 14, 15}, 1 \in A /\ k \in {0, 13, 15}))
Fourth(k, A) ==
    Differ(k + 4 \in A, Differ(
      Differ(0 \in A /\ k \in {0, 10, 11, 14, 15}, 1 \in A /\ k \in {0, 11, 12, 14, 15}),
      Differ(2 \in A /\ k \in {0, 12, 13, 14, 15}, 3 \in A /\ k \in {0, 13, 15})))

LEMMA TwiceIs ==
    ASSUME NEW A \in Regs
    PROVE  /\ Shifted(Shifted(A)) \in Regs
           /\ \A k \in 0..15 : k \in Shifted(Shifted(A)) <=> Twice(k, A)
  <1> DEFINE B == Shifted(A)
  <1>1. /\ B \in Regs
        /\ \A k \in 0..15 : k \in B <=> Differ(k + 1 \in A, 0 \in A /\ k \in {0, 13, 15})
    BY ShiftedIs
  <1> HIDE DEF B
  <1>2. /\ Shifted(B) \in Regs
        /\ \A k \in 0..15 : k \in Shifted(B) <=> Differ(k + 1 \in B, 0 \in B /\ k \in {0, 13, 15})
    BY <1>1, ShiftedIs
  <1>3. 16 \notin A /\ 17 \notin A /\ 16 \notin B
    BY <1>1 DEF Regs
  <1>4. ASSUME NEW k \in 0..15
        PROVE  k \in Shifted(B) <=> Twice(k, A)
    <2>1. k + 1 \in 0..15 \/ k = 15
      OBVIOUS
    <2>2. (k + 1) + 1 = k + 2
      OBVIOUS
    <2> QED  BY <1>1, <1>2, <1>3, <2>1, <2>2 DEF Differ, Twice
  <1> QED  BY <1>2, <1>4 DEF B

LEMMA FourIs ==
    ASSUME NEW A \in Regs
    PROVE  LET B == Shifted(Shifted(Shifted(Shifted(A))))
           IN /\ B \in Regs
              /\ \A k \in 0..15 : k \in B <=> Fourth(k, A)
  <1> DEFINE B == Shifted(Shifted(A))
             C == Shifted(Shifted(B))
  <1>1. /\ B \in Regs
        /\ \A k \in 0..15 : k \in B <=> Twice(k, A)
    BY TwiceIs
  <1> HIDE DEF B
  <1>2. /\ C \in Regs
        /\ \A k \in 0..15 : k \in C <=> Twice(k, B)
    BY <1>1, TwiceIs
  <1> HIDE DEF C
  <1>3. \A k \in 16..19 : k \notin A /\ k \notin B
    BY <1>1 DEF Regs
  <1>4. ASSUME NEW k \in 0..15
        PROVE  k \in C <=> Fourth(k, A)
    <2>1. k + 2 \in 0..15 \/ k = 14 \/ k = 15
      OBVIOUS
    <2>2. (k + 2) + 2 = k + 4
      OBVIOUS
    <2> QED  BY <1>1, <1>2, <1>3, <2>1, <2>2 DEF Differ, Twice, Fourth
  <1> QED  BY <1>2, <1>4 DEF B, C

(* Whether the number of 1 bits of the low byte is odd; eight shifts.      *)
Odd(A) ==
    Differ(Differ(Differ(0 \in A, 1 \in A), Differ(2 \in A, 3 \in A)),
           Differ(Differ(4 \in A, 5 \in A), Differ(6 \in A, 7 \in A)))
Stepped(B, A) ==
    /\ 0 \in B <=> Differ(8 \in A, Odd(A))
    /\ 1 \in B <=> 9 \in A
    /\ 2 \in B <=> 10 \in A
    /\ 3 \in B <=> 11 \in A
    /\ 4 \in B <=> 12 \in A
    /\ 5 \in B <=> 13 \in A
    /\ 6 \in B <=> Differ(14 \in A, 0 \in A)
    /\ 7 \in B <=> Differ(15 \in A, Differ(0 \in A, 1 \in A))
    /\ 8 \in B <=> Differ(1 \in A, 2 \in A)
    /\ 9 \in B <=> Differ(2 \in A, 3 \in A)
    /\ 10 \in B <=> Differ(3 \in A, 4 \in A)
    /\ 11 \in B <=> Differ(4 \in A, 5 \in A)
    /\ 12 \in B <=> Differ(5 \in A, 6 \in A)
    /\ 13 \in B <=> Differ(6 \in A, 7 \in A)
    /\ 14 \in B <=> Differ(7 \in A, Odd(A))
    /\ 15 \in B <=> Odd(A)

LEMMA EightIs == ASSUME NEW A \in Regs PROVE Eight(A) \in Regs /\ Stepped(Eight(A), A)
  <1> DEFINE B == Shifted(Shifted(Shifted(Shifted(A))))
             C == Shifted(Shifted(Shifted(Shifted(B))))
  <1>1. /\ B \in Regs
        /\ \A k \in 0..15 : k \in B <=> Fourth(k, A)
    BY FourIs
  <1> HIDE DEF B
  <1>2. /\ C \in Regs
        /\ \A k \in 0..15 : k \in C <=> Fourth(k, B)
    BY <1>1, FourIs
  <1> HIDE DEF C
  <1>3. \A k \in 16..19 : k \notin A /\ k \notin B
    BY <1>1 DEF Regs
  <1>4. Stepped(C, A)
    BY <1>1, <1>2, <1>3 DEF Stepped, Differ, Odd, Fourth
  <1> QED  BY <1>2, <1>4 DEF B, C, Eight

(* What eight shifts make of a register, and of a difference of two.       *)
LEMMA SteppedOnce == ASSUME NEW A \in Regs, NEW B \in Regs, Stepped(B, A) PROVE B = Eight(A)
  <1>1. Eight(A) \in Regs /\ Stepped(Eight(A), A)
    BY EightIs
  <1>2. ASSUME NEW k \in 0..15 PROVE k \in B <=> k \in Eight(A)
    BY <1>1 DEF Stepped
  <1> QED  BY <1>1, <1>2, SameReg

LEMMA EightXor == ASSUME NEW A \in Regs, NEW B \in Regs
                  PROVE  Eight(Xor(A, B)) = Xor(Eight(A), Eight(B))
  <1>1. Xor(A, B) \in Regs /\ Eight(A) \in Regs /\ Eight(B) \in Regs
    BY XorReg, EightIs
  <1>2. Stepped(Eight(A), A) /\ Stepped(Eight(B), B)
    BY EightIs
  <1>3. \A k : k \in Xor(A, B) <=> Differ(k \in A, k \in B)
    BY XorIs
  <1>4. \A k : k \in Xor(Eight(A), Eight(B)) <=> Differ(k \in Eight(A), k \in Eight(B))
    BY XorIs
  <1>5. Xor(Eight(A), Eight(B)) \in Regs
    BY <1>1, XorReg
  <1> DEFINE C == Xor(A, B)
             D == Xor(Eight(A), Eight(B))
  <1> HIDE DEF C, D
  <1>6. Stepped(D, C)
    BY <1>2, <1>3, <1>4 DEF Stepped, Differ, Odd, C, D
  <1> QED  BY <1>1, <1>5, <1>6, SteppedOnce DEF C, D

LEMMA EightKeeps == ASSUME NEW A \in Regs PROVE Eight(A) = {} <=> A = {}
  <1>1. Stepped(Eight(A), A) /\ Eight(A) \in Regs
    BY EightIs
  <1>2. ASSUME Eight(A) = {}, NEW k \in A PROVE FALSE
    <2>1. k \in 0..15
      BY DEF Regs
    <2> QED  BY <1>1, <1>2, <2>1 DEF Stepped, Odd, Differ
  <1>3. ASSUME A = {}, NEW k \in Eight(A) PROVE FALSE
    <2>1. k \in 0..15
      BY <1>1 DEF Regs
    <2> QED  BY <1>1, <1>3, <2>1 DEF Stepped, Odd, Differ
  <1> QED  BY <1>2, <1>3

-----------------------------------------------------------------------------
(* The bits of numbers: of a byte, of a 16-bit word, of the value of some  *)
(* bits, and of what BitsOf and ValueOf make of each other.                *)

(* The bit of a number that weighs w.                                      *)
Binary(n, w) == (n \div w) % 2
Paired(z, x, y) ==
    /\ Binary(z, 1) = Binary(x, 1) /\ Binary(z, 2) = Binary(x, 2)
    /\ Binary(z, 4) = Binary(x, 4) /\ Binary(z, 8) = Binary(x, 8)
    /\ Binary(z, 16) = Binary(x, 16) /\ Binary(z, 32) = Binary(x, 32)
    /\ Binary(z, 64) = Binary(x, 64) /\ Binary(z, 128) = Binary(x, 128)
    /\ Binary(z, 256) = Binary(y, 1) /\ Binary(z, 512) = Binary(y, 2)
    /\ Binary(z, 1024) = Binary(y, 4) /\ Binary(z, 2048) = Binary(y, 8)
    /\ Binary(z, 4096) = Binary(y, 16) /\ Binary(z, 8192) = Binary(y, 32)
    /\ Binary(z, 16384) = Binary(y, 64) /\ Binary(z, 32768) = Binary(y, 128)

LEMMA PairBits ==
    ASSUME NEW x \in 0..255, NEW y \in 0..255, NEW z, z = x + 256 * y
    PROVE  Paired(z, x, y)
  <1>1. Binary(z, 1) = Binary(x, 1) /\ Binary(z, 256) = Binary(y, 1)
    <2>1. z \div 1 = x \div 1 + 2 * (128 * y)
      OBVIOUS
    <2>2. \A m, n \in Int : (m + 2 * n) % 2 = m % 2
      OBVIOUS
    <2>3. x \div 1 \in Int /\ 128 * y \in Int
      OBVIOUS
    <2>4. Binary(z, 1) = Binary(x, 1)
      BY <2>1, <2>2, <2>3 DEF Binary
    <2>5. z \div 256 = y \div 1
      OBVIOUS
    <2> QED  BY <2>4, <2>5 DEF Binary
  <1>2. Binary(z, 2) = Binary(x, 2) /\ Binary(z, 512) = Binary(y, 2)
    <2>1. z \div 2 = x \div 2 + 2 * (64 * y)
      OBVIOUS
    <2>2. \A m, n \in Int : (m + 2 * n) % 2 = m % 2
      OBVIOUS
    <2>3. x \div 2 \in Int /\ 64 * y \in Int
      OBVIOUS
    <2>4. Binary(z, 2) = Binary(x, 2)
      BY <2>1, <2>2, <2>3 DEF Binary
    <2>5. z \div 512 = y \div 2
      OBVIOUS
    <2> QED  BY <2>4, <2>5 DEF Binary
  <1>3. Binary(z, 4) = Binary(x, 4) /\ Binary(z, 1024) = Binary(y, 4)
    <2>1. z \div 4 = x \div 4 + 2 * (32 * y)
      OBVIOUS
    <2>2. \A m, n \in Int : (m + 2 * n) % 2 = m % 2
      OBVIOUS
    <2>3. x \div 4 \in Int /\ 32 * y \in Int
      OBVIOUS
    <2>4. Binary(z, 4) = Binary(x, 4)
      BY <2>1, <2>2, <2>3 DEF Binary
    <2>5. z \div 1024 = y \div 4
      OBVIOUS
    <2> QED  BY <2>4, <2>5 DEF Binary
  <1>4. Binary(z, 8) = Binary(x, 8) /\ Binary(z, 2048) = Binary(y, 8)
    <2>1. z \div 8 = x \div 8 + 2 * (16 * y)
      OBVIOUS
    <2>2. \A m, n \in Int : (m + 2 * n) % 2 = m % 2
      OBVIOUS
    <2>3. x \div 8 \in Int /\ 16 * y \in Int
      OBVIOUS
    <2>4. Binary(z, 8) = Binary(x, 8)
      BY <2>1, <2>2, <2>3 DEF Binary
    <2>5. z \div 2048 = y \div 8
      OBVIOUS
    <2> QED  BY <2>4, <2>5 DEF Binary
  <1>5. Binary(z, 16) = Binary(x, 16) /\ Binary(z, 4096) = Binary(y, 16)
    <2>1. z \div 16 = x \div 16 + 2 * (8 * y)
      OBVIOUS
    <2>2. \A m, n \in Int : (m + 2 * n) % 2 = m % 2
      OBVIOUS
    <2>3. x \div 16 \in Int /\ 8 * y \in Int
      OBVIOUS
    <2>4. Binary(z, 16) = Binary(x, 16)
      BY <2>1, <2>2, <2>3 DEF Binary
    <2>5. z \div 4096 = y \div 16
      OBVIOUS
    <2> QED  BY <2>4, <2>5 DEF Binary
  <1>6. Binary(z, 32) = Binary(x, 32) /\ Binary(z, 8192) = Binary(y, 32)
    <2>1. z \div 32 = x \div 32 + 2 * (4 * y)
      OBVIOUS
    <2>2. \A m, n \in Int : (m + 2 * n) % 2 = m % 2
      OBVIOUS
    <2>3. x \div 32 \in Int /\ 4 * y \in Int
      OBVIOUS
    <2>4. Binary(z, 32) = Binary(x, 32)
      BY <2>1, <2>2, <2>3 DEF Binary
    <2>5. z \div 8192 = y \div 32
      OBVIOUS
    <2> QED  BY <2>4, <2>5 DEF Binary
  <1>7. Binary(z, 64) = Binary(x, 64) /\ Binary(z, 16384) = Binary(y, 64)
    <2>1. z \div 64 = x \div 64 + 2 * (2 * y)
      OBVIOUS
    <2>2. \A m, n \in Int : (m + 2 * n) % 2 = m % 2
      OBVIOUS
    <2>3. x \div 64 \in Int /\ 2 * y \in Int
      OBVIOUS
    <2>4. Binary(z, 64) = Binary(x, 64)
      BY <2>1, <2>2, <2>3 DEF Binary
    <2>5. z \div 16384 = y \div 64
      OBVIOUS
    <2> QED  BY <2>4, <2>5 DEF Binary
  <1>8. Binary(z, 128) = Binary(x, 128) /\ Binary(z, 32768) = Binary(y, 128)
    <2>1. z \div 128 = x \div 128 + 2 * (1 * y)
      OBVIOUS
    <2>2. \A m, n \in Int : (m + 2 * n) % 2 = m % 2
      OBVIOUS
    <2>3. x \div 128 \in Int /\ 1 * y \in Int
      OBVIOUS
    <2>4. Binary(z, 128) = Binary(x, 128)
      BY <2>1, <2>2, <2>3 DEF Binary
    <2>5. z \div 32768 = y \div 128
      OBVIOUS
    <2> QED  BY <2>4, <2>5 DEF Binary
  <1> QED  BY <1>1, <1>2, <1>3, <1>4, <1>5, <1>6, <1>7, <1>8 DEF Paired

(* The bits of a number by their weights.                                  *)
BitList(n) ==
    /\ (0 \in BitsOf(n) <=> Binary(n, 1) = 1) /\ (1 \in BitsOf(n) <=> Binary(n, 2) = 1)
    /\ (2 \in BitsOf(n) <=> Binary(n, 4) = 1) /\ (3 \in BitsOf(n) <=> Binary(n, 8) = 1)
    /\ (4 \in BitsOf(n) <=> Binary(n, 16) = 1) /\ (5 \in BitsOf(n) <=> Binary(n, 32) = 1)
    /\ (6 \in BitsOf(n) <=> Binary(n, 64) = 1) /\ (7 \in BitsOf(n) <=> Binary(n, 128) = 1)
    /\ (8 \in BitsOf(n) <=> Binary(n, 256) = 1) /\ (9 \in BitsOf(n) <=> Binary(n, 512) = 1)
    /\ (10 \in BitsOf(n) <=> Binary(n, 1024) = 1) /\ (11 \in BitsOf(n) <=> Binary(n, 2048) = 1)
    /\ (12 \in BitsOf(n) <=> Binary(n, 4096) = 1) /\ (13 \in BitsOf(n) <=> Binary(n, 8192) = 1)
    /\ (14 \in BitsOf(n) <=> Binary(n, 16384) = 1) /\ (15 \in BitsOf(n) <=> Binary(n, 32768) = 1)

LEMMA BitsAre == ASSUME NEW n PROVE BitsOf(n) \in Regs /\ BitList(n)
  BY DEF BitsOf, Weights, Regs, Binary, BitList

LEMMA SixteenCases ==
    ASSUME NEW k \in 0..15
    PROVE  \/ k = 0 \/ k = 1 \/ k = 2 \/ k = 3 \/ k = 4 \/ k = 5 \/ k = 6 \/ k = 7 \/ k = 8
           \/ k = 9 \/ k = 10 \/ k = 11 \/ k = 12 \/ k = 13 \/ k = 14 \/ k = 15
  OBVIOUS

LEMMA OctetBits == ASSUME NEW n \in Octets PROVE BitsOf(n) \in SUBSET (0..7)
  <1>1. /\ Binary(n, 256) = 0 /\ Binary(n, 512) = 0 /\ Binary(n, 1024) = 0 /\ Binary(n, 2048) = 0
        /\ Binary(n, 4096) = 0 /\ Binary(n, 8192) = 0 /\ Binary(n, 16384) = 0
        /\ Binary(n, 32768) = 0
    BY DEF Octets, Binary
  <1>2. ASSUME NEW k \in BitsOf(n) PROVE k \in 0..7
    <2>1. k \in 0..15
      BY BitsAre DEF Regs
    <2> QED  BY <1>1, <2>1, BitsAre, SixteenCases DEF BitList
  <1> QED  BY <1>2

LEMMA WordBits ==
    ASSUME NEW x \in Octets, NEW y \in Octets
    PROVE  \A k \in 0..15 : k \in BitsOf(x + 256 * y) <=>
                  IF k <= 7 THEN k \in BitsOf(x) ELSE k - 8 \in BitsOf(y)
  <1> DEFINE z == x + 256 * y
  <1>1. x \in 0..255 /\ y \in 0..255 /\ z = x + 256 * y
    BY DEF Octets
  <1> HIDE DEF z
  <1>5. Paired(z, x, y)
    BY <1>1, PairBits, Zenon
  <1>6. BitList(x) /\ BitList(y) /\ BitList(z)
    BY BitsAre
  <1>2. /\ (0 \in BitsOf(z) <=> 0 \in BitsOf(x)) /\ (1 \in BitsOf(z) <=> 1 \in BitsOf(x))
        /\ (2 \in BitsOf(z) <=> 2 \in BitsOf(x)) /\ (3 \in BitsOf(z) <=> 3 \in BitsOf(x))
        /\ (4 \in BitsOf(z) <=> 4 \in BitsOf(x)) /\ (5 \in BitsOf(z) <=> 5 \in BitsOf(x))
        /\ (6 \in BitsOf(z) <=> 6 \in BitsOf(x)) /\ (7 \in BitsOf(z) <=> 7 \in BitsOf(x))
    BY <1>5, <1>6 DEF Paired, BitList
  <1>3. /\ (8 \in BitsOf(z) <=> 0 \in BitsOf(y)) /\ (9 \in BitsOf(z) <=> 1 \in BitsOf(y))
        /\ (10 \in BitsOf(z) <=> 2 \in BitsOf(y)) /\ (11 \in BitsOf(z) <=> 3 \in BitsOf(y))
        /\ (12 \in BitsOf(z) <=> 4 \in BitsOf(y)) /\ (13 \in BitsOf(z) <=> 5 \in BitsOf(y))
        /\ (14 \in BitsOf(z) <=> 6 \in BitsOf(y)) /\ (15 \in BitsOf(z) <=> 7 \in BitsOf(y))
    BY <1>5, <1>6 DEF Paired, BitList
  <1>4. ASSUME NEW k \in 0..15
        PROVE  k \in BitsOf(z) <=> IF k <= 7 THEN k \in BitsOf(x) ELSE k - 8 \in BitsOf(y)
    BY <1>2, <1>3, SixteenCases
  <1> QED  BY <1>4 DEF z

(* The byte y has the bits of A from k on.                                 *)
EightBits(y, A, k) ==
    /\ y \in Octets
    /\ (0 \in BitsOf(y) <=> k \in A) /\ (1 \in BitsOf(y) <=> k + 1 \in A)
    /\ (2 \in BitsOf(y) <=> k + 2 \in A) /\ (3 \in BitsOf(y) <=> k + 3 \in A)
    /\ (4 \in BitsOf(y) <=> k + 4 \in A) /\ (5 \in BitsOf(y) <=> k + 5 \in A)
    /\ (6 \in BitsOf(y) <=> k + 6 \in A) /\ (7 \in BitsOf(y) <=> k + 7 \in A)

LEMMA ByteOfBits == ASSUME NEW A, NEW k \in Nat PROVE EightBits(Byte(A, k), A, k)
  <1> DEFINE y == Byte(A, k)
             a == Bit(A, k)
             b == Bit(A, k + 1)
             c == Bit(A, k + 2)
             d == Bit(A, k + 3)
             e == Bit(A, k + 4)
             f == Bit(A, k + 5)
             g == Bit(A, k + 6)
             h == Bit(A, k + 7)
  <1>1. /\ a \in 0..1 /\ b \in 0..1 /\ c \in 0..1 /\ d \in 0..1
        /\ e \in 0..1 /\ f \in 0..1 /\ g \in 0..1 /\ h \in 0..1
    BY BitIs
  <1>2. /\ (a = 1 <=> k \in A) /\ (b = 1 <=> k + 1 \in A)
        /\ (c = 1 <=> k + 2 \in A) /\ (d = 1 <=> k + 3 \in A)
        /\ (e = 1 <=> k + 4 \in A) /\ (f = 1 <=> k + 5 \in A)
        /\ (g = 1 <=> k + 6 \in A) /\ (h = 1 <=> k + 7 \in A)
    BY DEF Bit
  <1>3. y = (a + 2 * b + 4 * c + 8 * d) + 16 * (e + 2 * f + 4 * g + 8 * h)
    <2>1. (k + 4) + 1 = k + 5 /\ (k + 4) + 2 = k + 6 /\ (k + 4) + 3 = k + 7
      OBVIOUS
    <2> QED  BY <2>1, Zenon DEF Byte, Digit
  <1> HIDE DEF y, a, b, c, d, e, f, g, h
  <1>4. /\ y \in 0..255
        /\ Binary(y, 1) = a /\ Binary(y, 2) = b /\ Binary(y, 4) = c /\ Binary(y, 8) = d
        /\ Binary(y, 16) = e /\ Binary(y, 32) = f /\ Binary(y, 64) = g /\ Binary(y, 128) = h
    <2>1. y \in 0..255
      BY <1>1, <1>3
    <2>2. Binary(y, 1) = a
      BY <1>1, <1>3 DEF Binary
    <2>3. Binary(y, 2) = b
      BY <1>1, <1>3 DEF Binary
    <2>4. Binary(y, 4) = c
      BY <1>1, <1>3 DEF Binary
    <2>5. Binary(y, 8) = d
      BY <1>1, <1>3 DEF Binary
    <2>6. Binary(y, 16) = e
      BY <1>1, <1>3 DEF Binary
    <2>7. Binary(y, 32) = f
      BY <1>1, <1>3 DEF Binary
    <2>8. Binary(y, 64) = g
      BY <1>1, <1>3 DEF Binary
    <2>9. Binary(y, 128) = h
      BY <1>1, <1>3 DEF Binary
    <2> QED  BY <2>1, <2>2, <2>3, <2>4, <2>5, <2>6, <2>7, <2>8, <2>9
  <1>5. /\ (0 \in BitsOf(y) <=> a = 1) /\ (1 \in BitsOf(y) <=> b = 1)
        /\ (2 \in BitsOf(y) <=> c = 1) /\ (3 \in BitsOf(y) <=> d = 1)
        /\ (4 \in BitsOf(y) <=> e = 1) /\ (5 \in BitsOf(y) <=> f = 1)
        /\ (6 \in BitsOf(y) <=> g = 1) /\ (7 \in BitsOf(y) <=> h = 1)
    BY <1>4, BitsAre DEF BitList
  <1>6. EightBits(y, A, k)
    BY <1>2, <1>4, <1>5 DEF EightBits, Octets
  <1> QED  BY <1>6 DEF y

LEMMA BitsBack == ASSUME NEW A \in Regs PROVE BitsOf(ValueOf(A)) = A
  <1> DEFINE x == Byte(A, 0)
             y == Byte(A, 8)
  <1>1. ValueOf(A) = x + 256 * y
    BY Zenon DEF ValueOf
  <1>2. EightBits(x, A, 0) /\ EightBits(y, A, 8)
    BY ByteOfBits
  <1> HIDE DEF x, y
  <1>3. x \in Octets /\ y \in Octets
    BY <1>2 DEF EightBits
  <1>4. \A k \in 0..15 : k \in BitsOf(x + 256 * y) <=>
               IF k <= 7 THEN k \in BitsOf(x) ELSE k - 8 \in BitsOf(y)
    BY <1>3, WordBits
  <1> DEFINE B == BitsOf(x + 256 * y)
  <1> HIDE DEF B
  <1>5. \A k \in 0..15 : k \in B <=> IF k <= 7 THEN k \in BitsOf(x) ELSE k - 8 \in BitsOf(y)
    BY <1>4 DEF B
  <1>6. ASSUME NEW k \in 0..15 PROVE k \in B <=> k \in A
    BY <1>2, <1>5, SixteenCases DEF EightBits
  <1>7. B \in Regs
    BY BitsAre DEF B
  <1> QED  BY <1>1, <1>6, <1>7, SameReg DEF B

LEMMA OctetBack == ASSUME NEW A \in SUBSET (0..7) PROVE ValueOf(A) \in Octets
  <1> DEFINE x == Byte(A, 0)
  <1>1. x \in Octets
    BY ByteOfBits DEF EightBits
  <1>2. Byte(A, 8) = 0
    <2>1. \A k \in 8..15 : Bit(A, k) = 0
      BY DEF Bit
    <2>2. /\ 8 + 1 = 9 /\ 8 + 2 = 10 /\ 8 + 3 = 11 /\ 8 + 4 = 12
          /\ 12 + 1 = 13 /\ 12 + 2 = 14 /\ 12 + 3 = 15
      OBVIOUS
    <2>3. /\ Bit(A, 8) = 0 /\ Bit(A, 9) = 0 /\ Bit(A, 10) = 0 /\ Bit(A, 11) = 0
          /\ Bit(A, 12) = 0 /\ Bit(A, 13) = 0 /\ Bit(A, 14) = 0 /\ Bit(A, 15) = 0
      BY <2>1
    <2>4. Digit(A, 8) = 0 + 2 * 0 + 4 * 0 + 8 * 0 /\ Digit(A, 12) = 0 + 2 * 0 + 4 * 0 + 8 * 0
      BY <2>2, <2>3, Zenon DEF Digit
    <2>5. Byte(A, 8) = Digit(A, 8) + 16 * Digit(A, 12)
      BY <2>2, Zenon DEF Byte
    <2> QED  BY <2>4, <2>5
  <1>3. ValueOf(A) = x + 256 * 0
    BY <1>2, Zenon DEF ValueOf
  <1> HIDE DEF x
  <1>4. ValueOf(A) = x
    BY <1>1, <1>3 DEF Octets
  <1> QED  BY <1>1, <1>4

-----------------------------------------------------------------------------
(* crc16_usb is a function of the bytes that are fed to the register: the  *)
(* recursive function in CrcBits has the values of Runs (protocol.py:42).  *)

(* The register of crc16_usb after each of the first n bytes.              *)
Runs(g, data, n) ==
    /\ g \in [0..n -> Regs] /\ g[0] = 0..15
    /\ \A i \in 1..n : g[i] = Eight(Xor(g[i - 1], BitsOf(data[i])))

LEMMA NextReg == ASSUME NEW A \in Regs, NEW n PROVE Eight(Xor(A, BitsOf(n))) \in Regs
  BY BitsAre, XorReg, EightIs

LEMMA SomeRuns == ASSUME NEW n \in Nat, NEW data PROVE \E g : Runs(g, data, n)
  <1> DEFINE S == {m \in Nat : \E g : Runs(g, data, m)}
  <1>1. 0 \in S
    <2> DEFINE g == [i \in 0..0 |-> 0..15]
    <2>1. Runs(g, data, 0)
      BY DEF Runs, Regs
    <2> QED  BY <2>1
  <1>2. ASSUME NEW m \in Nat, m \in S PROVE m + 1 \in S
    <2>1. PICK g : Runs(g, data, m)
      BY <1>2
    <2> DEFINE new == Eight(Xor(g[m], BitsOf(data[m + 1])))
               h == [i \in 0..m + 1 |-> IF i <= m THEN g[i] ELSE new]
    <2>2. g \in [0..m -> Regs] /\ g[m] \in Regs
      BY <2>1 DEF Runs
    <2>3. new \in Regs
      BY <2>2, NextReg
    <2> HIDE DEF new
    <2>4. h \in [0..m + 1 -> Regs]
      BY <2>2, <2>3
    <2>5. h[0] = 0..15
      BY <2>1 DEF Runs
    <2>6. ASSUME NEW i \in 1..m + 1 PROVE h[i] = Eight(Xor(h[i - 1], BitsOf(data[i])))
      <3>1. CASE i <= m
        <4>1. i \in 1..m /\ i - 1 \in 0..m
          BY <3>1
        <4>2. h[i] = g[i] /\ h[i - 1] = g[i - 1]
          BY <3>1, <4>1
        <4> QED  BY <2>1, <4>1, <4>2 DEF Runs
      <3>2. CASE i = m + 1
        <4>1. h[i] = new /\ h[i - 1] = g[m]
          BY <3>2
        <4> QED  BY <3>2, <4>1 DEF new
      <3> QED  BY <3>1, <3>2
    <2> HIDE DEF h
    <2>7. Runs(h, data, m + 1)
      BY <2>4, <2>5, <2>6 DEF Runs
    <2> QED  BY <2>7
  <1> HIDE DEF S
  <1>3. n \in S
    BY <1>1, <1>2, AllNaturals
  <1> QED  BY <1>3 DEF S

(* The checksum is the rest of the last register.                          *)
LEMMA CrcIs ==
    ASSUME NEW n \in Nat, NEW data, Len(data) = n
    PROVE  \E g : Runs(g, data, n) /\ CrcBits(data) = (0..15) \ g[n]
  <1> DEFINE eight == [A \in SUBSET (0..15) |-> Eight(A)]
             IsCrc(crc) == crc = [i \in 0..n |->
                IF i = 0 THEN 0..15 ELSE eight[Xor(crc[i - 1], BitsOf(data[i]))]]
             crc == CHOOSE crc : IsCrc(crc)
  <1>1. CrcBits(data) = (0..15) \ crc[n]
    BY Zenon DEF CrcBits, Eight
  <1>2. \A A \in Regs : eight[A] = Eight(A)
    BY DEF Regs
  <1> HIDE DEF eight
  <1>3. \E g : IsCrc(g)
    <2>1. PICK g : Runs(g, data, n)
      BY SomeRuns
    <2>2. g \in [0..n -> Regs]
      BY <2>1 DEF Runs
    <2>3. ASSUME NEW i \in 0..n
          PROVE  g[i] = IF i = 0 THEN 0..15 ELSE eight[Xor(g[i - 1], BitsOf(data[i]))]
      <3>1. CASE i = 0
        BY <2>1, <3>1 DEF Runs
      <3>2. CASE i # 0
        <4>1. i \in 1..n /\ i - 1 \in 0..n
          BY <3>2
        <4>2. Xor(g[i - 1], BitsOf(data[i])) \in Regs
          BY <2>2, <4>1, BitsAre, XorReg
        <4> QED  BY <1>2, <2>1, <3>2, <4>1, <4>2 DEF Runs
      <3> QED  BY <3>1, <3>2
    <2> DEFINE F(i) == IF i = 0 THEN 0..15 ELSE eight[Xor(g[i - 1], BitsOf(data[i]))]
    <2>4. g = [i \in 0..n |-> g[i]] /\ \A i \in 0..n : g[i] = F(i)
      BY <2>2, <2>3
    <2>5. IsCrc(g)
      <3> HIDE DEF F
      <3>1. g = [i \in 0..n |-> F(i)]
        BY <2>4
      <3> QED  BY <3>1, Zenon DEF F
    <2> QED  BY <2>5
  <1>4. IsCrc(crc)
    BY <1>3
  <1> HIDE DEF crc
  <1> DEFINE S == {i \in Nat : i <= n => crc[i] \in Regs}
  <1>5. 0 \in S
    BY <1>4 DEF Regs
  <1>6. ASSUME NEW i \in Nat, i \in S PROVE i + 1 \in S
    <2> SUFFICES ASSUME i + 1 <= n PROVE crc[i + 1] \in Regs
      OBVIOUS
    <2>1. crc[i] \in Regs /\ i + 1 \in 0..n /\ i + 1 # 0 /\ (i + 1) - 1 = i
      BY <1>6
    <2>2. crc[i + 1] = eight[Xor(crc[i], BitsOf(data[i + 1]))]
      BY <1>4, <2>1
    <2>3. Xor(crc[i], BitsOf(data[i + 1])) \in Regs
      BY <2>1, BitsAre, XorReg
    <2> QED  BY <1>2, <2>2, <2>3, EightIs
  <1>7. \A i \in 0..n : crc[i] \in Regs
    <2> HIDE DEF S
    <2>1. \A i \in Nat : i \in S
      BY <1>5, <1>6, AllNaturals
    <2> QED  BY <2>1 DEF S
  <1>8. Runs(crc, data, n)
    <2>1. crc \in [0..n -> Regs]
      BY <1>4, <1>7
    <2>2. crc[0] = 0..15
      BY <1>4
    <2>3. ASSUME NEW i \in 1..n PROVE crc[i] = Eight(Xor(crc[i - 1], BitsOf(data[i])))
      <3>1. i \in 0..n /\ i # 0 /\ i - 1 \in 0..n
        OBVIOUS
      <3>2. crc[i] = eight[Xor(crc[i - 1], BitsOf(data[i]))]
        BY <1>4, <3>1
      <3>3. Xor(crc[i - 1], BitsOf(data[i])) \in Regs
        BY <1>7, <3>1, BitsAre, XorReg
      <3> QED  BY <1>2, <3>2, <3>3
    <2> QED  BY <2>1, <2>2, <2>3 DEF Runs
  <1> QED  BY <1>1, <1>8

-----------------------------------------------------------------------------
(* A register that is fed bytes; what zeros make of it.  Passes(A, m, B)   *)
(* is written down as a table of registers, one for each byte of zeros,    *)
(* that the prover checks line by line.                                    *)

(* A register that is fed with F[1], F[2], ... *)
Fed(x, F, n) ==
    /\ x \in [0..n -> Regs]
    /\ \A i \in 1..n : x[i] = Eight(Xor(x[i - 1], F[i]))

LEMMA NoneXor == \A A : Xor(A, {}) = A /\ Xor({}, A) = A /\ Xor(A, A) = {}
  BY DEF Xor

Silent(F, k, m) == \A i \in k + 1..m : F[i] = {}

(* Fed with nothing, it stays empty if it is, and otherwise never gets empty. *)
LEMMA FedNothing ==
    ASSUME NEW n \in Nat, NEW x, NEW F, Fed(x, F, n), NEW k \in 0..n,
           NEW m \in k..n, Silent(F, k, m)
    PROVE  x[m] = {} <=> x[k] = {}
  <1> DEFINE S == {j \in Nat : k + j <= m => (x[k + j] = {} <=> x[k] = {})}
  <1>1. 0 \in S
    OBVIOUS
  <1>2. ASSUME NEW j \in Nat, j \in S PROVE j + 1 \in S
    <2> SUFFICES ASSUME k + (j + 1) <= m PROVE x[k + (j + 1)] = {} <=> x[k] = {}
      OBVIOUS
    <2>1. PICK i \in 1..n : i = k + (j + 1)
      OBVIOUS
    <2>2. k + j = i - 1 /\ i - 1 \in 0..n /\ i \in k + 1..m /\ k + j <= m
      BY <2>1
    <2>3. x[i - 1] = {} <=> x[k] = {}
      BY <1>2, <2>2
    <2>4. x[i] = Eight(Xor(x[i - 1], F[i])) /\ F[i] = {} /\ x[i - 1] \in Regs
      BY <2>2 DEF Fed, Silent
    <2>5. x[i] = Eight(x[i - 1])
      BY <2>4, NoneXor
    <2> QED  BY <2>1, <2>3, <2>4, <2>5, EightKeeps
  <1> HIDE DEF S
  <1>3. \A j \in Nat : j \in S
    BY <1>1, <1>2, AllNaturals
  <1>4. m - k \in Nat /\ m = k + (m - k)
    OBVIOUS
  <1> QED  BY <1>3, <1>4 DEF S

(* A difference in one byte, or in the last bit of one and the first of    *)
(* the next, does not go away.                                             *)
LEMMA SevenIs == Eight({7}) = {0, 13, 15}
  <1>1. Stepped({0, 13, 15}, {7})
    BY DEF Stepped, Odd, Differ
  <1>2. {7} \in Regs /\ {0, 13, 15} \in Regs
    BY DEF Regs
  <1> QED  BY <1>1, <1>2, SteppedOnce

LEMMA BurstLives ==
    ASSUME NEW n \in Nat, NEW x, NEW F, Fed(x, F, n), x[0] = {}, NEW p \in 1..n,
           \A i \in 1..p - 1 : F[i] = {}, F[p] \in Regs, F[p] # {},
           p + 1 <= n => F[p + 1] = {} \/ (F[p] = {7} /\ F[p + 1] = {0}),
           \A i \in p + 2..n : F[i] = {}
    PROVE  x[n] # {}
  <1>1. x[p - 1] = {}
    <2>1. 0 \in 0..n /\ p - 1 \in 0..n
      OBVIOUS
    <2>2. Silent(F, 0, p - 1)
      BY DEF Silent
    <2> QED  BY <2>1, <2>2, FedNothing
  <1>2. x[p] = Eight(F[p]) /\ x[p] # {} /\ x[p] \in Regs
    <2>1. x[p] = Eight(Xor(x[p - 1], F[p]))
      BY DEF Fed
    <2>2. x[p] = Eight(F[p])
      BY <1>1, <2>1, NoneXor
    <2> QED  BY <2>2, EightKeeps, EightIs
  <1>3. CASE p = n
    BY <1>2, <1>3
  <1>4. CASE p # n
    <2>1. /\ p + 1 \in 0..n /\ p + 1 \in 1..n /\ n \in p + 1..n /\ (p + 1) - 1 = p
          /\ (p + 1) + 1 = p + 2
      BY <1>4
    <2>2. x[p + 1] = Eight(Xor(x[p], F[p + 1]))
      BY <2>1 DEF Fed
    <2>3. x[p + 1] # {}
      <3>1. CASE F[p + 1] = {}
        BY <1>2, <2>2, <3>1, NoneXor, EightKeeps
      <3>2. CASE F[p] = {7} /\ F[p + 1] = {0}
        <4>1. x[p] = {0, 13, 15}
          BY <1>2, <3>2, SevenIs
        <4>2. Xor(x[p], F[p + 1]) \in Regs /\ 13 \in Xor(x[p], F[p + 1])
          BY <3>2, <4>1 DEF Xor, Regs
        <4> QED  BY <2>2, <4>2, EightKeeps
      <3> QED  BY <2>1, <3>1, <3>2
    <2>4. Silent(F, p + 1, n)
      BY <2>1 DEF Silent
    <2> QED  BY <2>1, <2>3, <2>4, FedNothing
  <1> QED  BY <1>3, <1>4

(* B is what the register A becomes by m bytes of zeros: T writes it down. *)
Passes(A, m, B) ==
    \E t \in [0..m -> Regs] : /\ t[0] = A /\ t[m] = B
                              /\ \A i \in 1..m : t[i] = Eight(t[i - 1])
(* T is a table of the registers.                                          *)
Chain(T, m) ==
    /\ \A j \in 1..m + 1 : \A k \in T[j] : k \in 0..15
    /\ \A j \in 1..m : Stepped(T[j + 1], T[j])

LEMMA ChainPasses ==
    ASSUME NEW m \in Nat, NEW T, Chain(T, m) PROVE Passes(T[1], m, T[m + 1])
  <1> DEFINE t == [i \in 0..m |-> T[i + 1]]
  <1>1. \A j \in 1..m + 1 : T[j] \in Regs
    BY DEF Chain, Regs
  <1>2. t \in [0..m -> Regs] /\ t[0] = T[1] /\ t[m] = T[m + 1]
    <2>1. \A i \in 0..m : i + 1 \in 1..m + 1
      OBVIOUS
    <2> QED  BY <1>1, <2>1
  <1>3. ASSUME NEW i \in 1..m PROVE t[i] = Eight(t[i - 1])
    <2>1. i \in 1..m + 1 /\ i + 1 \in 1..m + 1 /\ i \in 0..m /\ i - 1 \in 0..m
      OBVIOUS
    <2>2. t[i] = T[i + 1] /\ t[i - 1] = T[i]
      BY <2>1
    <2>3. Stepped(T[i + 1], T[i])
      BY DEF Chain
    <2> QED  BY <1>1, <2>1, <2>2, <2>3, SteppedOnce
  <1> HIDE DEF t
  <1> QED  BY <1>2, <1>3 DEF Passes

(* Byte p makes it A, and the bytes after it, up to e, are zeros.          *)
Coasts(x, F, n, p, e, A, B) ==
    /\ n \in Nat /\ Fed(x, F, n) /\ p \in 1..n /\ e \in p..n /\ Silent(F, p, e)
    /\ Xor(x[p - 1], F[p]) = A /\ Passes(A, e - (p - 1), B)

LEMMA FedPasses ==
    ASSUME NEW x, NEW F, NEW n, NEW p, NEW e, NEW A, NEW B, Coasts(x, F, n, p, e, A, B)
    PROVE  x[e] = B
  <1> DEFINE k == p - 1
             m == e - k
  <1>6. /\ n \in Nat /\ Fed(x, F, n) /\ p \in 1..n /\ e \in p..n /\ Silent(F, p, e)
        /\ Xor(x[k], F[p]) = A /\ Passes(A, m, B)
    BY DEF Coasts
  <1>7. k = p - 1 /\ m = e - k /\ k \in Nat /\ m \in Nat
    BY <1>6
  <1> HIDE DEF k, m
  <1>1. PICK t \in [0..m -> Regs] : /\ t[0] = A /\ t[m] = B
                                    /\ \A i \in 1..m : t[i] = Eight(t[i - 1])
    BY <1>6 DEF Passes
  <1> DEFINE S == {j \in Nat : j + 1 <= m => x[p + j] = t[j + 1]}
  <1>2. 0 \in S
    <2>1. p \in 1..n /\ 1 \in 1..m /\ 1 - 1 = 0 /\ p + 0 = p
      BY <1>6, <1>7
    <2>2. x[p] = Eight(Xor(x[k], F[p]))
      BY <1>6, <1>7, <2>1 DEF Fed
    <2>3. t[1] = Eight(t[0])
      BY <1>1, <2>1
    <2> QED  BY <1>1, <1>6, <2>1, <2>2, <2>3
  <1>3. ASSUME NEW j \in Nat, j \in S PROVE j + 1 \in S
    <2> SUFFICES ASSUME (j + 1) + 1 <= m PROVE x[p + (j + 1)] = t[(j + 1) + 1]
      OBVIOUS
    <2>1. PICK i \in 1..m : i = j + 1
      BY <1>6, <1>7
    <2>2. /\ p + i \in 1..n /\ (p + i) - 1 = p + j /\ i + 1 \in 1..m
          /\ (i + 1) - 1 = i /\ p + i \in p + 1..e
      BY <1>6, <1>7, <2>1
    <2>3. x[p + j] = t[i]
      BY <1>3, <2>1
    <2>4. x[p + i] = Eight(Xor(x[p + j], F[p + i])) /\ F[p + i] = {}
      BY <1>6, <2>2 DEF Fed, Silent
    <2>5. x[p + i] = Eight(x[p + j])
      BY <2>4, NoneXor
    <2>6. t[i + 1] = Eight(t[i])
      BY <1>1, <2>2
    <2> QED  BY <2>1, <2>3, <2>5, <2>6
  <1> HIDE DEF S
  <1>4. m - 1 \in Nat /\ (m - 1) + 1 = m /\ p + (m - 1) = e
    BY <1>6, <1>7
  <1>5. m - 1 \in S
    BY <1>2, <1>3, <1>4, AllNaturals
  <1> QED  BY <1>1, <1>4, <1>5 DEF S

LEMMA PassesOn ==
    ASSUME NEW k \in Nat, NEW m \in Nat, NEW A, NEW B, NEW C, Passes(A, k, B), Passes(B, m, C)
    PROVE  Passes(A, k + m, C)
  <1>1. PICK s \in [0..k -> Regs] : /\ s[0] = A /\ s[k] = B
                                    /\ \A i \in 1..k : s[i] = Eight(s[i - 1])
    BY DEF Passes
  <1>2. PICK t \in [0..m -> Regs] : /\ t[0] = B /\ t[m] = C
                                    /\ \A i \in 1..m : t[i] = Eight(t[i - 1])
    BY DEF Passes
  <1> DEFINE u == [i \in 0..k + m |-> IF i <= k THEN s[i] ELSE t[i - k]]
  <1>3. u \in [0..k + m -> Regs]
    <2>1. \A i \in 0..k + m : IF i <= k THEN i \in 0..k ELSE i - k \in 0..m
      OBVIOUS
    <2> QED  BY <2>1
  <1>4. u[0] = A /\ u[k + m] = C
    <2>1. 0 \in 0..k + m /\ 0 <= k /\ k + m \in 0..k + m
      OBVIOUS
    <2>2. CASE m = 0
      BY <1>1, <1>2, <2>1, <2>2
    <2>3. CASE m # 0
      <3>1. ~(k + m <= k) /\ (k + m) - k = m
        BY <2>3
      <3> QED  BY <1>1, <1>2, <2>1, <3>1
    <2> QED  BY <2>2, <2>3
  <1>5. ASSUME NEW i \in 1..k + m PROVE u[i] = Eight(u[i - 1])
    <2>1. i \in 0..k + m /\ i - 1 \in 0..k + m
      OBVIOUS
    <2>2. CASE i <= k
      <3>1. i \in 1..k /\ i - 1 <= k
        BY <2>2
      <3> QED  BY <1>1, <2>1, <2>2, <3>1
    <2>3. CASE i = k + 1
      <3>1. i - k = 1 /\ i - 1 = k /\ ~(i <= k) /\ i - 1 <= k /\ 1 \in 1..m /\ 1 - 1 = 0
        BY <2>3
      <3>2. u[i] = t[1] /\ u[i - 1] = s[k] /\ t[1] = Eight(t[0])
        BY <1>2, <2>1, <3>1
      <3> QED  BY <1>1, <1>2, <3>2
    <2>4. CASE i > k + 1
      <3>1. i - k \in 1..m /\ ~(i <= k) /\ ~(i - 1 <= k) /\ (i - k) - 1 = (i - 1) - k
        BY <2>4
      <3> QED  BY <1>2, <2>1, <3>1
    <2> QED  BY <2>2, <2>3, <2>4
  <1> HIDE DEF u
  <1> QED  BY <1>3, <1>4, <1>5 DEF Passes

-----------------------------------------------------------------------------
(* What a damage does to the bytes of a frame.                             *)

(* A byte is what its bits make.                                           *)
LEMMA OctetIs == ASSUME NEW n \in Octets PROVE ValueOf(BitsOf(n)) = n
  <1> DEFINE A == BitsOf(n)
             y == ValueOf(A)
  <1>1. A \in SUBSET (0..7) /\ A \in Regs
    BY OctetBits, BitsAre
  <1>2. y \in Octets
    BY <1>1, OctetBack
  <1>3. BitsOf(y) = A
    BY <1>1, BitsBack
  <1>4. BitList(y) /\ BitList(n)
    BY BitsAre
  <1> HIDE DEF y
  <1>5. \A x \in Octets : /\ Binary(x, 1) \in {0, 1} /\ Binary(x, 2) \in {0, 1}
                          /\ Binary(x, 4) \in {0, 1} /\ Binary(x, 8) \in {0, 1}
                          /\ Binary(x, 16) \in {0, 1} /\ Binary(x, 32) \in {0, 1}
                          /\ Binary(x, 64) \in {0, 1} /\ Binary(x, 128) \in {0, 1}
    BY DEF Binary, Octets
  <1>6. ASSUME NEW x \in Octets
        PROVE  x = Binary(x, 1) + 2 * Binary(x, 2) + 4 * Binary(x, 4) + 8 * Binary(x, 8)
               + 16 * Binary(x, 16) + 32 * Binary(x, 32) + 64 * Binary(x, 64)
               + 128 * Binary(x, 128)
    <2>1. x \in Nat /\ x <= 255
      BY DEF Octets
    <2>2. x = Binary(x, 1) + 2 * (x \div 2)
      BY <2>1 DEF Binary
    <2>3. x \div 2 = Binary(x, 2) + 2 * (x \div 4)
      BY <2>1 DEF Binary
    <2>4. x \div 4 = Binary(x, 4) + 2 * (x \div 8)
      BY <2>1 DEF Binary
    <2>5. x \div 8 = Binary(x, 8) + 2 * (x \div 16)
      BY <2>1 DEF Binary
    <2>6. x \div 16 = Binary(x, 16) + 2 * (x \div 32)
      BY <2>1 DEF Binary
    <2>7. x \div 32 = Binary(x, 32) + 2 * (x \div 64)
      BY <2>1 DEF Binary
    <2>8. x \div 64 = Binary(x, 64) + 2 * Binary(x, 128)
      BY <2>1 DEF Binary
    <2> DEFINE q == x \div 2
               r == x \div 4
               s == x \div 8
               t == x \div 16
               u == x \div 32
               v == x \div 64
    <2>9. /\ q \in Int /\ r \in Int /\ s \in Int /\ t \in Int /\ u \in Int /\ v \in Int
          /\ Binary(x, 1) \in Int /\ Binary(x, 2) \in Int /\ Binary(x, 4) \in Int
          /\ Binary(x, 8) \in Int /\ Binary(x, 16) \in Int /\ Binary(x, 32) \in Int
          /\ Binary(x, 64) \in Int /\ Binary(x, 128) \in Int
      BY <2>1 DEF Binary
    <2> HIDE DEF q, r, s, t, u, v
    <2> QED  BY <2>1, <2>2, <2>3, <2>4, <2>5, <2>6, <2>7, <2>8, <2>9 DEF q, r, s, t, u, v
  <1>7. /\ Binary(y, 1) = Binary(n, 1) /\ Binary(y, 2) = Binary(n, 2)
        /\ Binary(y, 4) = Binary(n, 4) /\ Binary(y, 8) = Binary(n, 8)
        /\ Binary(y, 16) = Binary(n, 16) /\ Binary(y, 32) = Binary(n, 32)
        /\ Binary(y, 64) = Binary(n, 64) /\ Binary(y, 128) = Binary(n, 128)
    BY <1>2, <1>3, <1>4, <1>5 DEF BitList
  <1>8. y = n
    BY <1>2, <1>6, <1>7
  <1> QED  BY <1>8 DEF y

(* The bits of byte i that are damaged, and what the damage does to it.    *)
Flips(bits, i) == {b - 8 * (i - 1) : b \in bits} \cap 0..7

(* d is f with the bits flipped, and nothing else changed.                 *)
Harmed(f, d, bits) ==
    /\ f \in Seq(Octets) /\ d \in Seq(Octets) /\ Len(d) = Len(f)
    /\ \A i \in 1..Len(f) : /\ BitsOf(d[i]) = Xor(BitsOf(f[i]), Flips(bits, i))
                            /\ Flips(bits, i) = {} => d[i] = f[i]

LEMMA DamagedIs ==
    ASSUME NEW f \in Seq(Octets), NEW bits PROVE Harmed(f, Damaged(f, bits), bits)
  <1> DEFINE d == Damaged(f, bits)
  <1>1. d = [i \in 1..Len(f) |-> ValueOf(Xor(BitsOf(f[i]), Flips(bits, i)))]
    BY Zenon DEF Damaged, Flips
  <1> HIDE DEF d
  <1>2. ASSUME NEW i \in 1..Len(f)
        PROVE  /\ ValueOf(Xor(BitsOf(f[i]), Flips(bits, i))) \in Octets
               /\ BitsOf(ValueOf(Xor(BitsOf(f[i]), Flips(bits, i)))) =
                      Xor(BitsOf(f[i]), Flips(bits, i))
               /\ Flips(bits, i) = {} => ValueOf(Xor(BitsOf(f[i]), Flips(bits, i))) = f[i]
    <2>1. f[i] \in Octets
      BY OctetsOf
    <2>2. BitsOf(f[i]) \in SUBSET (0..7)
      BY <2>1, OctetBits
    <2>3. Xor(BitsOf(f[i]), Flips(bits, i)) \in SUBSET (0..7)
      BY <2>2 DEF Xor, Flips
    <2>4. \A A \in SUBSET (0..7) : A \in Regs
      BY DEF Regs
    <2> QED  BY <2>1, <2>3, <2>4, OctetBack, BitsBack, OctetIs, NoneXor
  <1>3. d \in [1..Len(f) -> Octets]
    BY <1>1, <1>2
  <1>4. d \in Seq(Octets) /\ Len(d) = Len(f)
    BY <1>3
  <1>5. \A i \in 1..Len(f) : d[i] = ValueOf(Xor(BitsOf(f[i]), Flips(bits, i)))
    BY <1>1
  <1> QED  BY <1>2, <1>4, <1>5 DEF d, Harmed

(* One bit or two neighbours: of byte q, and the last one of q and the     *)
(* first one of the next.                                                  *)
Burst(bits, q) ==
    /\ Flips(bits, q) # {}
    /\ Flips(bits, q + 1) = {} \/ (Flips(bits, q) = {7} /\ Flips(bits, q + 1) = {0})
    /\ \A i \in Int : i # q /\ i # q + 1 => Flips(bits, i) = {}

LEMMA FlipsIn == \A bits, i : Flips(bits, i) \in Regs
  BY DEF Flips, Regs

LEMMA FlipIs ==
    ASSUME NEW bits \in SUBSET Int, NEW i \in Int, NEW k
    PROVE  k \in Flips(bits, i) <=> k \in 0..7 /\ k + 8 * (i - 1) \in bits
  <1>1. ASSUME k \in Flips(bits, i) PROVE k \in 0..7 /\ k + 8 * (i - 1) \in bits
    <2>1. k \in 0..7 /\ \E b \in bits : k = b - 8 * (i - 1)
      BY <1>1 DEF Flips
    <2>2. PICK b \in bits : k = b - 8 * (i - 1)
      BY <2>1
    <2>3. b = k + 8 * (i - 1)
      BY <2>2
    <2> QED  BY <2>1, <2>3
  <1>2. ASSUME k \in 0..7, k + 8 * (i - 1) \in bits PROVE k \in Flips(bits, i)
    <2>1. (k + 8 * (i - 1)) - 8 * (i - 1) = k
      BY <1>2
    <2> QED  BY <1>2, <2>1 DEF Flips
  <1> QED  BY <1>1, <1>2

LEMMA OnlyOne == ASSUME NEW P, NEW c, P # {}, \A k \in P : k = c PROVE P = {c}
  OBVIOUS

LEMMA DamageIs ==
    ASSUME NEW bits \in Damages
    PROVE  \E b \in 0..479 : bits = {b} \/ bits = {b, b + 1}
  <1> DEFINE Single == {{b} : b \in 0..479}
             Double == {{b, b + 1} : b \in 0..478}
             Goal == \E b \in 0..479 : bits = {b} \/ bits = {b, b + 1}
  <1>1. ASSUME bits \in Single PROVE Goal
    <2>1. PICK b \in 0..479 : bits = {b}
      BY <1>1
    <2> WITNESS b \in 0..479
    <2> QED  BY <2>1
  <1>2. ASSUME bits \in Double PROVE Goal
    <2>1. PICK b \in 0..478 : bits = {b, b + 1}
      BY <1>2
    <2>2. b \in 0..479
      OBVIOUS
    <2> WITNESS b \in 0..479
    <2> QED  BY <2>1
  <1>3. bits \in Single \cup Double
    BY DEF Damages
  <1> HIDE DEF Single, Double, Goal
  <1>4. Goal
    BY <1>1, <1>2, <1>3
  <1> QED  BY <1>4 DEF Goal

LEMMA Bursts == ASSUME NEW bits \in Damages PROVE \E q \in 1..60 : Burst(bits, q)
  <1>1. PICK b \in 0..479 : bits = {b} \/ bits = {b, b + 1}
    BY DamageIs
  <1> DEFINE q == b \div 8 + 1
             r == b % 8
  <1>2. q \in 1..60 /\ r \in 0..7 /\ b = r + 8 * (q - 1) /\ bits \in SUBSET Int
    BY <1>1
  <1> HIDE DEF q, r
  <1>3. ASSUME NEW i \in Int, NEW k \in 0..7
        PROVE  /\ k + 8 * (i - 1) = b <=> i = q /\ k = r
               /\ k + 8 * (i - 1) = b + 1 <=> IF r = 7 THEN i = q + 1 /\ k = 0
                                              ELSE i = q /\ k = r + 1
    <2>1. b \in Int /\ q \in Int
      BY <1>2
    <2>2. k + 8 * (i - 1) = b <=> i = q /\ k = r
      BY <1>2
    <2>3. k + 8 * (i - 1) = b + 1 <=> IF r = 7 THEN i = q + 1 /\ k = 0
                                      ELSE i = q /\ k = r + 1
      BY <1>2
    <2> QED  BY <2>2, <2>3
  <1>4. ASSUME NEW i \in Int, NEW k \in Flips(bits, i)
        PROVE  i = q \/ (i = q + 1 /\ r = 7 /\ k = 0 /\ bits = {b, b + 1})
    <2>1. k \in 0..7 /\ k + 8 * (i - 1) \in bits
      BY <1>2, FlipIs
    <2> QED  BY <1>1, <1>3, <2>1
  <1>5. r \in Flips(bits, q)
    BY <1>1, <1>2, FlipIs
  <1>6. ASSUME NEW k \in Flips(bits, q), bits = {b, b + 1}, r = 7 PROVE k = 7
    <2>1. k \in 0..7 /\ k + 8 * (q - 1) \in bits
      BY <1>2, FlipIs
    <2> QED  BY <1>2, <1>3, <1>6, <2>1
  <1>7. \A i \in Int : i # q /\ i # q + 1 => Flips(bits, i) = {}
    BY <1>4
  <1>9. Flips(bits, q) # {}
    BY <1>5
  <1>8. Flips(bits, q + 1) # {} => Flips(bits, q) = {7} /\ Flips(bits, q + 1) = {0}
    <2> SUFFICES ASSUME Flips(bits, q + 1) # {}
                 PROVE  Flips(bits, q) = {7} /\ Flips(bits, q + 1) = {0}
      OBVIOUS
    <2>1. q + 1 \in Int /\ q + 1 # q
      BY <1>2
    <2>2. r = 7 /\ bits = {b, b + 1} /\ \A k \in Flips(bits, q + 1) : k = 0
      BY <1>4, <2>1
    <2>3. \A k \in Flips(bits, q) : k = 7
      BY <1>6, <2>2
    <2>4. Flips(bits, q) = {7}
      BY <1>9, <2>3, OnlyOne
    <2>5. Flips(bits, q + 1) = {0}
      BY <2>2, OnlyOne
    <2> QED  BY <2>4, <2>5
  <1>10. Burst(bits, q)
    BY <1>7, <1>8, <1>9, Zenon DEF Burst
  <1> QED  BY <1>2, <1>10

-----------------------------------------------------------------------------
(* What a checksum is computed from, and what two buffers that both pass   *)
(* it have in common: the difference of their registers is fed the damage, *)
(* and ends as the damage of the checksum's own bytes.                     *)

(* What a checksum is computed from: bytes from + 1..from + n of a buffer, *)
(* the checksum's own ones, at + 1 and at + 2, as zeros.                   *)
Feed(b, from, at, n) ==
    [i \in 1..n |-> IF from + i - 1 \in {at, at + 1} THEN {} ELSE BitsOf(b[from + i])]
Summed(g, b, from, at, n) ==
    /\ Fed(g, Feed(b, from, at, n), n) /\ g[0] = 0..15
    /\ (0..15) \ g[n] = BitsOf(WordAt(b, at))

LEMMA ZeroBits == BitsOf(0) = {}
  <1>1. \A w \in {1, 2, 4, 8, 16, 32, 64, 128, 256, 512, 1024, 2048, 4096, 8192, 16384, 32768} :
           0 \div w = 0
    OBVIOUS
  <1>2. \A k \in 0..15 : Weights[k + 1] \in
           {1, 2, 4, 8, 16, 32, 64, 128, 256, 512, 1024, 2048, 4096, 8192, 16384, 32768}
    BY DEF Weights
  <1> QED  BY <1>1, <1>2 DEF BitsOf

LEMMA SectionIs ==
    ASSUME NEW b \in Seq(Int), NEW from \in Nat, NEW to \in from..Len(b), NEW at \in Nat,
           Intact(b, from, to, at)
    PROVE  \E g : Summed(g, b, from, at, to - from)
  <1> DEFINE n == to - from
             u == Untokened(b, from, to, at)
             F == Feed(b, from, at, n)
  <1>1. n \in Nat
    OBVIOUS
  <1>2. Sized(u, n) /\ Cleared(u, b, from, to, at)
    BY UntokenedIs
  <1>3. \A i \in 1..n : F[i] = BitsOf(u[i])
    <2> SUFFICES ASSUME NEW i \in 1..n PROVE F[i] = BitsOf(u[i])
      OBVIOUS
    <2>1. u[i] = IF from + i - 1 \in {at, at + 1} THEN 0 ELSE b[from + i]
      BY <1>2 DEF Cleared
    <2>2. F[i] = IF from + i - 1 \in {at, at + 1} THEN {} ELSE BitsOf(b[from + i])
      BY DEF Feed
    <2> HIDE DEF u, F
    <2> QED  BY <2>1, <2>2, ZeroBits
  <1>4. Len(u) = n
    BY <1>2 DEF Sized
  <1>5. Crc16(u) = WordAt(b, at)
    BY DEF Intact
  <1> HIDE DEF n, u, F
  <1>6. PICK g : Runs(g, u, n) /\ CrcBits(u) = (0..15) \ g[n]
    BY <1>1, <1>4, CrcIs
  <1>7. Fed(g, F, n) /\ g[0] = 0..15
    BY <1>3, <1>6 DEF Runs, Fed
  <1>8. CrcBits(u) \in Regs
    BY <1>6 DEF Regs
  <1>9. BitsOf(WordAt(b, at)) = CrcBits(u)
    BY <1>5, <1>8, BitsBack DEF Crc16
  <1>10. Summed(g, b, from, at, n)
    BY <1>6, <1>7, <1>9 DEF F, Summed
  <1> QED  BY <1>10 DEF n

(* The bits of a word are those of its low byte and its high one.          *)
Joins(A, B, C) == \A k \in 0..15 : k \in A <=> IF k <= 7 THEN k \in B ELSE k - 8 \in C

LEMMA WordJoins ==
    ASSUME NEW x \in Octets, NEW y \in Octets
    PROVE  Joins(BitsOf(x + 256 * y), BitsOf(x), BitsOf(y))
  BY WordBits DEF Joins

LEMMA WordAtBits ==
    ASSUME NEW b \in Seq(Octets), NEW at \in Nat, at + 2 <= Len(b)
    PROVE  Joins(BitsOf(WordAt(b, at)), BitsOf(b[at + 1]), BitsOf(b[at + 2]))
  <1> DEFINE p == b[at + 1]
             q == b[at + 2]
  <1>1. p \in Octets /\ q \in Octets
    <2>1. at + 1 \in 1..Len(b) /\ at + 2 \in 1..Len(b)
      OBVIOUS
    <2> QED  BY <2>1, OctetsOf
  <1>2. WordAt(b, at) = p + 256 * q
    BY DEF WordAt
  <1> HIDE DEF p, q
  <1>3. Joins(BitsOf(p + 256 * q), BitsOf(p), BitsOf(q))
    BY <1>1, WordJoins, Zenon
  <1> QED  BY <1>2, <1>3 DEF p, q

LEMMA OctetSeq == ASSUME NEW b \in Seq(Octets) PROVE b \in Seq(Int)
  <1>1. b \in [1..Len(b) -> Octets] /\ Len(b) \in Nat
    OBVIOUS
  <1>3. \A k \in Octets : k \in Int
    BY DEF Octets
  <1>2. b \in [1..Len(b) -> Int]
    BY <1>1, <1>3
  <1> QED  BY <1>1, <1>2

(* The registers of a frame and of a damaged one differ by what the damage *)
(* feeds, and by the damage of the checksum in the end.                    *)
Harm(bits, from, at, n) ==
    [i \in 1..n |-> IF from + i - 1 \in {at, at + 1} THEN {} ELSE Flips(bits, from + i)]
HarmAt(bits, at) ==
    {k \in 0..15 : IF k <= 7 THEN k \in Flips(bits, at + 1) ELSE k - 8 \in Flips(bits, at + 2)}

LEMMA XorFour ==
    ASSUME NEW A, NEW B, NEW C, NEW D
    PROVE  Xor(Xor(A, C), Xor(B, D)) = Xor(Xor(A, B), Xor(C, D))
  BY DEF Xor

LEMMA XorBack == ASSUME NEW A, NEW B PROVE Xor(A, Xor(A, B)) = B
  BY DEF Xor

LEMMA XorRest ==
    ASSUME NEW A \in Regs, NEW B \in Regs PROVE Xor((0..15) \ A, (0..15) \ B) = Xor(A, B)
  BY DEF Xor, Regs

LEMMA WordHarm ==
    ASSUME NEW f, NEW d, NEW bits, Harmed(f, d, bits), NEW at \in Nat, at + 2 <= Len(f)
    PROVE  Xor(BitsOf(WordAt(f, at)), BitsOf(WordAt(d, at))) = HarmAt(bits, at)
  <1> DEFINE A == BitsOf(WordAt(f, at))
             B == BitsOf(WordAt(d, at))
             C == HarmAt(bits, at)
  <1>2. /\ f \in Seq(Octets) /\ d \in Seq(Octets) /\ Len(d) = Len(f)
        /\ \A i \in 1..Len(f) : BitsOf(d[i]) = Xor(BitsOf(f[i]), Flips(bits, i))
    BY DEF Harmed
  <1>1. at + 1 \in 1..Len(f) /\ at + 2 \in 1..Len(f)
    BY <1>2
  <1>3. Joins(A, BitsOf(f[at + 1]), BitsOf(f[at + 2]))
    BY <1>2, WordAtBits
  <1>4. Joins(B, BitsOf(d[at + 1]), BitsOf(d[at + 2]))
    BY <1>2, WordAtBits
  <1>5. Joins(C, Flips(bits, at + 1), Flips(bits, at + 2))
    BY DEF HarmAt, Joins
  <1>6. A \in Regs /\ B \in Regs /\ C \in Regs
    BY BitsAre DEF HarmAt, Regs
  <1> HIDE DEF A, B, C
  <1>7. /\ \A k : k \in BitsOf(d[at + 1]) <=>
               Differ(k \in BitsOf(f[at + 1]), k \in Flips(bits, at + 1))
        /\ \A k : k \in BitsOf(d[at + 2]) <=>
               Differ(k \in BitsOf(f[at + 2]), k \in Flips(bits, at + 2))
    BY <1>1, <1>2, XorIs
  <1>8. ASSUME NEW k \in 0..15 PROVE k \in Xor(A, B) <=> k \in C
    <2>1. k \in Xor(A, B) <=> Differ(k \in A, k \in B)
      BY XorIs
    <2> QED  BY <1>3, <1>4, <1>5, <1>7, <2>1 DEF Differ, Joins
  <1>9. Xor(A, B) = C
    BY <1>6, <1>8, XorReg, SameReg
  <1> QED  BY <1>9 DEF A, B, C

(* The section passes the check before the damage and after it.            *)
Passing(f, d, bits, from, to, at) ==
    /\ Harmed(f, d, bits) /\ from \in Nat /\ to \in from..Len(f) /\ at \in Nat /\ at + 2 <= Len(f)
    /\ Intact(f, from, to, at) /\ Intact(d, from, to, at)

LEMMA SectionsDiffer ==
    ASSUME NEW f, NEW d, NEW bits, NEW from, NEW to, NEW at, Passing(f, d, bits, from, to, at)
    PROVE  \E x : /\ Fed(x, Harm(bits, from, at, to - from), to - from)
                  /\ x[0] = {} /\ x[to - from] = HarmAt(bits, at)
  <1> DEFINE n == to - from
             F == Feed(f, from, at, n)
             G == Feed(d, from, at, n)
             H == Harm(bits, from, at, n)
  <1>13. /\ Harmed(f, d, bits) /\ from \in Nat /\ to \in from..Len(f) /\ at \in Nat
         /\ at + 2 <= Len(f) /\ Intact(f, from, to, at) /\ Intact(d, from, to, at)
    BY DEF Passing
  <1>14. /\ f \in Seq(Octets) /\ d \in Seq(Octets) /\ Len(d) = Len(f)
         /\ \A i \in 1..Len(f) : BitsOf(d[i]) = Xor(BitsOf(f[i]), Flips(bits, i))
    BY <1>13 DEF Harmed
  <1>1. f \in Seq(Int) /\ d \in Seq(Int) /\ to \in from..Len(d)
    BY <1>13, <1>14, OctetSeq
  <1>11. PICK g : Summed(g, f, from, at, n)
    BY <1>1, <1>13, SectionIs, Zenon
  <1>12. PICK h : Summed(h, d, from, at, n)
    BY <1>1, <1>13, SectionIs, Zenon
  <1>2. Fed(g, F, n) /\ g[0] = 0..15 /\ (0..15) \ g[n] = BitsOf(WordAt(f, at))
    BY <1>11, Zenon DEF Summed
  <1>3. Fed(h, G, n) /\ h[0] = 0..15 /\ (0..15) \ h[n] = BitsOf(WordAt(d, at))
    BY <1>12, Zenon DEF Summed
  <1>4. n \in Nat /\ Len(f) \in Nat /\ from \in Nat /\ from + n <= Len(f)
    BY <1>13, <1>14
  <1>5. ASSUME NEW i \in 1..n PROVE F[i] \in Regs /\ G[i] \in Regs /\ Xor(F[i], G[i]) = H[i]
    <2>1. from + i \in 1..Len(f)
      BY <1>4
    <2>2. /\ F[i] = IF from + i - 1 \in {at, at + 1} THEN {} ELSE BitsOf(f[from + i])
          /\ G[i] = IF from + i - 1 \in {at, at + 1} THEN {} ELSE BitsOf(d[from + i])
          /\ H[i] = IF from + i - 1 \in {at, at + 1} THEN {} ELSE Flips(bits, from + i)
      BY DEF Feed, Harm
    <2>3. BitsOf(d[from + i]) = Xor(BitsOf(f[from + i]), Flips(bits, from + i))
      BY <1>14, <2>1
    <2> HIDE DEF F, G, H
    <2>4. CASE from + i - 1 \in {at, at + 1}
      BY <2>2, <2>4, NoneXor DEF Regs
    <2>5. CASE from + i - 1 \notin {at, at + 1}
      BY <2>2, <2>3, <2>5, XorBack, BitsAre
    <2> QED  BY <2>4, <2>5
  <1> HIDE DEF n, F, G, H
  <1> DEFINE x == [i \in 0..n |-> Xor(g[i], h[i])]
  <1>6. \A i \in 0..n : x[i] = Xor(g[i], h[i]) /\ g[i] \in Regs /\ h[i] \in Regs
    BY <1>2, <1>3 DEF Fed
  <1>7. x \in [0..n -> Regs]
    BY <1>6, XorReg
  <1> HIDE DEF x
  <1>8. ASSUME NEW i \in 1..n PROVE x[i] = Eight(Xor(x[i - 1], H[i]))
    <2>1. i \in 0..n /\ i - 1 \in 0..n
      BY <1>4
    <2> DEFINE a == g[i - 1]
               b == h[i - 1]
    <2>2. a \in Regs /\ b \in Regs /\ x[i - 1] = Xor(a, b)
      BY <1>6, <2>1
    <2>3. g[i] = Eight(Xor(a, F[i])) /\ h[i] = Eight(Xor(b, G[i])) /\ x[i] = Xor(g[i], h[i])
      BY <1>2, <1>3, <1>6, <2>1 DEF Fed
    <2> HIDE DEF a, b
    <2>4. Xor(a, F[i]) \in Regs /\ Xor(b, G[i]) \in Regs
      BY <1>5, <2>2, XorReg
    <2>5. x[i] = Eight(Xor(Xor(a, F[i]), Xor(b, G[i])))
      BY <2>3, <2>4, EightXor
    <2>6. Xor(Xor(a, F[i]), Xor(b, G[i])) = Xor(Xor(a, b), Xor(F[i], G[i]))
      BY XorFour
    <2> QED  BY <1>5, <2>2, <2>5, <2>6
  <1>9. x[0] = {}
    <2>1. 0 \in 0..n
      BY <1>4
    <2>2. x[0] = Xor(g[0], h[0]) /\ g[0] = h[0]
      BY <1>2, <1>3, <1>6, <2>1
    <2> QED  BY <2>2, NoneXor
  <1>10. x[n] = HarmAt(bits, at)
    <2>1. n \in 0..n
      BY <1>4
    <2>4. x[n] = Xor(g[n], h[n]) /\ g[n] \in Regs /\ h[n] \in Regs
      BY <1>6, <2>1
    <2>5. Xor((0..15) \ g[n], (0..15) \ h[n]) = Xor(g[n], h[n])
      BY <2>4, XorRest
    <2>2. x[n] = Xor(BitsOf(WordAt(f, at)), BitsOf(WordAt(d, at)))
      BY <1>2, <1>3, <2>4, <2>5, Zenon
    <2>3. Xor(BitsOf(WordAt(f, at)), BitsOf(WordAt(d, at))) = HarmAt(bits, at)
      BY <1>13, WordHarm
    <2> QED  BY <2>2, <2>3
  <1> QED  BY <1>7, <1>8, <1>9, <1>10 DEF n, H, Fed

-----------------------------------------------------------------------------
(* Tables for the one damage of two sections: the last bit of the checksum *)
(* and the first of the byte after it.                                     *)

(* Up to m bytes of zeros do not make C of A.                              *)
Avoids(A, m, C) == \A k \in 0..m : \E B : B # C /\ Passes(A, k, B)

LEMMA ChainAvoids ==
    ASSUME NEW m \in Nat, NEW T, Chain(T, m), NEW C, \A j \in 1..m + 1 : T[j] # C
    PROVE  Avoids(T[1], m, C)
  <1> SUFFICES ASSUME NEW k \in 0..m PROVE \E B : B # C /\ Passes(T[1], k, B)
    BY DEF Avoids
  <1>1. Chain(T, k) /\ k \in Nat /\ k + 1 \in 1..m + 1
    BY DEF Chain
  <1> QED  BY <1>1, ChainPasses

LEMMA AvoidsOn ==
    ASSUME NEW m \in Nat, NEW k \in Nat, NEW A, NEW B, NEW C,
           Avoids(A, m, C), Passes(A, m, B), Avoids(B, k, C)
    PROVE  Avoids(A, m + k, C)
  <1> SUFFICES ASSUME NEW i \in 0..m + k PROVE \E D : D # C /\ Passes(A, i, D)
    BY DEF Avoids
  <1>1. CASE i <= m
    BY <1>1 DEF Avoids
  <1>2. CASE ~(i <= m)
    <2>1. i - m \in 0..k /\ i - m \in Nat /\ m + (i - m) = i
      BY <1>2
    <2>2. PICK D : D # C /\ Passes(B, i - m, D)
      BY <2>1 DEF Avoids
    <2> QED  BY <2>1, <2>2, PassesOn
  <1> QED  BY <1>1, <1>2

LEMMA ChainOn ==
    ASSUME NEW m \in Nat, NEW k \in Nat, NEW T, Chain(T, m), NEW C, \A j \in 1..m + 1 : T[j] # C,
           NEW A, T[1] = A, NEW B, T[m + 1] = B, Avoids(B, k, C), NEW n, n = m + k
    PROVE  Avoids(A, n, C)
  BY ChainPasses, ChainAvoids, AvoidsOn

LEMMA AfterSeven == Passes({7}, 7, {0, 7, 11, 14, 15})
  <1> DEFINE T == <<
        {7}, {0, 13, 15}, {0, 5, 6, 14, 15}, {0, 11, 13, 14, 15},
        {0, 3, 5, 14, 15}, {0, 9, 10, 11, 12, 14, 15},
        {0, 1, 2, 3, 4, 14, 15}, {0, 7, 11, 14, 15}>>
  <1>1. Chain(T, 7)
    BY DEF Chain, Stepped, Odd, Differ
  <1>2. T[1] = {7} /\ T[7 + 1] = {0, 7, 11, 14, 15}
    OBVIOUS
  <1> HIDE DEF T
  <1> QED  BY <1>1, <1>2, ChainPasses

LEMMA FromZero == Avoids({0}, 44, {15})
  <1> DEFINE T == <<
               {0}, {0, 6, 7, 14, 15}, {0, 12, 15}, {0, 4, 6, 14, 15},
               {0, 10, 11, 12, 13, 14, 15}, {0, 2, 3, 4, 5, 14, 15},
               {0, 8, 12, 14, 15}, {4, 14, 15}, {0, 6, 7, 10, 11, 14, 15},
               {0, 2, 3, 12, 15}, {0, 4, 6, 8, 10, 14, 15},
               {2, 10, 11, 12, 13, 14, 15}>>
  <1>1. Chain(T, 11)
    BY DEF Chain, Stepped, Odd, Differ
  <1>2. T[1] = {0} /\ T[11 + 1] = {2, 10, 11, 12, 13, 14, 15}
    OBVIOUS
  <1>3. \A j \in 1..11 + 1 : T[j] # {15}
    OBVIOUS
  <1> HIDE DEF T
  <1> DEFINE U == <<
               {2, 10, 11, 12, 13, 14, 15},
               {0, 2, 3, 4, 5, 6, 7, 8, 9, 14, 15}, {1, 8, 15}, {8, 14, 15},
               {0, 6, 7}, {0, 6, 7, 12, 15}, {0, 4, 6, 12, 15},
               {0, 4, 6, 10, 11, 12, 13, 14, 15},
               {0, 2, 3, 4, 5, 10, 11, 12, 13, 14, 15},
               {0, 2, 3, 4, 5, 8, 12, 14, 15}, {4, 8, 12, 14, 15},
               {4, 6, 7, 10, 11, 14, 15}>>
  <1>4. Chain(U, 11)
    BY DEF Chain, Stepped, Odd, Differ
  <1>5. U[1] = {2, 10, 11, 12, 13, 14, 15} /\ U[11 + 1] = {4, 6, 7, 10, 11, 14, 15}
    OBVIOUS
  <1>6. \A j \in 1..11 + 1 : U[j] # {15}
    OBVIOUS
  <1> HIDE DEF U
  <1> DEFINE V == <<
               {4, 6, 7, 10, 11, 14, 15}, {0, 2, 3, 6, 7, 10, 11, 12, 15},
               {0, 2, 3, 4, 6, 8, 10, 12, 15},
               {2, 4, 6, 8, 11, 12, 13, 14, 15},
               {3, 4, 5, 6, 7, 8, 9, 10, 11, 12, 13, 14, 15},
               {1, 2, 3, 4, 5, 6, 7, 9, 15}, {0, 1, 15}, {6, 7, 8},
               {0, 12, 14}, {0, 4, 7, 14, 15}, {0, 10, 11, 13, 15},
               {0, 2, 3, 5, 6, 14, 15}>>
  <1>7. Chain(V, 11)
    BY DEF Chain, Stepped, Odd, Differ
  <1>8. V[1] = {4, 6, 7, 10, 11, 14, 15} /\ V[11 + 1] = {0, 2, 3, 5, 6, 14, 15}
    OBVIOUS
  <1>9. \A j \in 1..11 + 1 : V[j] # {15}
    OBVIOUS
  <1> HIDE DEF V
  <1> DEFINE W == <<
               {0, 2, 3, 5, 6, 14, 15}, {0, 8, 10, 11, 13, 14, 15},
               {2, 3, 5, 14, 15}, {0, 6, 7, 8, 10, 11, 12, 14, 15},
               {2, 3, 4, 12, 15}, {0, 4, 7, 8, 11, 14, 15},
               {3, 10, 11, 13, 15}, {0, 2, 3, 5, 7, 9, 10, 14, 15},
               {0, 1, 2, 8, 10, 11, 12, 13, 15},
               {2, 3, 4, 5, 6, 7, 9, 14, 15}, {1, 6, 7, 8, 14},
               {6, 7, 8, 12, 15}>>
  <1>10. Chain(W, 11)
    BY DEF Chain, Stepped, Odd, Differ
  <1>11. W[1] = {0, 2, 3, 5, 6, 14, 15} /\ W[11 + 1] = {6, 7, 8, 12, 15}
    OBVIOUS
  <1>12. \A j \in 1..11 + 1 : W[j] # {15}
    OBVIOUS
  <1> HIDE DEF W
  <1>13. T[11 + 1] = U[1] /\ U[11 + 1] = V[1] /\ V[11 + 1] = W[1]
    BY <1>2, <1>5, <1>8, <1>11
  <1>14. Avoids(W[1], 11, {15})
    BY <1>10, <1>12, ChainAvoids
  <1>15. Avoids(V[1], 22, {15})
    BY <1>7, <1>9, <1>13, <1>14, ChainOn
  <1>16. Avoids(U[1], 33, {15})
    BY <1>4, <1>6, <1>13, <1>15, ChainOn
  <1>17. Avoids(T[1], 44, {15})
    BY <1>1, <1>3, <1>13, <1>16, ChainOn
  <1> QED  BY <1>2, <1>17

-----------------------------------------------------------------------------
(* No damage of one or two neighbouring bits within a section keeps its    *)
(* checksum right.                                                         *)

LEMMA BurstPasses ==
    ASSUME NEW n \in Nat, NEW x, NEW F, Fed(x, F, n), x[0] = {}, NEW p \in 1..n,
           Silent(F, 0, p - 1), Silent(F, p, n), NEW B, Passes(F[p], n - (p - 1), B)
    PROVE  x[n] = B
  <1>1. p - 1 \in 0..n /\ 0 \in 0..n /\ n \in p..n
    OBVIOUS
  <1>3. x[p - 1] = {}
    BY <1>1, FedNothing
  <1>4. Xor(x[p - 1], F[p]) = F[p]
    BY <1>3, NoneXor
  <1>5. Coasts(x, F, n, p, n, F[p], B)
    BY <1>1, <1>4 DEF Coasts
  <1> QED  BY <1>5, FedPasses

(* The damage of a section that its checksum does not show: none.          *)
Unseen(x, bits, from, at, n) ==
    Fed(x, Harm(bits, from, at, n), n) /\ x[0] = {} /\ x[n] = HarmAt(bits, at)

HarmOf(F, E, bits, from, at, n) ==
    /\ \A i \in 1..n : F[i] =
         IF from + i = at + 1 \/ from + i = at + 2 THEN {} ELSE Flips(bits, from + i)
    /\ \A k \in Flips(bits, at + 1) : k \in E
    /\ \A k \in Flips(bits, at + 2) : k + 8 \in E
    /\ \A k \in E : k \in Flips(bits, at + 1) \/ k - 8 \in Flips(bits, at + 2)

LEMMA HarmIs ==
    ASSUME NEW bits, NEW from \in Nat, NEW at \in Nat, NEW n \in Nat
    PROVE  HarmOf(Harm(bits, from, at, n), HarmAt(bits, at), bits, from, at, n)
  <1>1. ASSUME NEW i \in 1..n
        PROVE  Harm(bits, from, at, n)[i] =
                 IF from + i = at + 1 \/ from + i = at + 2 THEN {} ELSE Flips(bits, from + i)
    <2>1. Harm(bits, from, at, n)[i] =
            IF from + i - 1 \in {at, at + 1} THEN {} ELSE Flips(bits, from + i)
      BY DEF Harm
    <2>2. from + i - 1 \in {at, at + 1} <=> from + i = at + 1 \/ from + i = at + 2
      OBVIOUS
    <2> QED  BY <2>1, <2>2
  <1>2. ASSUME NEW k \in Flips(bits, at + 1) PROVE k \in HarmAt(bits, at)
    <2>1. k \in 0..7
      BY DEF Flips
    <2> QED  BY <2>1 DEF HarmAt
  <1>3. ASSUME NEW k \in Flips(bits, at + 2) PROVE k + 8 \in HarmAt(bits, at)
    <2>1. k \in 0..7
      BY DEF Flips
    <2>2. k + 8 \in 0..15 /\ ~(k + 8 <= 7) /\ (k + 8) - 8 = k
      BY <2>1
    <2> QED  BY <2>2 DEF HarmAt
  <1>4. ASSUME NEW k \in HarmAt(bits, at)
        PROVE  k \in Flips(bits, at + 1) \/ k - 8 \in Flips(bits, at + 2)
    BY DEF HarmAt
  <1> QED  BY <1>1, <1>2, <1>3, <1>4 DEF HarmOf

LEMMA SectionHarm ==
    ASSUME NEW bits, NEW q \in Nat, Burst(bits, q), NEW from \in Nat, NEW at \in Nat,
           NEW n \in Nat,
           from <= at, at + 2 <= from + n, q \in from + 1..from + n,
           q = at \/ q = at + 2 => Flips(bits, q + 1) = {},
           NEW x, Unseen(x, bits, from, at, n)
    PROVE  FALSE
  <1> DEFINE F == Harm(bits, from, at, n)
             E == HarmAt(bits, at)
             p == q - from
  <1>1. HarmOf(F, E, bits, from, at, n)
    BY HarmIs
  <1>2. Fed(x, F, n) /\ x[0] = {} /\ x[n] = E
    BY DEF Unseen
  <1>3. p \in 1..n /\ from + p = q /\ \A i \in 1..n : from + i = q <=> i = p
    OBVIOUS
  <1> HIDE DEF F, E, p
  <1>4. /\ Flips(bits, q) # {} /\ \A i \in Int : i # q /\ i # q + 1 => Flips(bits, i) = {}
        /\ Flips(bits, q + 1) = {} \/ (Flips(bits, q) = {7} /\ Flips(bits, q + 1) = {0})
    BY DEF Burst
  <1>5. CASE q = at + 1 \/ q = at + 2
    <2>1. Silent(F, 0, n)
      BY <1>1, <1>4, <1>5 DEF Silent, HarmOf
    <2>2. 0 \in 0..n /\ n \in 0..n
      OBVIOUS
    <2>3. x[n] = {}
      BY <1>2, <2>1, <2>2, FedNothing
    <2>4. E # {}
      BY <1>1, <1>4, <1>5 DEF HarmOf
    <2> QED  BY <1>2, <2>3, <2>4
  <1>6. CASE q # at + 1 /\ q # at + 2
    <2>1. F[p] = Flips(bits, q) /\ F[p] # {} /\ F[p] \in Regs
      BY <1>1, <1>3, <1>4, <1>6, FlipsIn DEF HarmOf
    <2>2. \A i \in 1..p - 1 : F[i] = {}
      BY <1>1, <1>3, <1>4 DEF HarmOf
    <2>3. \A i \in p + 2..n : F[i] = {}
      BY <1>1, <1>3, <1>4 DEF HarmOf
    <2>4. p + 1 <= n => F[p + 1] = {} \/ (F[p] = {7} /\ F[p + 1] = {0})
      <3> SUFFICES ASSUME p + 1 <= n PROVE F[p + 1] = {} \/ (F[p] = {7} /\ F[p + 1] = {0})
        OBVIOUS
      <3>1. p + 1 \in 1..n /\ from + (p + 1) = q + 1
        BY <1>3
      <3>2. F[p + 1] = {} \/ F[p + 1] = Flips(bits, q + 1)
        BY <1>1, <3>1 DEF HarmOf
      <3> QED  BY <1>4, <2>1, <3>2
    <2>5. x[n] # {}
      BY <1>2, <1>3, <2>1, <2>2, <2>3, <2>4, BurstLives
    <2>6. Flips(bits, at + 1) = {} /\ Flips(bits, at + 2) = {}
      BY <1>4, <1>6
    <2>7. E = {}
      BY <1>1, <2>6 DEF HarmOf
    <2> QED  BY <1>2, <2>5, <2>7
  <1> QED  BY <1>5, <1>6

LEMMA TokenEdge ==
    ASSUME NEW bits, NEW q \in Nat, Burst(bits, q), NEW from \in Nat, NEW at \in Nat,
           NEW n \in Nat,
           from <= at, q = at + 2, q + 1 <= from + n, from + n <= q + 44,
           Flips(bits, q) = {7}, Flips(bits, q + 1) = {0},
           NEW x, Unseen(x, bits, from, at, n)
    PROVE  FALSE
  <1> DEFINE F == Harm(bits, from, at, n)
             E == HarmAt(bits, at)
             p == q + 1 - from
  <1>1. HarmOf(F, E, bits, from, at, n)
    BY HarmIs
  <1>2. Fed(x, F, n) /\ x[0] = {} /\ x[n] = E
    BY DEF Unseen
  <1>3. p \in 1..n /\ from + p = q + 1 /\ n - (p - 1) \in 0..44
    OBVIOUS
  <1>4. \A i \in Int : i # q /\ i # q + 1 => Flips(bits, i) = {}
    BY DEF Burst
  <1> HIDE DEF F, E, p
  <1>5. F[p] = {0}
    BY <1>1, <1>3 DEF HarmOf
  <1>6. Silent(F, 0, p - 1) /\ Silent(F, p, n)
    BY <1>1, <1>3, <1>4 DEF HarmOf, Silent
  <1>7. E = {15}
    <2>1. 7 \in Flips(bits, at + 2) /\ 7 + 8 = 15
      OBVIOUS
    <2>2. 15 \in E
      BY <1>1, <2>1 DEF HarmOf
    <2>3. ASSUME NEW k \in E PROVE k = 15
      <3>1. Flips(bits, at + 1) = {}
        BY <1>4
      <3>2. k - 8 = 7 /\ k \in 0..15
        BY <1>1, <3>1 DEF HarmOf, E, HarmAt
      <3> QED  BY <3>2
    <2> QED  BY <2>2, <2>3
  <1>8. PICK B : B # {15} /\ Passes({0}, n - (p - 1), B)
    BY <1>3, FromZero DEF Avoids
  <1>10. Passes(F[p], n - (p - 1), B)
    BY <1>5, <1>8
  <1>9. x[n] = B
    BY <1>2, <1>3, <1>6, <1>10, BurstPasses
  <1> QED  BY <1>2, <1>7, <1>8, <1>9

LEMMA HeaderHarm ==
    ASSUME NEW bits, NEW q \in 1..12, Burst(bits, q), NEW x, Unseen(x, bits, 0, 6, 12)
    PROVE  FALSE
  <1>1. PICK from \in Nat, at \in Nat, n \in Nat : from = 0 /\ at = 6 /\ n = 12
    OBVIOUS
  <1>2. Unseen(x, bits, from, at, n)
    BY <1>1
  <1>3. /\ q \in Nat /\ q \in from + 1..from + n /\ from <= at /\ at + 2 <= from + n
        /\ from + n <= 8 + 44 /\ 8 = at + 2 /\ 8 + 1 <= from + n
    BY <1>1
  <1>4. Flips(bits, q + 1) = {} \/ (Flips(bits, q) = {7} /\ Flips(bits, q + 1) = {0})
    BY DEF Burst
  <1>5. CASE q = at \/ q = at + 2 => Flips(bits, q + 1) = {}
    BY <1>2, <1>3, <1>5, SectionHarm
  <1>6. CASE q = at + 2 /\ Flips(bits, q + 1) # {}
    BY <1>2, <1>3, <1>4, <1>6, TokenEdge
  <1>7. CASE q = at /\ Flips(bits, q + 1) # {}
    <2> DEFINE F == Harm(bits, from, at, n)
               E == HarmAt(bits, at)
    <2>1. HarmOf(F, E, bits, from, at, n)
      BY HarmIs
    <2>2. Fed(x, F, n) /\ x[0] = {} /\ x[n] = E
      BY <1>2 DEF Unseen
    <2>3. \A i \in Int : i # q /\ i # q + 1 => Flips(bits, i) = {}
      BY DEF Burst
    <2> HIDE DEF F, E
    <2>9. PICK p \in 1..n : p = 6
      BY <1>1
    <2>4. F[p] = {7} /\ n - (p - 1) = 7 /\ q = p
      BY <1>1, <1>4, <1>7, <2>1, <2>9 DEF HarmOf
    <2>5. Silent(F, 0, p - 1) /\ Silent(F, p, n)
      BY <1>1, <2>1, <2>3, <2>4, <2>9 DEF HarmOf, Silent
    <2>8. PICK B : 7 \in B /\ Passes({7}, 7, B)
      BY AfterSeven
    <2>10. Passes(F[p], n - (p - 1), B)
      BY <2>4, <2>8
    <2>6. x[n] = B
      BY <2>2, <2>5, <2>10, BurstPasses
    <2>7. 7 \in E /\ Flips(bits, at + 1) = {0} /\ Flips(bits, at + 2) = {}
      BY <1>1, <1>4, <1>7, <2>2, <2>3, <2>6, <2>8
    <2> QED  BY <2>1, <2>7 DEF HarmOf
  <1> QED  BY <1>5, <1>6, <1>7

LEMMA SegmentHarm ==
    ASSUME NEW bits, NEW L \in 1..44, NEW q \in 15..16 + L, Burst(bits, q),
           NEW x, Unseen(x, bits, 12, 14, 4 + L)
    PROVE  FALSE
  <1>1. PICK from \in Nat, at \in Nat, n \in Nat : from = 12 /\ at = 14 /\ n = 4 + L
    OBVIOUS
  <1>2. Unseen(x, bits, from, at, n)
    BY <1>1
  <1>3. /\ q \in Nat /\ q \in from + 1..from + n /\ from <= at /\ at + 2 <= from + n
        /\ from + n <= 16 + 44 /\ 16 = at + 2 /\ 16 + 1 <= from + n /\ q # at
    BY <1>1
  <1>4. Flips(bits, q + 1) = {} \/ (Flips(bits, q) = {7} /\ Flips(bits, q + 1) = {0})
    BY DEF Burst
  <1>5. CASE q = at + 2 => Flips(bits, q + 1) = {}
    BY <1>2, <1>3, <1>5, SectionHarm
  <1>6. CASE q = at + 2 /\ Flips(bits, q + 1) # {}
    BY <1>2, <1>3, <1>4, <1>6, TokenEdge
  <1> QED  BY <1>5, <1>6

-----------------------------------------------------------------------------
(* A frame as build_frame makes it, of bytes.                              *)

LEMMA WordOctets == ASSUME NEW x \in Nat PROVE Word(x)[1] \in Octets /\ Word(x)[2] \in Octets
  <1>1. Word(x)[1] = x % 256 /\ Word(x)[2] = (x \div 256) % 256
    BY DEF Word
  <1>3. x \div 256 \in Nat /\ x \in Nat
    OBVIOUS
  <1>2. \A y \in Nat : y % 256 \in 0..255
    OBVIOUS
  <1> QED  BY <1>1, <1>2, <1>3 DEF Octets

LEMMA FrameOctets ==
    ASSUME NEW cmd \in Words, NEW receiver \in Octets, NEW seq \in Words, NEW flags \in Octets,
           NEW payload \in Seq(Octets), NEW top \in Words, NEW body \in Words, NEW f,
           FrameOf(f, flags, seq, receiver, cmd, payload, top, body)
    PROVE  f \in Seq(Octets)
  <1>1. /\ Sized(f, 60) /\ HeadIs(f, flags, seq, receiver, cmd, Word(top))
        /\ f[13] = Word(Len(payload))[1] /\ f[14] = Word(Len(payload))[2]
        /\ f[15] = Word(body)[1] /\ f[16] = Word(body)[2]
        /\ \A i \in 1..Len(payload) : f[16 + i] = payload[i]
        /\ \A i \in 17 + Len(payload)..60 : f[i] = 0
    BY DEF FrameOf
  <1>2. f \in Seq(Int) /\ Len(f) = 60
    BY <1>1 DEF Sized
  <1>3. \A k \in {170, 12, 0, 10} : k \in Octets
    BY DEF Octets
  <1>4. \A x \in Words : Word(x)[1] \in Octets /\ Word(x)[2] \in Octets
    BY WordOctets DEF Words
  <1>5. Word(Len(payload))[1] \in Octets /\ Word(Len(payload))[2] \in Octets
    BY WordOctets
  <1>6. ASSUME NEW i \in 1..12 PROVE f[i] \in Octets
    <2>1. /\ f[1] \in Octets /\ f[2] \in Octets /\ f[3] \in Octets /\ f[4] \in Octets
          /\ f[5] \in Octets /\ f[6] \in Octets /\ f[7] \in Octets /\ f[8] \in Octets
          /\ f[9] \in Octets /\ f[10] \in Octets /\ f[11] \in Octets /\ f[12] \in Octets
      BY <1>1, <1>3, <1>4 DEF HeadIs
    <2> QED  BY <2>1, TwelveCases
  <1>7. ASSUME NEW i \in 13..60 PROVE f[i] \in Octets
    <2>1. CASE i = 13 \/ i = 14 \/ i = 15 \/ i = 16
      BY <1>1, <1>4, <1>5, <2>1
    <2>2. CASE i \in 17..16 + Len(payload)
      <3>1. PICK j \in 1..Len(payload) : i = 16 + j
        <4>1. i - 16 \in 1..Len(payload) /\ i = 16 + (i - 16)
          BY <2>2
        <4> QED  BY <4>1
      <3>2. f[i] = payload[j]
        BY <1>1, <3>1
      <3>3. payload[j] \in Octets
        OBVIOUS
      <3> QED  BY <3>2, <3>3
    <2>3. CASE i \in 17 + Len(payload)..60
      BY <1>1, <1>3, <2>3
    <2>4. Len(payload) \in Nat
      OBVIOUS
    <2> QED  BY <2>1, <2>2, <2>3, <2>4
  <1>8. \A i \in 1..60 : i \in 1..12 \/ i \in 13..60
    OBVIOUS
  <1>9. \A i \in 1..60 : f[i] \in Octets
    BY <1>6, <1>7, <1>8
  <1>10. f = [i \in 1..60 |-> f[i]]
    BY <1>2
  <1>11. f \in [1..60 -> Octets]
    BY <1>9, <1>10
  <1>12. PICK n \in Nat : n = 60
    OBVIOUS
  <1>13. f \in [1..n -> Octets]
    BY <1>11, <1>12
  <1> QED  BY <1>13

(* A frame as it is built, with what the checksums and the parser need.    *)
Built(f, payload) ==
    /\ f \in Seq(Octets) /\ Len(f) = 60 /\ payload \in Seq(Octets) /\ Len(payload) <= 44
    /\ f[1] = 170 /\ Intact(f, 0, 12, 6)
    /\ f[13] = Len(payload) /\ f[14] = 0
    /\ WordAt(f, 14) = BodyOf(payload)
    /\ \A i \in 1..Len(payload) : f[16 + i] = payload[i]
    /\ \A i \in 17 + Len(payload)..60 : f[i] = 0
    /\ payload # <<>> => Intact(f, 12, 16 + Len(payload), 14)

LEMMA BuiltIs ==
    ASSUME NEW cmd \in Words, NEW receiver \in Octets, NEW seq \in Words, NEW flags \in Octets,
           NEW payload \in Seq(Octets), Len(payload) <= 44
    PROVE  Built(BuildFrame(cmd, receiver, seq, payload, flags), payload)
  <1> DEFINE f == BuildFrame(cmd, receiver, seq, payload, flags)
             top == TopOf(flags, seq, receiver, cmd)
             body == BodyOf(payload)
  <1>1. receiver \in Int /\ flags \in Int /\ payload \in Seq(Int)
    BY OctetSeq DEF Octets
  <1>2. FrameOf(f, flags, seq, receiver, cmd, payload, top, body)
    BY <1>1, FrameIs
  <1> HIDE DEF f
  <1>3. top \in Words /\ body \in Words
    BY Crc16Is DEF TopOf, BodyOf, Words
  <1>4. /\ Intact(f, 0, 12, 6) /\ WordAt(f, 14) = body
        /\ payload # <<>> => Intact(f, 12, 16 + Len(payload), 14)
    BY <1>1, <1>2, FrameIntact
  <1> HIDE DEF top, body
  <1>5. f \in Seq(Octets)
    BY <1>2, <1>3, FrameOctets
  <1>6. /\ Sized(f, 60) /\ HeadIs(f, flags, seq, receiver, cmd, Word(top))
        /\ f[13] = Word(Len(payload))[1] /\ f[14] = Word(Len(payload))[2]
        /\ \A i \in 1..Len(payload) : f[16 + i] = payload[i]
        /\ \A i \in 17 + Len(payload)..60 : f[i] = 0
    BY <1>2 DEF FrameOf
  <1>7. f[1] = 170
    BY <1>6 DEF HeadIs
  <1>8. f[13] = Len(payload) /\ f[14] = 0
    <2>1. Len(payload) \in Nat
      OBVIOUS
    <2>2. f[13] = Len(payload) % 256 /\ f[14] = (Len(payload) \div 256) % 256
      BY <1>6, <2>1, WordIs
    <2>3. Len(payload) % 256 = Len(payload) /\ (Len(payload) \div 256) % 256 = 0
      BY <2>1
    <2> QED  BY <2>2, <2>3
  <1>9. Len(f) = 60
    BY <1>6 DEF Sized
  <1> QED  BY <1>4, <1>5, <1>6, <1>7, <1>8, <1>9 DEF Built, f, body

-----------------------------------------------------------------------------
(* A damage outside the length is noticed, or was of the padding.          *)

(* No section of which the damage hits a byte keeps a right checksum.      *)
LEMMA TopIsBad ==
    ASSUME NEW f, NEW d, NEW bits, Harmed(f, d, bits), Len(f) = 60,
           NEW q \in 1..12, Burst(bits, q),
           Intact(f, 0, 12, 6), Intact(d, 0, 12, 6)
    PROVE  FALSE
  <1>1. PICK from \in Nat, to \in Nat, at \in Nat : from = 0 /\ to = 12 /\ at = 6
    OBVIOUS
  <1>2. Passing(f, d, bits, from, to, at)
    BY <1>1 DEF Passing
  <1>5. PICK x : /\ Fed(x, Harm(bits, from, at, to - from), to - from)
                 /\ x[0] = {} /\ x[to - from] = HarmAt(bits, at)
    BY <1>2, SectionsDiffer
  <1>6. to - from = 12
    BY <1>1
  <1>7. Unseen(x, bits, 0, 6, 12)
    BY <1>1, <1>5, <1>6 DEF Unseen
  <1> QED  BY <1>7, HeaderHarm

LEMMA BodyIsBad ==
    ASSUME NEW f, NEW d, NEW bits, Harmed(f, d, bits), Len(f) = 60, NEW n \in 1..44,
           NEW q \in 15..16 + n, Burst(bits, q),
           Intact(f, 12, 16 + n, 14), Intact(d, 12, 16 + n, 14)
    PROVE  FALSE
  <1>1. PICK from \in Nat, to \in Nat, at \in Nat : from = 12 /\ to = 16 + n /\ at = 14
    OBVIOUS
  <1>2. Passing(f, d, bits, from, to, at)
    BY <1>1 DEF Passing
  <1>5. PICK x : /\ Fed(x, Harm(bits, from, at, to - from), to - from)
                 /\ x[0] = {} /\ x[to - from] = HarmAt(bits, at)
    BY <1>2, SectionsDiffer
  <1>6. to - from = 4 + n
    BY <1>1
  <1>7. Unseen(x, bits, 12, 14, 4 + n)
    BY <1>1, <1>5, <1>6 DEF Unseen
  <1> QED  BY <1>7, SegmentHarm

LEMMA LengthAlone ==
    ASSUME NEW f, NEW d, NEW bits, Harmed(f, d, bits), Len(f) = 60,
           WordAt(d, 12) = WordAt(f, 12)
    PROVE  Flips(bits, 13) = {} /\ Flips(bits, 14) = {}
  <1>1. PICK at \in Nat : at = 12
    OBVIOUS
  <1>2. at + 2 <= Len(f)
    BY <1>1
  <1>3. Xor(BitsOf(WordAt(f, at)), BitsOf(WordAt(d, at))) = HarmAt(bits, at)
    BY <1>2, WordHarm
  <1>4. HarmAt(bits, at) = {}
    BY <1>1, <1>3, NoneXor
  <1>5. HarmOf(Harm(bits, 0, at, 0), HarmAt(bits, at), bits, 0, at, 0)
    BY HarmIs
  <1>6. Flips(bits, at + 1) = {} /\ Flips(bits, at + 2) = {}
    BY <1>4, <1>5 DEF HarmOf
  <1>7. at + 1 = 13 /\ at + 2 = 14
    BY <1>1
  <1> QED  BY <1>6, <1>7

LEMMA BuiltLen ==
    ASSUME NEW f, NEW payload, Built(f, payload)
    PROVE  /\ WordAt(f, 12) = Len(payload) /\ Len(payload) \in 0..44
           /\ (Len(payload) = 0 <=> payload = <<>>)
           /\ SubSeq(f, 17, 16 + Len(payload)) = payload
  <1>1. /\ f \in Seq(Octets) /\ Len(f) = 60 /\ payload \in Seq(Octets) /\ Len(payload) <= 44
        /\ f[13] = Len(payload) /\ f[14] = 0 /\ \A i \in 1..Len(payload) : f[16 + i] = payload[i]
    BY DEF Built
  <1>2. WordAt(f, 12) = Len(payload)
    BY <1>1 DEF WordAt
  <1>3. Len(payload) \in 0..44 /\ (Len(payload) = 0 <=> payload = <<>>)
    <2>1. Len(payload) = 0 <=> payload = <<>>
      BY <1>1
    <2>2. Len(payload) \in Nat /\ Len(payload) <= 44
      BY <1>1
    <2>3. \A k \in Nat : k <= 44 => k \in 0..44
      OBVIOUS
    <2>4. Len(payload) \in 0..44
      BY <2>2, <2>3, Zenon
    <2> QED  BY <2>1, <2>4, Zenon
  <1>4. f \in Seq(Int) /\ payload \in Seq(Int)
    BY <1>1, OctetSeq
  <1>5. SubSeq(f, 17, 16 + Len(payload)) = payload
    BY <1>1, <1>4, PayloadBack
  <1> QED  BY <1>2, <1>3, <1>5

LEMMA SameRead ==
    ASSUME NEW f, NEW d, NEW payload, \A i \in 1..12 : d[i] = f[i]
    PROVE  ReadAs(d, payload) = ReadAs(f, payload)
  <1>1. d[2 + 1] = f[2 + 1] /\ d[2 + 2] = f[2 + 2] /\ d[9] = f[9] /\ d[10] = f[10]
        /\ d[10 + 1] = f[10 + 1] /\ d[10 + 2] = f[10 + 2]
    OBVIOUS
  <1>2. WordAt(d, 2) = WordAt(f, 2) /\ WordAt(d, 10) = WordAt(f, 10)
    BY <1>1 DEF WordAt
  <1> QED  BY <1>1, <1>2 DEF ReadAs

(* One bit flipped in a frame, or two neighbours, anywhere but in its      *)
(* length: it is rejected, or what was flipped was padding and it is read  *)
(* as it was sent.                                                         *)
LEMMA HarmNoticed ==
    ASSUME NEW f, NEW payload, Built(f, payload), NEW d, NEW bits \in Damages, Harmed(f, d, bits),
           WordAt(d, 12) = WordAt(f, 12)
    PROVE  ParseFrame(d) \in {BadFrame, ParseFrame(f)}
  <1> SUFFICES ASSUME ParseFrame(d) # BadFrame PROVE ParseFrame(d) = ParseFrame(f)
    OBVIOUS
  <1> DEFINE n == Len(payload)
  <1>1. /\ f \in Seq(Octets) /\ Len(f) = 60 /\ d \in Seq(Octets) /\ Len(d) = 60
        /\ f[1] = 170 /\ Intact(f, 0, 12, 6) /\ payload \in Seq(Octets) /\ n <= 44
        /\ \A i \in 1..n : f[16 + i] = payload[i]
        /\ payload # <<>> => Intact(f, 12, 16 + n, 14)
        /\ \A i \in 1..60 : Flips(bits, i) = {} => d[i] = f[i]
    <2>1. /\ f \in Seq(Octets) /\ Len(f) = 60
          /\ f[1] = 170 /\ Intact(f, 0, 12, 6) /\ payload \in Seq(Octets) /\ n <= 44
          /\ \A i \in 1..n : f[16 + i] = payload[i]
          /\ payload # <<>> => Intact(f, 12, 16 + n, 14)
      BY DEF Built
    <2>2. /\ d \in Seq(Octets) /\ Len(d) = Len(f)
          /\ \A i \in 1..Len(f) : Flips(bits, i) = {} => d[i] = f[i]
      BY DEF Harmed
    <2> QED  BY <2>1, <2>2
  <1>2. /\ WordAt(f, 12) = n /\ n \in 0..44 /\ (n = 0 <=> payload = <<>>)
        /\ SubSeq(f, 17, 16 + n) = payload
    BY BuiltLen
  <1>13. payload \in Seq(Int) /\ d \in Seq(Int)
    BY <1>1, OctetSeq
  <1> HIDE DEF n
  <1>3. WordAt(d, 12) = n /\ n \in Nat
    BY <1>2
  <1>4. ParseFrame(f) =
          IF f[1] # 170 \/ ~Intact(f, 0, 12, 6) THEN BadFrame
          ELSE IF n = 0 THEN ReadAs(f, <<>>)
          ELSE IF n > 44 \/ ~Intact(f, 12, 16 + n, 14) THEN BadFrame
          ELSE ReadAs(f, SubSeq(f, 17, 16 + n))
    BY <1>1, <1>2, <1>3, ParsedIs
  <1>5. ParseFrame(d) =
          IF d[1] # 170 \/ ~Intact(d, 0, 12, 6) THEN BadFrame
          ELSE IF n = 0 THEN ReadAs(d, <<>>)
          ELSE IF n > 44 \/ ~Intact(d, 12, 16 + n, 14) THEN BadFrame
          ELSE ReadAs(d, SubSeq(d, 17, 16 + n))
    BY <1>1, <1>3, ParsedIs
  <1>6. PICK q \in 1..60 : Burst(bits, q)
    BY Bursts
  <1>7. d[1] = 170 /\ Intact(d, 0, 12, 6)
    BY <1>5
  <1>8. q \notin 1..12
    BY <1>1, <1>6, <1>7, TopIsBad
  <1>9. q # 13 /\ q # 14
    <2>1. Len(f) = 60
      BY <1>1
    <2>2. Flips(bits, 13) = {} /\ Flips(bits, 14) = {}
      BY <2>1, LengthAlone, Zenon
    <2>3. Flips(bits, q) # {}
      BY <1>6 DEF Burst
    <2> QED  BY <2>2, <2>3
  <1>10. \A i \in 1..60 : i < q => d[i] = f[i]
    <2>1. \A i \in Int : i # q /\ i # q + 1 => Flips(bits, i) = {}
      BY <1>6 DEF Burst
    <2> SUFFICES ASSUME NEW i \in 1..60, i < q PROVE d[i] = f[i]
      OBVIOUS
    <2>2. i \in Int /\ i # q /\ i # q + 1
      OBVIOUS
    <2>3. Flips(bits, i) = {}
      BY <2>1, <2>2
    <2> QED  BY <1>1, <2>3
  <1>11. \A p : ReadAs(d, p) = ReadAs(f, p)
    <2>1. \A i \in 1..12 : d[i] = f[i]
      BY <1>8, <1>9, <1>10
    <2> QED  BY <2>1, SameRead
  <1>12. CASE n = 0
    BY <1>1, <1>4, <1>5, <1>7, <1>11, <1>12
  <1>14. CASE n # 0
    <2>1. n \in 1..44 /\ Intact(f, 12, 16 + n, 14) /\ Intact(d, 12, 16 + n, 14)
      BY <1>1, <1>2, <1>5, <1>7, <1>14
    <2>2. ASSUME q \in 15..16 + n PROVE FALSE
      <3>1. Len(f) = 60
        BY <1>1
      <3> QED  BY <1>6, <2>1, <2>2, <3>1, BodyIsBad, Zenon
    <2>3. q > 16 + n
      BY <1>2, <1>6, <1>8, <1>9, <2>2
    <2>4. \A i \in 1..n : d[16 + i] = payload[i]
      <3> SUFFICES ASSUME NEW i \in 1..n PROVE d[16 + i] = payload[i]
        OBVIOUS
      <3>1. f[16 + i] = payload[i]
        BY <1>1
      <3>2. 16 + i \in 1..60 /\ 16 + i < q
        BY <1>2, <2>3
      <3> QED  BY <1>10, <3>1, <3>2
    <2>5. SubSeq(d, 17, 16 + n) = payload
      BY <1>1, <1>13, <2>4, PayloadBack DEF n
    <2>6. SubSeq(d, 17, 16 + n) = SubSeq(f, 17, 16 + n)
      BY <1>2, <2>5
    <2> QED  BY <1>1, <1>4, <1>5, <1>7, <1>11, <1>14, <2>1, <2>6
  <1> QED  BY <1>12, <1>14

-----------------------------------------------------------------------------
(* One flipped bit of the length: the checksum of what is then read has    *)
(* the wrong number of 1 bits, whatever the payload, if the bytes that     *)
(* come in are zeros.                                                      *)

(* Whether the number of 1 bits is odd.  A byte of zeros does not change   *)
(* it, and feeding changes it by what is fed.                              *)
OddHigh(A) ==
    Differ(Differ(Differ(8 \in A, 9 \in A), Differ(10 \in A, 11 \in A)),
           Differ(Differ(12 \in A, 13 \in A), Differ(14 \in A, 15 \in A)))
Uneven(A) == Differ(Odd(A), OddHigh(A))

LEMMA OddXor == ASSUME NEW A, NEW B PROVE Odd(Xor(A, B)) <=> Differ(Odd(A), Odd(B))
  <1> DEFINE X == Xor(A, B)
  <1>1. \A k : k \in X <=> Differ(k \in A, k \in B)
    BY XorIs
  <1> HIDE DEF X
  <1>2. Odd(X) <=> Differ(Odd(A), Odd(B))
    BY <1>1 DEF Odd, Differ
  <1> QED  BY <1>2 DEF X

LEMMA OddHighXor ==
    ASSUME NEW A, NEW B
    PROVE  OddHigh(Xor(A, B)) <=> Differ(OddHigh(A), OddHigh(B))
  <1> DEFINE X == Xor(A, B)
  <1>1. \A k : k \in X <=> Differ(k \in A, k \in B)
    BY XorIs
  <1> HIDE DEF X
  <1>2. OddHigh(X) <=> Differ(OddHigh(A), OddHigh(B))
    BY <1>1 DEF OddHigh, Differ
  <1> QED  BY <1>2 DEF X

LEMMA UnevenXor == ASSUME NEW A, NEW B PROVE Uneven(Xor(A, B)) <=> Differ(Uneven(A), Uneven(B))
  BY OddXor, OddHighXor DEF Uneven, Differ

LEMMA EightUneven == ASSUME NEW A \in Regs PROVE Uneven(Eight(A)) <=> Uneven(A)
  <1>1. Stepped(Eight(A), A)
    BY EightIs
  <1> DEFINE B == Eight(A)
  <1> HIDE DEF B
  <1>2. Stepped(B, A)
    BY <1>1 DEF B
  <1>3. Uneven(B) <=> Uneven(A)
    BY <1>2 DEF Stepped, Uneven, Odd, OddHigh, Differ
  <1> QED  BY <1>3 DEF B

LEMMA FedUneven ==
    ASSUME NEW n \in Nat, NEW x, NEW F, Fed(x, F, n), NEW k \in 0..n,
           NEW m \in k..n, Silent(F, k, m)
    PROVE  Uneven(x[m]) <=> Uneven(x[k])
  <1> DEFINE S == {j \in Nat : k + j <= m => (Uneven(x[k + j]) <=> Uneven(x[k]))}
  <1>1. 0 \in S
    OBVIOUS
  <1>2. ASSUME NEW j \in Nat, j \in S PROVE j + 1 \in S
    <2> SUFFICES ASSUME k + (j + 1) <= m PROVE Uneven(x[k + (j + 1)]) <=> Uneven(x[k])
      OBVIOUS
    <2>1. PICK i \in 1..n : i = k + (j + 1)
      OBVIOUS
    <2>2. k + j = i - 1 /\ i - 1 \in 0..n /\ i \in k + 1..m /\ k + j <= m
      BY <2>1
    <2>3. Uneven(x[i - 1]) <=> Uneven(x[k])
      BY <1>2, <2>2
    <2>4. x[i] = Eight(Xor(x[i - 1], F[i])) /\ F[i] = {} /\ x[i - 1] \in Regs
      BY <2>2 DEF Fed, Silent
    <2>5. x[i] = Eight(x[i - 1])
      BY <2>4, NoneXor
    <2> QED  BY <2>1, <2>3, <2>4, <2>5, EightUneven
  <1> HIDE DEF S
  <1>3. \A j \in Nat : j \in S
    BY <1>1, <1>2, AllNaturals
  <1>4. m - k \in Nat /\ m = k + (m - k)
    OBVIOUS
  <1> QED  BY <1>3, <1>4 DEF S

(* Two registers that are fed the same but for the first byte.             *)
Unlike(g, F, n, h, G, o, m) ==
    /\ n \in Nat /\ Fed(g, F, n) /\ o \in Nat /\ Fed(h, G, o) /\ g[0] = h[0]
    /\ m \in 1..n /\ m \in 1..o
    /\ \A i \in 1..m : F[i] \in Regs /\ G[i] \in Regs /\ (i # 1 => F[i] = G[i])

LEMMA StayUnlike ==
    ASSUME NEW g, NEW F, NEW n, NEW h, NEW G, NEW o, NEW m, Unlike(g, F, n, h, G, o, m),
           Differ(Uneven(F[1]), Uneven(G[1]))
    PROVE  Differ(Uneven(g[m]), Uneven(h[m]))
  <1>1. /\ n \in Nat /\ o \in Nat /\ m \in 1..n /\ m \in 1..o /\ g[0] = h[0]
        /\ g \in [0..n -> Regs] /\ \A i \in 1..n : g[i] = Eight(Xor(g[i - 1], F[i]))
        /\ h \in [0..o -> Regs] /\ \A i \in 1..o : h[i] = Eight(Xor(h[i - 1], G[i]))
        /\ \A i \in 1..m : F[i] \in Regs /\ G[i] \in Regs /\ (i # 1 => F[i] = G[i])
    BY DEF Unlike, Fed
  <1>2. ASSUME NEW i \in 1..m
        PROVE  /\ Uneven(g[i]) <=> Differ(Uneven(g[i - 1]), Uneven(F[i]))
               /\ Uneven(h[i]) <=> Differ(Uneven(h[i - 1]), Uneven(G[i]))
    <2>1. i \in 1..n /\ i \in 1..o /\ i - 1 \in 0..n /\ i - 1 \in 0..o
      BY <1>1
    <2>2. g[i] = Eight(Xor(g[i - 1], F[i])) /\ h[i] = Eight(Xor(h[i - 1], G[i]))
      BY <1>1, <2>1
    <2>3. g[i - 1] \in Regs /\ h[i - 1] \in Regs /\ F[i] \in Regs /\ G[i] \in Regs
      BY <1>1, <2>1
    <2>4. Xor(g[i - 1], F[i]) \in Regs /\ Xor(h[i - 1], G[i]) \in Regs
      BY <2>3, XorReg
    <2>5. /\ Uneven(g[i]) <=> Uneven(Xor(g[i - 1], F[i]))
          /\ Uneven(h[i]) <=> Uneven(Xor(h[i - 1], G[i]))
      BY <2>2, <2>4, EightUneven
    <2> QED  BY <2>5, UnevenXor
  <1> DEFINE S == {j \in Nat : j + 1 <= m => Differ(Uneven(g[j + 1]), Uneven(h[j + 1]))}
  <1>3. 0 \in S
    <2>1. 1 \in 1..m /\ 1 - 1 = 0 /\ 0 + 1 = 1
      BY <1>1
    <2> QED  BY <1>1, <1>2, <2>1 DEF Differ
  <1>4. ASSUME NEW j \in Nat, j \in S PROVE j + 1 \in S
    <2> SUFFICES ASSUME (j + 1) + 1 <= m
                 PROVE  Differ(Uneven(g[(j + 1) + 1]), Uneven(h[(j + 1) + 1]))
      OBVIOUS
    <2>1. PICK i \in 1..m : i = (j + 1) + 1
      BY <1>1
    <2>2. i - 1 = j + 1 /\ i # 1 /\ j + 1 <= m
      BY <1>1, <2>1
    <2>3. Differ(Uneven(g[i - 1]), Uneven(h[i - 1]))
      BY <1>4, <2>2
    <2>4. F[i] = G[i]
      BY <1>1, <2>2
    <2> QED  BY <1>2, <2>1, <2>3, <2>4 DEF Differ
  <1> HIDE DEF S
  <1>5. m - 1 \in Nat /\ (m - 1) + 1 = m
    BY <1>1
  <1>6. m - 1 \in S
    BY <1>3, <1>4, <1>5, AllNaturals
  <1> QED  BY <1>5, <1>6 DEF S

LEMMA OneUneven == ASSUME NEW k \in 0..15 PROVE Uneven({k})
  BY DEF Uneven, Odd, OddHigh, Differ

LEMMA AllEven == ~Uneven(0..15) /\ ~Uneven({})
  BY DEF Uneven, Odd, OddHigh, Differ

-----------------------------------------------------------------------------
(* A damage of the length: the payload that is then read, and its          *)
(* checksum.                                                               *)

(* d differs from f in the low byte of the length, which says L, and its   *)
(* payload of L bytes passes the check.                                    *)
Mislaid(f, d, bits, L) ==
    /\ L \in 1..44 /\ d \in Seq(Octets) /\ Len(d) = 60 /\ d[13] = L /\ d[14] = 0
    /\ \A i \in 1..60 : i # 13 => d[i] = f[i]
    /\ Flips(bits, 13) # {} /\ Flips(bits, 14) = {}
    /\ BitsOf(L) = Xor(BitsOf(f[13]), Flips(bits, 13))
    /\ Intact(d, 12, 16 + L, 14)

LEMMA LengthHit ==
    ASSUME NEW f, NEW payload, Built(f, payload), NEW d, NEW bits \in Damages, Harmed(f, d, bits),
           WordAt(d, 12) # 0, WordAt(d, 12) # Len(payload), ParseFrame(d) # BadFrame
    PROVE  Mislaid(f, d, bits, WordAt(d, 12))
  <1> DEFINE L == WordAt(d, 12)
  <1>1. /\ f \in Seq(Octets) /\ Len(f) = 60 /\ Intact(f, 0, 12, 6)
        /\ f[13] = Len(payload) /\ f[14] = 0
    BY DEF Built
  <1>2. /\ d \in Seq(Octets) /\ Len(d) = 60
        /\ \A i \in 1..60 : BitsOf(d[i]) = Xor(BitsOf(f[i]), Flips(bits, i))
        /\ \A i \in 1..60 : Flips(bits, i) = {} => d[i] = f[i]
    BY <1>1 DEF Harmed
  <1>3. d[13] \in 0..255 /\ d[14] \in 0..255
    <2>1. \A i \in 1..Len(d) : d[i] \in Octets
      BY <1>2, OctetsOf
    <2>2. 13 \in 1..Len(d) /\ 14 \in 1..Len(d)
      BY <1>2
    <2> QED  BY <2>1, <2>2 DEF Octets
  <1>4. L = d[13] + 256 * d[14]
    BY DEF WordAt
  <1>5. L \in Nat /\ L # 0 /\ L # Len(payload)
    <2>1. \A x, y \in 0..255 : x + 256 * y \in Nat
      OBVIOUS
    <2>2. PICK x \in 0..255, y \in 0..255 : x = d[13] /\ y = d[14]
      BY <1>3, Zenon
    <2>3. L = x + 256 * y
      BY <1>4, <2>2
    <2>4. L \in Nat
      BY <2>1, <2>3
    <2> QED  BY <2>4
  <1>6. ParseFrame(d) =
          IF d[1] # 170 \/ ~Intact(d, 0, 12, 6) THEN BadFrame
          ELSE IF L = 0 THEN ReadAs(d, <<>>)
          ELSE IF L > 44 \/ ~Intact(d, 12, 16 + L, 14) THEN BadFrame
          ELSE ReadAs(d, SubSeq(d, 17, 16 + L))
    <2>1. WordAt(d, 12) \in Nat /\ Len(d) = 60
      BY <1>2, <1>5
    <2> QED  BY <2>1, ParsedIs
  <1> HIDE DEF L
  <1>7. Intact(d, 0, 12, 6) /\ ~(L > 44) /\ Intact(d, 12, 16 + L, 14)
    BY <1>5, <1>6
  <1>8. L \in 1..44 /\ d[14] = 0 /\ d[13] = L
    <2>1. \A x, y \in 0..255 : x + 256 * y <= 44 => y = 0 /\ x + 256 * y = x
      OBVIOUS
    <2>2. \A k \in Nat : k # 0 /\ ~(k > 44) => k \in 1..44 /\ k <= 44
      OBVIOUS
    <2>3. L \in 1..44 /\ L <= 44
      BY <1>5, <1>7, <2>2, Zenon
    <2>4. PICK x \in 0..255, y \in 0..255 : x = d[13] /\ y = d[14]
      BY <1>3, Zenon
    <2>5. L = x + 256 * y
      BY <1>4, <2>4
    <2>6. y = 0 /\ x = L
      BY <2>1, <2>3, <2>5
    <2> QED  BY <2>3, <2>4, <2>6
  <1>9. PICK q \in 1..60 : Burst(bits, q)
    BY Bursts
  <1>10. q \notin 1..12
    <2>1. ASSUME q \in 1..12 PROVE FALSE
      BY <1>1, <1>7, <1>9, <2>1, TopIsBad, Zenon
    <2> QED  BY <2>1
  <1>11. Flips(bits, 13) # {}
    <2>1. d[13] # f[13]
      BY <1>1, <1>5, <1>8
    <2>2. 13 \in 1..60
      OBVIOUS
    <2> QED  BY <1>2, <2>1, <2>2, Zenon
  <1>12. Flips(bits, 14) = {}
    <2>1. BitsOf(d[14]) = Xor(BitsOf(f[14]), Flips(bits, 14))
      <3>1. 14 \in 1..60 /\ \A i \in 1..60 : BitsOf(d[i]) = Xor(BitsOf(f[i]), Flips(bits, i))
        BY <1>2
      <3> QED  BY <3>1
    <2>2. BitsOf(d[14]) = {} /\ BitsOf(f[14]) = {}
      BY <1>1, <1>8, ZeroBits, Zenon
    <2> QED  BY <2>1, <2>2, NoneXor, Zenon
  <1>13. \A i \in 1..60 : i # 13 => d[i] = f[i]
    <2>1. \A i \in Int : i # q /\ i # q + 1 => Flips(bits, i) = {}
      BY <1>9 DEF Burst
    <2>2. q = 13
      BY <1>9, <1>10, <1>11, <2>1
    <2> SUFFICES ASSUME NEW i \in 1..60, i # 13 PROVE d[i] = f[i]
      OBVIOUS
    <2>3. Flips(bits, i) = {}
      BY <1>12, <2>1, <2>2
    <2> QED  BY <1>2, <2>3
  <1>14. BitsOf(L) = Xor(BitsOf(f[13]), Flips(bits, 13))
    BY <1>2, <1>8
  <1> QED  BY <1>2, <1>7, <1>8, <1>11, <1>12, <1>13, <1>14 DEF Mislaid, L

(* The bytes that the checksum of such a frame is computed over.           *)
LEMMA MislaidFeed ==
    ASSUME NEW f, NEW payload, Built(f, payload), NEW d, NEW bits, NEW L, Mislaid(f, d, bits, L)
    PROVE  LET F == Feed(d, 12, 14, 4 + L)
           IN /\ F[1] = BitsOf(L) /\ F[2] = {} /\ F[3] = {} /\ F[4] = {}
              /\ \A i \in 1..L : F[4 + i] = IF i <= Len(payload) THEN BitsOf(payload[i]) ELSE {}
              /\ \A i \in 1..4 + L : F[i] \in Regs
  <1> DEFINE F == Feed(d, 12, 14, 4 + L)
             n == Len(payload)
  <1>1. /\ L \in 1..44 /\ d[13] = L /\ d[14] = 0 /\ \A i \in 1..60 : i # 13 => d[i] = f[i]
    BY DEF Mislaid
  <1>2. /\ n \in 0..44 /\ \A i \in 1..n : f[16 + i] = payload[i]
        /\ \A i \in 17 + n..60 : f[i] = 0
    <2>1. n \in 0..44
      BY BuiltLen, Zenon
    <2> QED  BY <2>1 DEF Built
  <1> HIDE DEF n
  <1>3. \A i \in 1..4 + L : F[i] = IF i = 3 \/ i = 4 THEN {} ELSE BitsOf(d[12 + i])
    <2> SUFFICES ASSUME NEW i \in 1..4 + L
                 PROVE  F[i] = IF i = 3 \/ i = 4 THEN {} ELSE BitsOf(d[12 + i])
      OBVIOUS
    <2>1. F[i] = IF 12 + i - 1 \in {14, 14 + 1} THEN {} ELSE BitsOf(d[12 + i])
      BY DEF Feed
    <2>2. 12 + i - 1 \in {14, 14 + 1} <=> i = 3 \/ i = 4
      BY <1>1
    <2> QED  BY <2>1, <2>2
  <1> HIDE DEF F
  <1>4. 1 \in 1..4 + L /\ 2 \in 1..4 + L /\ 3 \in 1..4 + L /\ 4 \in 1..4 + L
    BY <1>1
  <1>5. F[1] = BitsOf(L) /\ F[2] = {} /\ F[3] = {} /\ F[4] = {}
    <2>1. F[1] = BitsOf(d[12 + 1]) /\ F[2] = BitsOf(d[12 + 2]) /\ F[3] = {} /\ F[4] = {}
      BY <1>3, <1>4
    <2>2. 12 + 1 = 13 /\ 12 + 2 = 14
      OBVIOUS
    <2> QED  BY <1>1, <2>1, <2>2, ZeroBits
  <1>6. ASSUME NEW i \in 1..L
        PROVE  F[4 + i] = IF i <= n THEN BitsOf(payload[i]) ELSE {}
    <2>1. 4 + i \in 1..4 + L /\ ~(4 + i = 3 \/ 4 + i = 4) /\ 12 + (4 + i) = 16 + i
      BY <1>1
    <2>2. F[4 + i] = BitsOf(d[16 + i])
      BY <1>3, <2>1
    <2>3. d[16 + i] = f[16 + i]
      BY <1>1
    <2>4. CASE i <= n
      BY <1>2, <2>2, <2>3, <2>4
    <2>5. CASE ~(i <= n)
      <3>1. 16 + i \in 17 + n..60
        BY <1>1, <1>2, <2>5
      <3>2. f[16 + i] = 0
        BY <1>2, <3>1
      <3> QED  BY <2>2, <2>3, <2>5, <3>2, ZeroBits
    <2> QED  BY <2>4, <2>5
  <1>7. \A i \in 1..4 + L : F[i] \in Regs
    BY <1>3, BitsAre DEF Regs
  <1> QED  BY <1>5, <1>6, <1>7 DEF F, n

(* The checksum of n bytes of F is A.                                      *)
Ends(g, F, n, A) == Fed(g, F, n) /\ g[0] = 0..15 /\ (0..15) \ g[n] = A

LEMMA MislaidEnds ==
    ASSUME NEW f, NEW payload, Built(f, payload), NEW d, NEW bits, NEW L, Mislaid(f, d, bits, L)
    PROVE  \E g : Ends(g, Feed(d, 12, 14, 4 + L), 4 + L, BitsOf(BodyOf(payload)))
  <1>1. /\ L \in 1..44 /\ d \in Seq(Octets) /\ Len(d) = 60 /\ Intact(d, 12, 16 + L, 14)
        /\ \A i \in 1..60 : i # 13 => d[i] = f[i]
    BY DEF Mislaid
  <1>2. d \in Seq(Int)
    BY <1>1, OctetSeq
  <1>3. PICK from \in Nat, to \in Nat, at \in Nat : from = 12 /\ to = 16 + L /\ at = 14
    BY <1>1
  <1>4. to \in from..Len(d) /\ Intact(d, from, to, at) /\ to - from = 4 + L
    BY <1>1, <1>3
  <1>5. PICK g : Summed(g, d, from, at, to - from)
    BY <1>2, <1>4, SectionIs, Zenon
  <1>6. Summed(g, d, 12, 14, 4 + L)
    BY <1>3, <1>4, <1>5
  <1>7. WordAt(d, 14) = BodyOf(payload)
    <2>1. WordAt(f, 14) = BodyOf(payload)
      BY DEF Built
    <2>2. d[14 + 1] = f[14 + 1] /\ d[14 + 2] = f[14 + 2]
      BY <1>1
    <2> QED  BY <2>1, <2>2 DEF WordAt
  <1> QED  BY <1>6, <1>7 DEF Summed, Ends

(* The same of the frame as it was sent, if it has a payload.              *)
LEMMA SentEnds ==
    ASSUME NEW f, NEW payload, Built(f, payload), payload # <<>>
    PROVE  \E h : Ends(h, Feed(f, 12, 14, 4 + Len(payload)), 4 + Len(payload),
                       BitsOf(BodyOf(payload)))
  <1> DEFINE n == Len(payload)
  <1>1. f \in Seq(Octets) /\ Len(f) = 60 /\ Intact(f, 12, 16 + n, 14)
    BY DEF Built
  <1>2. f \in Seq(Int) /\ n \in 0..44
    BY <1>1, OctetSeq, BuiltLen
  <1> HIDE DEF n
  <1>3. PICK from \in Nat, to \in Nat, at \in Nat : from = 12 /\ to = 16 + n /\ at = 14
    BY <1>2
  <1>4. to \in from..Len(f) /\ Intact(f, from, to, at) /\ to - from = 4 + n
    BY <1>1, <1>2, <1>3
  <1>5. PICK h : Summed(h, f, from, at, to - from)
    BY <1>2, <1>4, SectionIs, Zenon
  <1>6. Summed(h, f, 12, 14, 4 + n)
    BY <1>3, <1>4, <1>5
  <1>7. WordAt(f, 14) = BodyOf(payload)
    BY DEF Built
  <1> QED  BY <1>6, <1>7 DEF Summed, Ends, n

LEMMA SentFeed ==
    ASSUME NEW f, NEW payload, Built(f, payload)
    PROVE  LET F == Feed(f, 12, 14, 4 + Len(payload))
           IN /\ F[1] = BitsOf(Len(payload)) /\ F[2] = {} /\ F[3] = {} /\ F[4] = {}
              /\ \A i \in 1..Len(payload) : F[4 + i] = BitsOf(payload[i])
              /\ \A i \in 1..4 + Len(payload) : F[i] \in Regs
  <1> DEFINE n == Len(payload)
             F == Feed(f, 12, 14, 4 + n)
  <1>1. /\ f[13] = n /\ f[14] = 0 /\ n \in 0..44 /\ \A i \in 1..n : f[16 + i] = payload[i]
    <2>1. n \in 0..44
      BY BuiltLen, Zenon
    <2> QED  BY <2>1 DEF Built
  <1> HIDE DEF n
  <1>2. \A i \in 1..4 + n : F[i] = IF i = 3 \/ i = 4 THEN {} ELSE BitsOf(f[12 + i])
    <2> SUFFICES ASSUME NEW i \in 1..4 + n
                 PROVE  F[i] = IF i = 3 \/ i = 4 THEN {} ELSE BitsOf(f[12 + i])
      OBVIOUS
    <2>1. F[i] = IF 12 + i - 1 \in {14, 14 + 1} THEN {} ELSE BitsOf(f[12 + i])
      BY DEF Feed
    <2>2. 12 + i - 1 \in {14, 14 + 1} <=> i = 3 \/ i = 4
      BY <1>1
    <2> QED  BY <2>1, <2>2
  <1> HIDE DEF F
  <1>3. F[1] = BitsOf(n) /\ F[2] = {} /\ F[3] = {} /\ F[4] = {}
    <2>1. 1 \in 1..4 + n /\ 2 \in 1..4 + n /\ 3 \in 1..4 + n /\ 4 \in 1..4 + n
      BY <1>1
    <2>2. F[1] = BitsOf(f[12 + 1]) /\ F[2] = BitsOf(f[12 + 2]) /\ F[3] = {} /\ F[4] = {}
      BY <1>2, <2>1
    <2>3. 12 + 1 = 13 /\ 12 + 2 = 14
      OBVIOUS
    <2> QED  BY <1>1, <2>2, <2>3, ZeroBits
  <1>4. ASSUME NEW i \in 1..n PROVE F[4 + i] = BitsOf(payload[i])
    <2>1. 4 + i \in 1..4 + n /\ ~(4 + i = 3 \/ 4 + i = 4) /\ 12 + (4 + i) = 16 + i
      BY <1>1
    <2>2. F[4 + i] = BitsOf(f[16 + i])
      BY <1>2, <2>1
    <2> QED  BY <1>1, <2>2
  <1>5. \A i \in 1..4 + n : F[i] \in Regs
    BY <1>2, BitsAre DEF Regs
  <1> QED  BY <1>3, <1>4, <1>5 DEF F, n

(* One flipped bit that makes the length longer leaves the checksum with   *)
(* an odd number of wrong bits.                                            *)
LEMMA LongerIsBad ==
    ASSUME NEW f, NEW payload, Built(f, payload), NEW d, NEW bits, NEW L, Mislaid(f, d, bits, L),
           NEW k \in 0..7, Flips(bits, 13) = {k}, L > Len(payload)
    PROVE  FALSE
  <1> DEFINE n == Len(payload)
             F == Feed(d, 12, 14, 4 + L)
             G == Feed(f, 12, 14, 4 + n)
             body == BitsOf(BodyOf(payload))
  <1>1. L \in 1..44 /\ BitsOf(L) = Xor(BitsOf(f[13]), Flips(bits, 13))
    BY DEF Mislaid
  <1>2. n \in 0..44 /\ (n = 0 <=> payload = <<>>) /\ n < L
    <2>1. n \in 0..44 /\ (n = 0 <=> payload = <<>>)
      BY BuiltLen, Zenon
    <2> QED  BY <1>1, <2>1
  <1>3. f[13] = n
    BY DEF Built
  <1>4. /\ F[1] = BitsOf(L) /\ F[2] = {} /\ F[3] = {} /\ F[4] = {}
        /\ \A i \in 1..L : F[4 + i] = IF i <= n THEN BitsOf(payload[i]) ELSE {}
        /\ \A i \in 1..4 + L : F[i] \in Regs
    BY MislaidFeed, Zenon
  <1>13. PICK g : Ends(g, F, 4 + L, body)
    BY MislaidEnds, Zenon
  <1>5. Fed(g, F, 4 + L) /\ g[0] = 0..15 /\ (0..15) \ g[4 + L] = body
    BY <1>13 DEF Ends
  <1>6. /\ G[1] = BitsOf(n) /\ G[2] = {} /\ G[3] = {} /\ G[4] = {}
        /\ \A i \in 1..n : G[4 + i] = BitsOf(payload[i])
        /\ \A i \in 1..4 + n : G[i] \in Regs
    BY SentFeed, Zenon
  <1>7. n # 0 => \E h : Ends(h, G, 4 + n, body)
    <2>1. n # 0 => payload # <<>>
      BY <1>2
    <2> QED  BY <2>1, SentEnds, Zenon
  <1>8. n = 0 => body = {}
    BY <1>2, ZeroBits DEF BodyOf
  <1> HIDE DEF n, F, G, body
  <1>9. Differ(Uneven(F[1]), Uneven(G[1]))
    <2>1. F[1] = Xor(G[1], {k})
      BY <1>1, <1>3, <1>4, <1>6
    <2>2. Uneven({k})
      <3>1. k \in 0..15
        OBVIOUS
      <3> QED  BY <3>1, OneUneven
    <2>3. Uneven(Xor(G[1], {k})) <=> Differ(Uneven(G[1]), Uneven({k}))
      BY UnevenXor
    <2> QED  BY <2>1, <2>2, <2>3 DEF Differ
  <1>10. g \in [0..4 + L -> Regs] /\ g[4 + L] \in Regs
    <2>1. 4 + L \in 0..4 + L
      BY <1>1
    <2> QED  BY <1>5, <2>1 DEF Fed
  <1>11. CASE n # 0
    <2>6. PICK h : Ends(h, G, 4 + n, body)
      BY <1>7, <1>11
    <2>1. Fed(h, G, 4 + n) /\ h[0] = 0..15 /\ (0..15) \ h[4 + n] = body
      BY <2>6 DEF Ends
    <2>2. Unlike(g, F, 4 + L, h, G, 4 + n, 4 + n)
      <3>1. 4 + L \in Nat /\ 4 + n \in Nat /\ 4 + n \in 1..4 + L /\ 4 + n \in 1..4 + n
        BY <1>1, <1>2
      <3>2. ASSUME NEW i \in 1..4 + n
            PROVE  F[i] \in Regs /\ G[i] \in Regs /\ (i # 1 => F[i] = G[i])
        <4>1. i \in 1..4 + L
          BY <1>1, <1>2
        <4>2. CASE i = 1 \/ i = 2 \/ i = 3 \/ i = 4
          BY <1>4, <1>6, <4>1, <4>2
        <4>3. CASE ~(i = 1 \/ i = 2 \/ i = 3 \/ i = 4)
          <5>1. PICK j \in 1..n : i = 4 + j
            <6>1. i - 4 \in 1..n /\ i = 4 + (i - 4)
              BY <1>2, <4>3
            <6> QED  BY <6>1
          <5>2. j \in 1..L /\ j <= n
            BY <1>1, <1>2, <5>1
          <5> QED  BY <1>4, <1>6, <4>1, <5>1, <5>2
        <4> QED  BY <4>2, <4>3
      <3> QED  BY <1>5, <2>1, <3>1, <3>2 DEF Unlike
    <2>3. Differ(Uneven(g[4 + n]), Uneven(h[4 + n]))
      BY <1>9, <2>2, StayUnlike
    <2>4. Uneven(g[4 + L]) <=> Uneven(g[4 + n])
      <3>1. 4 + L \in Nat /\ 4 + n \in 0..4 + L /\ 4 + L \in 4 + n..4 + L
        BY <1>1, <1>2
      <3>2. Silent(F, 4 + n, 4 + L)
        <4> SUFFICES ASSUME NEW i \in 4 + n + 1..4 + L PROVE F[i] = {}
          BY DEF Silent
        <4>1. i - 4 \in 1..L /\ ~(i - 4 <= n) /\ 4 + (i - 4) = i
          BY <1>1, <1>2
        <4> QED  BY <1>4, <4>1
      <3> QED  BY <1>5, <3>1, <3>2, FedUneven
    <2>5. g[4 + L] = h[4 + n]
      <3>1. h[4 + n] \in Regs
        <4>1. 4 + n \in 0..4 + n
          BY <1>2
        <4> QED  BY <2>1, <4>1 DEF Fed
      <3>2. \A A, B \in Regs : (0..15) \ A = (0..15) \ B => A = B
        BY DEF Regs
      <3> QED  BY <1>5, <1>10, <2>1, <3>1, <3>2
    <2> QED  BY <2>3, <2>4, <2>5 DEF Differ
  <1>12. CASE n = 0
    <2>1. g[4 + L] = 0..15
      BY <1>5, <1>8, <1>10, <1>12 DEF Regs
    <2>2. Uneven(g[4 + L]) <=> Uneven(g[1])
      <3>1. 4 + L \in Nat /\ 1 \in 0..4 + L /\ 4 + L \in 1..4 + L
        BY <1>1
      <3>2. Silent(F, 1, 4 + L)
        <4> SUFFICES ASSUME NEW i \in 1 + 1..4 + L PROVE F[i] = {}
          BY DEF Silent
        <4>1. CASE i = 2 \/ i = 3 \/ i = 4
          BY <1>4, <4>1
        <4>2. CASE ~(i = 2 \/ i = 3 \/ i = 4)
          <5>1. i - 4 \in 1..L /\ ~(i - 4 <= n) /\ 4 + (i - 4) = i
            BY <1>1, <1>12, <4>2
          <5> QED  BY <1>4, <5>1
        <4> QED  BY <4>1, <4>2
      <3> QED  BY <1>5, <3>1, <3>2, FedUneven
    <2>3. Uneven(g[1]) <=> Differ(Uneven(0..15), Uneven(F[1]))
      <3>1. 1 \in 1..4 + L /\ 1 - 1 = 0
        BY <1>1
      <3>2. g[1] = Eight(Xor(g[0], F[1])) /\ F[1] \in Regs
        BY <1>4, <1>5, <3>1 DEF Fed
      <3>3. (0..15) \in Regs
        BY DEF Regs
      <3>4. Uneven(g[1]) <=> Uneven(Xor(0..15, F[1]))
        BY <1>5, <3>2, <3>3, XorReg, EightUneven
      <3> QED  BY <3>4, UnevenXor
    <2>4. ~Uneven(G[1])
      BY <1>6, <1>12, ZeroBits, AllEven
    <2> QED  BY <1>9, <2>1, <2>2, <2>3, <2>4, AllEven DEF Differ
  <1> QED  BY <1>11, <1>12

-----------------------------------------------------------------------------
(* The lengths that a damage makes of the lengths of the sample, and the   *)
(* register that the bytes which are then read leave.                      *)

(* What damage there can be in the low byte of the length: one bit of it,  *)
(* or two neighbours.                                                      *)
LEMMA LengthFlips ==
    ASSUME NEW bits \in Damages, Flips(bits, 13) # {}, Flips(bits, 14) = {}
    PROVE  \/ \E k \in 0..7 : Flips(bits, 13) = {k}
           \/ \E k \in 0..6 : Flips(bits, 13) = {k, k + 1}
  <1>1. PICK b \in 0..479 : bits = {b} \/ bits = {b, b + 1}
    BY DamageIs
  <1>2. PICK F : F = Flips(bits, 13)
    OBVIOUS
  <1>3. \A k : k \in F <=> k \in 0..7 /\ k + 96 \in bits
    <2>1. PICK i \in Int : i = 13
      OBVIOUS
    <2>2. bits \in SUBSET Int /\ 8 * (i - 1) = 96
      BY <1>1, <2>1
    <2> SUFFICES ASSUME NEW k PROVE k \in F <=> k \in 0..7 /\ k + 96 \in bits
      OBVIOUS
    <2>3. k \in Flips(bits, i) <=> k \in 0..7 /\ k + 8 * (i - 1) \in bits
      BY <2>2, FlipIs
    <2> QED  BY <1>2, <2>1, <2>2, <2>3
  <1>4. PICK j \in F : TRUE
    BY <1>2
  <1>5. j \in 0..7 /\ j + 96 \in bits
    BY <1>3, <1>4
  <1>6. CASE bits = {b}
    <2>1. \A k \in F : k = j
      BY <1>3, <1>5, <1>6
    <2>2. F = {j}
      BY <1>4, <2>1, OnlyOne
    <2> QED  BY <1>2, <1>5, <2>2
  <1>7. CASE bits = {b, b + 1}
    <2>1. PICK c \in Int : c = b - 96
      OBVIOUS
    <2>2. \A k : k \in F <=> k \in 0..7 /\ (k = c \/ k = c + 1)
      BY <1>1, <1>3, <1>7, <2>1
    <2>3. CASE c \in 0..6
      <3>1. F = {c, c + 1}
        BY <2>2, <2>3
      <3> QED  BY <1>2, <2>3, <3>1
    <2>4. CASE c \notin 0..6
      <3>1. \A k \in F : k = j
        BY <1>4, <2>2, <2>4
      <3>2. F = {j}
        BY <1>4, <3>1, OnlyOne
      <3> QED  BY <1>2, <1>5, <3>2
    <2> QED  BY <2>3, <2>4
  <1> QED  BY <1>1, <1>6, <1>7

LEMMA LengthSum ==
    ASSUME NEW L \in Octets, NEW A, BitsOf(L) = A
    PROVE  L = Bit(A, 0) + 2 * Bit(A, 1) + 4 * Bit(A, 2) + 8 * Bit(A, 3) + 16 * Bit(A, 4)
               + 32 * Bit(A, 5) + 64 * Bit(A, 6) + 128 * Bit(A, 7)
  <1>1. L = ValueOf(A) /\ A \in SUBSET (0..7)
    BY OctetIs, OctetBits
  <1>2. \A k \in 8..15 : Bit(A, k) = 0
    BY <1>1 DEF Bit
  <1>3. Byte(A, 8) = 0
    BY <1>2 DEF Byte, Digit
  <1>4. \A k : Bit(A, k) \in 0..1
    BY BitIs
  <1> QED  BY <1>1, <1>3, <1>4 DEF ValueOf, Byte, Digit

LEMMA SmallBits ==
    /\ BitsOf(1) = {0} /\ BitsOf(4) = {2} /\ BitsOf(5) = {0, 2} /\ BitsOf(226) = {1, 5, 6, 7}
  <1>1. ASSUME NEW n, NEW k \in 0..15 PROVE k \in BitsOf(n) <=> (n \div Weights[k + 1]) % 2 = 1
    BY DEF BitsOf
  <1>2. \A n : BitsOf(n) \in Regs
    BY BitsAre
  <1>3. \A k \in 0..15 : /\ k \in BitsOf(1) <=> k = 0
                         /\ k \in BitsOf(4) <=> k = 2
                         /\ k \in BitsOf(5) <=> k \in {0, 2}
                         /\ k \in BitsOf(226) <=> k \in {1, 5, 6, 7}
    BY <1>1, SixteenCases DEF Weights
  <1>4. {0} \in Regs /\ {2} \in Regs /\ {0, 2} \in Regs /\ {1, 5, 6, 7} \in Regs
    BY DEF Regs
  <1> QED  BY <1>2, <1>3, <1>4, SameReg

(* Whatever is fed with F is A after m bytes.                              *)
Reaches(F, n, m, A) == \A g : Fed(g, F, n) /\ g[0] = 0..15 => g[m] = A

(* From there it becomes U by the next byte that is fed, and B by that and *)
(* the k - 1 bytes of zeros after it.                                      *)
Goes(F, n, m, k, A, U, B) ==
    /\ n \in Nat /\ m \in Nat /\ k \in Nat /\ k > 0 /\ m + k <= n
    /\ Reaches(F, n, m, A) /\ Xor(A, F[m + 1]) = U /\ Passes(U, k, B)
    /\ \A i \in m + 2..m + k : F[i] = {}

LEMMA ReachesFirst == ASSUME NEW F, NEW n PROVE Reaches(F, n, 0, 0..15)
  BY DEF Reaches

LEMMA ReachesOn ==
    ASSUME NEW F, NEW n, NEW m, NEW k, NEW A, NEW U, NEW B, Goes(F, n, m, k, A, U, B)
    PROVE  Reaches(F, n, m + k, B)
  <1>1. /\ n \in Nat /\ m \in Nat /\ k \in Nat /\ k > 0 /\ m + k <= n
        /\ Reaches(F, n, m, A) /\ Xor(A, F[m + 1]) = U /\ Passes(U, k, B)
        /\ \A i \in m + 2..m + k : F[i] = {}
    BY DEF Goes
  <1> SUFFICES ASSUME NEW g, Fed(g, F, n), g[0] = 0..15 PROVE g[m + k] = B
    BY DEF Reaches
  <1>2. g[m] = A
    BY <1>1 DEF Reaches
  <1>3. PICK p : p = m + 1
    OBVIOUS
  <1>4. PICK e : e = m + k
    OBVIOUS
  <1>5. /\ p \in 1..n /\ e \in p..n /\ p - 1 = m /\ e - (p - 1) = k /\ p + 1 = m + 2
    BY <1>1, <1>3, <1>4
  <1>6. Silent(F, p, e)
    BY <1>1, <1>4, <1>5 DEF Silent
  <1>7. Xor(g[p - 1], F[p]) = U
    BY <1>1, <1>2, <1>3, <1>5
  <1>8. Coasts(g, F, n, p, e, U, B)
    BY <1>1, <1>5, <1>6, <1>7 DEF Coasts
  <1> QED  BY <1>4, <1>8, FedPasses

LEMMA ReachesEnd ==
    ASSUME NEW F, NEW n, NEW B, Reaches(F, n, n, B), NEW g, NEW C, Ends(g, F, n, C)
    PROVE  C = (0..15) \ B
  BY DEF Ends, Reaches

(* The checksum of the frame with the payload is that of A; whatever is    *)
(* fed with F becomes another register than A.                             *)
Sums(payload, A) == BitsOf(BodyOf(payload)) = (0..15) \ A
Strays(F, n, A) == \E B : Reaches(F, n, n, B) /\ \E k \in 0..15 : ~(k \in A <=> k \in B)

LEMMA OtherEnd ==
    ASSUME NEW f, NEW payload, Built(f, payload), NEW d, NEW bits, NEW L, Mislaid(f, d, bits, L),
           NEW A, Sums(payload, A), Strays(Feed(d, 12, 14, 4 + L), 4 + L, A)
    PROVE  FALSE
  <1>1. PICK g : Ends(g, Feed(d, 12, 14, 4 + L), 4 + L, BitsOf(BodyOf(payload)))
    BY MislaidEnds, Zenon
  <1>2. PICK B : /\ Reaches(Feed(d, 12, 14, 4 + L), 4 + L, 4 + L, B)
                 /\ \E k \in 0..15 : ~(k \in A <=> k \in B)
    BY DEF Strays
  <1>3. BitsOf(BodyOf(payload)) = (0..15) \ B
    BY <1>1, <1>2, ReachesEnd, Zenon
  <1>4. BitsOf(BodyOf(payload)) = (0..15) \ A
    BY DEF Sums
  <1> QED  BY <1>2, <1>3, <1>4

(* The lengths that one damage makes of 0, 4 and 5, but for those that are *)
(* longer by one bit.                                                      *)
Octave(A, L) ==
    L = Bit(A, 0) + 2 * Bit(A, 1) + 4 * Bit(A, 2) + 8 * Bit(A, 3) + 16 * Bit(A, 4)
        + 32 * Bit(A, 5) + 64 * Bit(A, 6) + 128 * Bit(A, 7)

LEMMA LengthBits ==
    ASSUME NEW f, NEW payload, Built(f, payload), NEW d, NEW bits, NEW L, Mislaid(f, d, bits, L)
    PROVE  L \in 1..44 /\ Octave(Xor(BitsOf(Len(payload)), Flips(bits, 13)), L)
  <1>1. L \in 1..44 /\ BitsOf(L) = Xor(BitsOf(f[13]), Flips(bits, 13))
    BY DEF Mislaid
  <1>2. f[13] = Len(payload)
    BY DEF Built
  <1>3. L \in Octets
    BY <1>1 DEF Octets
  <1>4. Octave(BitsOf(L), L)
    BY <1>3, LengthSum DEF Octave
  <1> QED  BY <1>1, <1>2, <1>4, Zenon

LEMMA FromNone ==
    ASSUME NEW F, (\E k \in 0..7 : F = {k}) \/ \E k \in 0..6 : F = {k, k + 1},
           NEW L \in 1..44, Octave(Xor({}, F), L)
    PROVE  \/ \E k \in 0..7 : F = {k}
           \/ F = {0, 1} /\ L = 3
           \/ F = {1, 2} /\ L = 6
           \/ F = {2, 3} /\ L = 12
           \/ F = {3, 4} /\ L = 24
  <1> SUFFICES ASSUME NEW k \in 0..6, F = {k, k + 1}
               PROVE  \/ F = {0, 1} /\ L = 3
                      \/ F = {1, 2} /\ L = 6
                      \/ F = {2, 3} /\ L = 12
                      \/ F = {3, 4} /\ L = 24
    OBVIOUS
  <1>1. Xor({}, F) = F
    BY NoneXor
  <1>2. Octave(F, L)
    BY <1>1
  <1>3. \A j : j \in F <=> j = k \/ j = k + 1
    OBVIOUS
  <1>4. \/ k = 0 /\ L = 3
        \/ k = 1 /\ L = 6
        \/ k = 2 /\ L = 12
        \/ k = 3 /\ L = 24
    BY <1>2, <1>3 DEF Octave, Bit
  <1> QED  BY <1>4

LEMMA FromFour ==
    ASSUME NEW F, (\E k \in 0..7 : F = {k}) \/ \E k \in 0..6 : F = {k, k + 1},
           NEW L \in 1..44, Octave(Xor({2}, F), L)
    PROVE  \/ L > 4 /\ \E k \in 0..7 : F = {k}
           \/ F = {0, 1} /\ L = 7
           \/ F = {1, 2} /\ L = 2
           \/ F = {2, 3} /\ L = 8
           \/ F = {3, 4} /\ L = 28
  <1> DEFINE A == Xor({2}, F)
  <1>1. \A j : j \in A <=> Differ(j = 2, j \in F)
    BY XorIs
  <1> HIDE DEF A
  <1>2. Octave(A, L)
    BY DEF A
  <1>3. ASSUME NEW k \in 0..7, F = {k} PROVE L > 4
    BY <1>1, <1>2, <1>3 DEF Octave, Bit, Differ
  <1>4. ASSUME NEW k \in 0..6, F = {k, k + 1}
        PROVE  \/ F = {0, 1} /\ L = 7
               \/ F = {1, 2} /\ L = 2
               \/ F = {2, 3} /\ L = 8
               \/ F = {3, 4} /\ L = 28
    BY <1>1, <1>2, <1>4 DEF Octave, Bit, Differ
  <1> QED  BY <1>3, <1>4

LEMMA FromFive ==
    ASSUME NEW F, (\E k \in 0..7 : F = {k}) \/ \E k \in 0..6 : F = {k, k + 1},
           NEW L \in 1..44, Octave(Xor({0, 2}, F), L)
    PROVE  \/ L > 5 /\ \E k \in 0..7 : F = {k}
           \/ F = {0} /\ L = 4
           \/ F = {2} /\ L = 1
           \/ F = {0, 1} /\ L = 6
           \/ F = {1, 2} /\ L = 3
           \/ F = {2, 3} /\ L = 9
           \/ F = {3, 4} /\ L = 29
  <1> DEFINE A == Xor({0, 2}, F)
  <1>1. \A j : j \in A <=> Differ(j = 0 \/ j = 2, j \in F)
    BY XorIs
  <1> HIDE DEF A
  <1>2. Octave(A, L)
    BY DEF A
  <1>3. ASSUME NEW k \in 0..7, F = {k} PROVE L > 5 \/ (k = 0 /\ L = 4) \/ (k = 2 /\ L = 1)
    BY <1>1, <1>2, <1>3 DEF Octave, Bit, Differ
  <1>4. ASSUME NEW k \in 0..6, F = {k, k + 1}
        PROVE  \/ F = {0, 1} /\ L = 6
               \/ F = {1, 2} /\ L = 3
               \/ F = {2, 3} /\ L = 9
               \/ F = {3, 4} /\ L = 29
    BY <1>1, <1>2, <1>4 DEF Octave, Bit, Differ
  <1> QED  BY <1>3, <1>4

-----------------------------------------------------------------------------
(* The registers: of no payload, of the four bytes of a counter, of the    *)
(* five of an exposure; as they were sent, and as many bytes of them as a  *)
(* damaged length says.                                                    *)

LEMMA TablePasses ==
    \A m \in Nat : \A T, A, B : Chain(T, m) /\ T[1] = A /\ T[m + 1] = B => Passes(A, m, B)
  BY ChainPasses

LEMMA NoneAs3a == Passes({2, 3, 4, 5, 6, 7, 8, 9, 10, 11, 12, 13, 14, 15}, 7, {3, 5})
  <1> DEFINE T == <<
        {2, 3, 4, 5, 6, 7, 8, 9, 10, 11, 12, 13, 14, 15},
        {0, 1, 2, 3, 4, 5, 6, 7, 8, 14}, {0, 14}, {0, 7, 14, 15}, {13, 14},
        {5, 6}, {11, 13}, {3, 5}>>
  <1>1. Chain(T, 7)
    BY DEF Chain, Stepped, Odd, Differ
  <1>2. 7 \in Nat /\ T[1] = {2, 3, 4, 5, 6, 7, 8, 9, 10, 11, 12, 13, 14, 15} /\ T[7 + 1] = {3, 5}
    OBVIOUS
  <1> HIDE DEF T
  <1> QED  BY <1>1, <1>2, TablePasses, Zenon

LEMMA NoneAs3 ==
    ASSUME NEW F, F[1] = {0, 1},
           \A i \in 1..7 : i \notin {1} => F[i] = {}
    PROVE  Reaches(F, 7, 7, {3, 5})
  <1>1. Goes(F, 7, 0, 7, 0..15,
                 {2, 3, 4, 5, 6, 7, 8, 9, 10, 11, 12, 13, 14, 15},
                 {3, 5})
    <2>1. Xor(0..15, F[0 + 1]) =
            {2, 3, 4, 5, 6, 7, 8, 9, 10, 11, 12, 13, 14, 15}
      BY DEF Xor
    <2>2. \A i \in 0 + 2..0 + 7 : F[i] = {}
      OBVIOUS
    <2> QED  BY NoneAs3a, ReachesFirst, <2>1, <2>2 DEF Goes
  <1>2. Reaches(F, 7, 0 + 7, {3, 5})
    BY <1>1, ReachesOn
  <1> QED  BY <1>2

LEMMA NoneAs6ax ==
    Passes({0, 3, 4, 5, 6, 7, 8, 9, 10, 11, 12, 13, 14, 15}, 5,
           {2, 3, 5, 7})
  <1> DEFINE T == <<
        {0, 3, 4, 5, 6, 7, 8, 9, 10, 11, 12, 13, 14, 15},
        {0, 1, 2, 3, 4, 5, 9, 14}, {1, 12}, {0, 4, 7, 8, 14, 15},
        {10, 11, 13, 15}, {2, 3, 5, 7}>>
  <1>1. Chain(T, 5)
    BY DEF Chain, Stepped, Odd, Differ
  <1>2. /\ 5 \in Nat /\ T[1] = {0, 3, 4, 5, 6, 7, 8, 9, 10, 11, 12, 13, 14, 15}
        /\ T[5 + 1] = {2, 3, 5, 7}
    OBVIOUS
  <1> HIDE DEF T
  <1> QED  BY <1>1, <1>2, TablePasses, Zenon

LEMMA NoneAs6ay == Passes({2, 3, 5, 7}, 5, {4, 7, 11, 12})
  <1> DEFINE T == <<
        {2, 3, 5, 7}, {8, 10, 11, 12, 13, 14}, {0, 2, 3, 4, 5, 6},
        {6, 7, 8, 13}, {0, 5, 12, 14}, {4, 7, 11, 12}>>
  <1>1. Chain(T, 5)
    BY DEF Chain, Stepped, Odd, Differ
  <1>2. 5 \in Nat /\ T[1] = {2, 3, 5, 7} /\ T[5 + 1] = {4, 7, 11, 12}
    OBVIOUS
  <1> HIDE DEF T
  <1> QED  BY <1>1, <1>2, TablePasses, Zenon

LEMMA NoneAs6a ==
    Passes({0, 3, 4, 5, 6, 7, 8, 9, 10, 11, 12, 13, 14, 15}, 10,
           {4, 7, 11, 12})
  <1>1. Passes({0, 3, 4, 5, 6, 7, 8, 9, 10, 11, 12, 13, 14, 15}, 5 + 5,
             {4, 7, 11, 12})
    BY NoneAs6ax, NoneAs6ay, PassesOn
  <1>2. 5 + 5 = 10
    OBVIOUS
  <1>3. Passes({0, 3, 4, 5, 6, 7, 8, 9, 10, 11, 12, 13, 14, 15}, 10,
             {4, 7, 11, 12})
    BY <1>1, <1>2
  <1> QED  BY <1>3

LEMMA NoneAs6 ==
    ASSUME NEW F, F[1] = {1, 2},
           \A i \in 1..10 : i \notin {1} => F[i] = {}
    PROVE  Reaches(F, 10, 10, {4, 7, 11, 12})
  <1>1. Goes(F, 10, 0, 10, 0..15,
                 {0, 3, 4, 5, 6, 7, 8, 9, 10, 11, 12, 13, 14, 15},
                 {4, 7, 11, 12})
    <2>1. Xor(0..15, F[0 + 1]) =
            {0, 3, 4, 5, 6, 7, 8, 9, 10, 11, 12, 13, 14, 15}
      BY DEF Xor
    <2>2. \A i \in 0 + 2..0 + 10 : F[i] = {}
      OBVIOUS
    <2> QED  BY NoneAs6a, ReachesFirst, <2>1, <2>2 DEF Goes
  <1>2. Reaches(F, 10, 0 + 10, {4, 7, 11, 12})
    BY <1>1, ReachesOn
  <1> QED  BY <1>2

LEMMA NoneAs12ax ==
    Passes({0, 1, 4, 5, 6, 7, 8, 9, 10, 11, 12, 13, 14, 15}, 8,
           {6, 9, 10, 11, 12, 14})
  <1> DEFINE T == <<
        {0, 1, 4, 5, 6, 7, 8, 9, 10, 11, 12, 13, 14, 15},
        {0, 1, 2, 3, 4, 5, 7, 8, 10, 14}, {2, 12, 13, 15},
        {0, 4, 5, 7, 8, 9, 14, 15}, {0, 1, 10, 12, 13, 14}, {2, 4, 5, 8},
        {8, 9, 10, 12, 14, 15}, {0, 1, 2, 4, 6, 7}, {6, 9, 10, 11, 12, 14}>>
  <1>1. Chain(T, 8)
    BY DEF Chain, Stepped, Odd, Differ
  <1>2. /\ 8 \in Nat /\ T[1] = {0, 1, 4, 5, 6, 7, 8, 9, 10, 11, 12, 13, 14, 15}
        /\ T[8 + 1] = {6, 9, 10, 11, 12, 14}
    OBVIOUS
  <1> HIDE DEF T
  <1> QED  BY <1>1, <1>2, TablePasses, Zenon

LEMMA NoneAs12ay ==
    Passes({6, 9, 10, 11, 12, 14}, 8,
           {0, 1, 3, 4, 5, 7, 8, 10, 12, 13, 14, 15})
  <1> DEFINE T == <<
        {6, 9, 10, 11, 12, 14}, {0, 1, 2, 3, 4, 6, 12, 13, 14, 15},
        {4, 5, 7, 11, 12, 13}, {0, 3, 4, 5, 10, 12, 13, 15},
        {2, 4, 5, 6, 9, 12}, {1, 4, 8, 9, 10, 13},
        {0, 1, 2, 5, 7, 8, 10, 11}, {2, 3, 6, 9, 11, 12, 13, 15},
        {0, 1, 3, 4, 5, 7, 8, 10, 12, 13, 14, 15}>>
  <1>1. Chain(T, 8)
    BY DEF Chain, Stepped, Odd, Differ
  <1>2. /\ 8 \in Nat /\ T[1] = {6, 9, 10, 11, 12, 14}
        /\ T[8 + 1] = {0, 1, 3, 4, 5, 7, 8, 10, 12, 13, 14, 15}
    OBVIOUS
  <1> HIDE DEF T
  <1> QED  BY <1>1, <1>2, TablePasses, Zenon

LEMMA NoneAs12a ==
    Passes({0, 1, 4, 5, 6, 7, 8, 9, 10, 11, 12, 13, 14, 15}, 16,
           {0, 1, 3, 4, 5, 7, 8, 10, 12, 13, 14, 15})
  <1>1. Passes({0, 1, 4, 5, 6, 7, 8, 9, 10, 11, 12, 13, 14, 15}, 8 + 8,
             {0, 1, 3, 4, 5, 7, 8, 10, 12, 13, 14, 15})
    BY NoneAs12ax, NoneAs12ay, PassesOn
  <1>2. 8 + 8 = 16
    OBVIOUS
  <1>3. Passes({0, 1, 4, 5, 6, 7, 8, 9, 10, 11, 12, 13, 14, 15}, 16,
             {0, 1, 3, 4, 5, 7, 8, 10, 12, 13, 14, 15})
    BY <1>1, <1>2
  <1> QED  BY <1>3

LEMMA NoneAs12 ==
    ASSUME NEW F, F[1] = {2, 3},
           \A i \in 1..16 : i \notin {1} => F[i] = {}
    PROVE  Reaches(F, 16, 16, {0, 1, 3, 4, 5, 7, 8, 10, 12, 13, 14, 15})
  <1>1. Goes(F, 16, 0, 16, 0..15,
                 {0, 1, 4, 5, 6, 7, 8, 9, 10, 11, 12, 13, 14, 15},
                 {0, 1, 3, 4, 5, 7, 8, 10, 12, 13, 14, 15})
    <2>1. Xor(0..15, F[0 + 1]) =
            {0, 1, 4, 5, 6, 7, 8, 9, 10, 11, 12, 13, 14, 15}
      BY DEF Xor
    <2>2. \A i \in 0 + 2..0 + 16 : F[i] = {}
      OBVIOUS
    <2> QED  BY NoneAs12a, ReachesFirst, <2>1, <2>2 DEF Goes
  <1>2. Reaches(F, 16, 0 + 16, {0, 1, 3, 4, 5, 7, 8, 10, 12, 13, 14, 15})
    BY <1>1, ReachesOn
  <1> QED  BY <1>2

LEMMA NoneAs24ax ==
    Passes({0, 1, 2, 5, 6, 7, 8, 9, 10, 11, 12, 13, 14, 15}, 7,
           {0, 1, 7, 8})
  <1> DEFINE T == <<
        {0, 1, 2, 5, 6, 7, 8, 9, 10, 11, 12, 13, 14, 15},
        {0, 1, 2, 3, 4, 5, 7, 9, 11, 14}, {0, 1, 3, 12, 13, 15},
        {0, 4, 5, 6, 7, 8, 9, 10, 14, 15}, {1, 2, 10, 15}, {2, 9},
        {0, 1, 8, 9, 14, 15}, {0, 1, 7, 8}>>
  <1>1. Chain(T, 7)
    BY DEF Chain, Stepped, Odd, Differ
  <1>2. /\ 7 \in Nat /\ T[1] = {0, 1, 2, 5, 6, 7, 8, 9, 10, 11, 12, 13, 14, 15}
        /\ T[7 + 1] = {0, 1, 7, 8}
    OBVIOUS
  <1> HIDE DEF T
  <1> QED  BY <1>1, <1>2, TablePasses, Zenon

LEMMA NoneAs24ay == Passes({0, 1, 7, 8}, 7, {0, 1, 4, 5, 7, 8, 11, 12})
  <1> DEFINE T == <<
        {0, 1, 7, 8}, {6, 8, 13, 15}, {5, 7, 12, 13, 14, 15},
        {4, 5, 6, 7, 11, 12, 13, 14}, {3, 4, 5, 6, 10, 14}, {2, 6, 9, 13},
        {1, 5, 8, 9, 12, 13}, {0, 1, 4, 5, 7, 8, 11, 12}>>
  <1>1. Chain(T, 7)
    BY DEF Chain, Stepped, Odd, Differ
  <1>2. 7 \in Nat /\ T[1] = {0, 1, 7, 8} /\ T[7 + 1] = {0, 1, 4, 5, 7, 8, 11, 12}
    OBVIOUS
  <1> HIDE DEF T
  <1> QED  BY <1>1, <1>2, TablePasses, Zenon

LEMMA NoneAs24az == Passes({0, 1, 4, 5, 7, 8, 11, 12}, 7, {7, 9, 14, 15})
  <1> DEFINE T == <<
        {0, 1, 4, 5, 7, 8, 11, 12}, {3, 4, 6, 8, 10, 12, 13, 15},
        {2, 4, 5, 7, 9, 11, 12, 13, 14, 15},
        {1, 3, 4, 5, 6, 7, 8, 9, 10, 12, 13, 14},
        {0, 1, 2, 4, 5, 6, 7, 8, 9, 14}, {1, 9, 10, 15},
        {0, 1, 2, 8, 14, 15}, {7, 9, 14, 15}>>
  <1>1. Chain(T, 7)
    BY DEF Chain, Stepped, Odd, Differ
  <1>2. 7 \in Nat /\ T[1] = {0, 1, 4, 5, 7, 8, 11, 12} /\ T[7 + 1] = {7, 9, 14, 15}
    OBVIOUS
  <1> HIDE DEF T
  <1> QED  BY <1>1, <1>2, TablePasses, Zenon

LEMMA NoneAs24aw == Passes({7, 9, 14, 15}, 7, {0, 4, 7, 9, 11, 13})
  <1> DEFINE T == <<
        {7, 9, 14, 15}, {0, 1, 6, 7, 13, 15}, {5, 6, 7, 8, 12, 14},
        {4, 6, 11, 15}, {3, 7, 10, 11, 12, 13}, {2, 3, 4, 5, 9, 10, 13, 14},
        {1, 2, 5, 6, 8, 12}, {0, 4, 7, 9, 11, 13}>>
  <1>1. Chain(T, 7)
    BY DEF Chain, Stepped, Odd, Differ
  <1>2. 7 \in Nat /\ T[1] = {7, 9, 14, 15} /\ T[7 + 1] = {0, 4, 7, 9, 11, 13}
    OBVIOUS
  <1> HIDE DEF T
  <1> QED  BY <1>1, <1>2, TablePasses, Zenon

LEMMA NoneAs24a ==
    Passes({0, 1, 2, 5, 6, 7, 8, 9, 10, 11, 12, 13, 14, 15}, 28,
           {0, 4, 7, 9, 11, 13})
  <1>1. Passes({0, 1, 2, 5, 6, 7, 8, 9, 10, 11, 12, 13, 14, 15}, 7 + 7,
             {0, 1, 4, 5, 7, 8, 11, 12})
    BY NoneAs24ax, NoneAs24ay, PassesOn
  <1>2. 7 + 7 = 14
    OBVIOUS
  <1>3. Passes({0, 1, 2, 5, 6, 7, 8, 9, 10, 11, 12, 13, 14, 15}, 14,
             {0, 1, 4, 5, 7, 8, 11, 12})
    BY <1>1, <1>2
  <1>4. Passes({0, 1, 2, 5, 6, 7, 8, 9, 10, 11, 12, 13, 14, 15}, 14 + 7,
             {7, 9, 14, 15})
    BY <1>3, NoneAs24az, PassesOn
  <1>5. 14 + 7 = 21
    OBVIOUS
  <1>6. Passes({0, 1, 2, 5, 6, 7, 8, 9, 10, 11, 12, 13, 14, 15}, 21,
             {7, 9, 14, 15})
    BY <1>4, <1>5
  <1>7. Passes({0, 1, 2, 5, 6, 7, 8, 9, 10, 11, 12, 13, 14, 15}, 21 + 7,
             {0, 4, 7, 9, 11, 13})
    BY <1>6, NoneAs24aw, PassesOn
  <1>8. 21 + 7 = 28
    OBVIOUS
  <1>9. Passes({0, 1, 2, 5, 6, 7, 8, 9, 10, 11, 12, 13, 14, 15}, 28,
             {0, 4, 7, 9, 11, 13})
    BY <1>7, <1>8
  <1> QED  BY <1>9

LEMMA NoneAs24 ==
    ASSUME NEW F, F[1] = {3, 4},
           \A i \in 1..28 : i \notin {1} => F[i] = {}
    PROVE  Reaches(F, 28, 28, {0, 4, 7, 9, 11, 13})
  <1>1. Goes(F, 28, 0, 28, 0..15,
                 {0, 1, 2, 5, 6, 7, 8, 9, 10, 11, 12, 13, 14, 15},
                 {0, 4, 7, 9, 11, 13})
    <2>1. Xor(0..15, F[0 + 1]) =
            {0, 1, 2, 5, 6, 7, 8, 9, 10, 11, 12, 13, 14, 15}
      BY DEF Xor
    <2>2. \A i \in 0 + 2..0 + 28 : F[i] = {}
      OBVIOUS
    <2> QED  BY NoneAs24a, ReachesFirst, <2>1, <2>2 DEF Goes
  <1>2. Reaches(F, 28, 0 + 28, {0, 4, 7, 9, 11, 13})
    BY <1>1, ReachesOn
  <1> QED  BY <1>2

LEMMA FourAs4a ==
    Passes({0, 1, 3, 4, 5, 6, 7, 8, 9, 10, 11, 12, 13, 14, 15}, 4,
           {0, 10, 12})
  <1> DEFINE T == <<
        {0, 1, 3, 4, 5, 6, 7, 8, 9, 10, 11, 12, 13, 14, 15},
        {1, 2, 3, 4, 5, 7, 8, 9, 15}, {0, 1, 12, 13, 14}, {4, 5, 8},
        {0, 10, 12}>>
  <1>1. Chain(T, 4)
    BY DEF Chain, Stepped, Odd, Differ
  <1>2. /\ 4 \in Nat /\ T[1] = {0, 1, 3, 4, 5, 6, 7, 8, 9, 10, 11, 12, 13, 14, 15}
        /\ T[4 + 1] = {0, 10, 12}
    OBVIOUS
  <1> HIDE DEF T
  <1> QED  BY <1>1, <1>2, TablePasses, Zenon

LEMMA FourAs4b == Passes({10, 12}, 4, {6, 10})
  <1> DEFINE T == <<
        {10, 12}, {2, 4}, {8, 9, 10, 11}, {0, 1, 2, 3}, {6, 10}>>
  <1>1. Chain(T, 4)
    BY DEF Chain, Stepped, Odd, Differ
  <1>2. 4 \in Nat /\ T[1] = {10, 12} /\ T[4 + 1] = {6, 10}
    OBVIOUS
  <1> HIDE DEF T
  <1> QED  BY <1>1, <1>2, TablePasses, Zenon

LEMMA FourAs4 ==
    ASSUME NEW F, F[1] = {2}, F[5] = {0},
           \A i \in 1..8 : i \notin {1, 5} => F[i] = {}
    PROVE  Reaches(F, 8, 8, {6, 10})
  <1>1. Goes(F, 8, 0, 4, 0..15,
                 {0, 1, 3, 4, 5, 6, 7, 8, 9, 10, 11, 12, 13, 14, 15},
                 {0, 10, 12})
    <2>1. Xor(0..15, F[0 + 1]) =
            {0, 1, 3, 4, 5, 6, 7, 8, 9, 10, 11, 12, 13, 14, 15}
      BY DEF Xor
    <2>2. \A i \in 0 + 2..0 + 4 : F[i] = {}
      OBVIOUS
    <2> QED  BY FourAs4a, ReachesFirst, <2>1, <2>2 DEF Goes
  <1>2. Reaches(F, 8, 0 + 4, {0, 10, 12})
    BY <1>1, ReachesOn
  <1>3. Goes(F, 8, 4, 4, {0, 10, 12},
                 {10, 12},
                 {6, 10})
    <2>1. Xor({0, 10, 12}, F[4 + 1]) =
            {10, 12}
      BY DEF Xor
    <2>2. \A i \in 4 + 2..4 + 4 : F[i] = {}
      OBVIOUS
    <2> QED  BY FourAs4b, <1>2, <2>1, <2>2 DEF Goes
  <1>4. Reaches(F, 8, 4 + 4, {6, 10})
    BY <1>3, ReachesOn
  <1>5. Reaches(F, 8, 8, {6, 10})
    <2>1. 4 + 4 = 8
      OBVIOUS
    <2> QED  BY <1>4, <2>1
  <1> QED  BY <1>5

LEMMA FourAs7a == Passes({3, 4, 5, 6, 7, 8, 9, 10, 11, 12, 13, 14, 15}, 4, {0, 12, 14})
  <1> DEFINE T == <<
        {3, 4, 5, 6, 7, 8, 9, 10, 11, 12, 13, 14, 15},
        {1, 2, 3, 4, 5, 6, 7, 9, 15}, {0, 1, 15}, {6, 7, 8}, {0, 12, 14}>>
  <1>1. Chain(T, 4)
    BY DEF Chain, Stepped, Odd, Differ
  <1>2. /\ 4 \in Nat /\ T[1] = {3, 4, 5, 6, 7, 8, 9, 10, 11, 12, 13, 14, 15}
        /\ T[4 + 1] = {0, 12, 14}
    OBVIOUS
  <1> HIDE DEF T
  <1> QED  BY <1>1, <1>2, TablePasses, Zenon

LEMMA FourAs7b == Passes({12, 14}, 7, {2, 3, 12, 14})
  <1> DEFINE T == <<
        {12, 14}, {4, 6}, {10, 11, 12, 13}, {2, 3, 4, 5}, {8, 12}, {0, 4},
        {6, 7, 10, 11}, {2, 3, 12, 14}>>
  <1>1. Chain(T, 7)
    BY DEF Chain, Stepped, Odd, Differ
  <1>2. 7 \in Nat /\ T[1] = {12, 14} /\ T[7 + 1] = {2, 3, 12, 14}
    OBVIOUS
  <1> HIDE DEF T
  <1> QED  BY <1>1, <1>2, TablePasses, Zenon

LEMMA FourAs7 ==
    ASSUME NEW F, F[1] = {0, 1, 2}, F[5] = {0},
           \A i \in 1..11 : i \notin {1, 5} => F[i] = {}
    PROVE  Reaches(F, 11, 11, {2, 3, 12, 14})
  <1>1. Goes(F, 11, 0, 4, 0..15,
                 {3, 4, 5, 6, 7, 8, 9, 10, 11, 12, 13, 14, 15},
                 {0, 12, 14})
    <2>1. Xor(0..15, F[0 + 1]) =
            {3, 4, 5, 6, 7, 8, 9, 10, 11, 12, 13, 14, 15}
      BY DEF Xor
    <2>2. \A i \in 0 + 2..0 + 4 : F[i] = {}
      OBVIOUS
    <2> QED  BY FourAs7a, ReachesFirst, <2>1, <2>2 DEF Goes
  <1>2. Reaches(F, 11, 0 + 4, {0, 12, 14})
    BY <1>1, ReachesOn
  <1>3. Goes(F, 11, 4, 7, {0, 12, 14},
                 {12, 14},
                 {2, 3, 12, 14})
    <2>1. Xor({0, 12, 14}, F[4 + 1]) =
            {12, 14}
      BY DEF Xor
    <2>2. \A i \in 4 + 2..4 + 7 : F[i] = {}
      OBVIOUS
    <2> QED  BY FourAs7b, <1>2, <2>1, <2>2 DEF Goes
  <1>4. Reaches(F, 11, 4 + 7, {2, 3, 12, 14})
    BY <1>3, ReachesOn
  <1>5. Reaches(F, 11, 11, {2, 3, 12, 14})
    <2>1. 4 + 7 = 11
      OBVIOUS
    <2> QED  BY <1>4, <2>1
  <1> QED  BY <1>5

LEMMA FourAs2a ==
    Passes({0, 2, 3, 4, 5, 6, 7, 8, 9, 10, 11, 12, 13, 14, 15}, 4,
           {0, 10, 11, 12, 15})
  <1> DEFINE T == <<
        {0, 2, 3, 4, 5, 6, 7, 8, 9, 10, 11, 12, 13, 14, 15},
        {1, 2, 3, 4, 5, 8, 15}, {12, 14, 15}, {4, 6, 7}, {0, 10, 11, 12, 15}>>
  <1>1. Chain(T, 4)
    BY DEF Chain, Stepped, Odd, Differ
  <1>2. /\ 4 \in Nat /\ T[1] = {0, 2, 3, 4, 5, 6, 7, 8, 9, 10, 11, 12, 13, 14, 15}
        /\ T[4 + 1] = {0, 10, 11, 12, 15}
    OBVIOUS
  <1> HIDE DEF T
  <1> QED  BY <1>1, <1>2, TablePasses, Zenon

LEMMA FourAs2b == Passes({10, 11, 12, 15}, 2, {8, 11, 13, 14})
  <1> DEFINE T == <<
        {10, 11, 12, 15}, {2, 3, 4, 7}, {8, 11, 13, 14}>>
  <1>1. Chain(T, 2)
    BY DEF Chain, Stepped, Odd, Differ
  <1>2. 2 \in Nat /\ T[1] = {10, 11, 12, 15} /\ T[2 + 1] = {8, 11, 13, 14}
    OBVIOUS
  <1> HIDE DEF T
  <1> QED  BY <1>1, <1>2, TablePasses, Zenon

LEMMA FourAs2 ==
    ASSUME NEW F, F[1] = {1}, F[5] = {0},
           \A i \in 1..6 : i \notin {1, 5} => F[i] = {}
    PROVE  Reaches(F, 6, 6, {8, 11, 13, 14})
  <1>1. Goes(F, 6, 0, 4, 0..15,
                 {0, 2, 3, 4, 5, 6, 7, 8, 9, 10, 11, 12, 13, 14, 15},
                 {0, 10, 11, 12, 15})
    <2>1. Xor(0..15, F[0 + 1]) =
            {0, 2, 3, 4, 5, 6, 7, 8, 9, 10, 11, 12, 13, 14, 15}
      BY DEF Xor
    <2>2. \A i \in 0 + 2..0 + 4 : F[i] = {}
      OBVIOUS
    <2> QED  BY FourAs2a, ReachesFirst, <2>1, <2>2 DEF Goes
  <1>2. Reaches(F, 6, 0 + 4, {0, 10, 11, 12, 15})
    BY <1>1, ReachesOn
  <1>3. Goes(F, 6, 4, 2, {0, 10, 11, 12, 15},
                 {10, 11, 12, 15},
                 {8, 11, 13, 14})
    <2>1. Xor({0, 10, 11, 12, 15}, F[4 + 1]) =
            {10, 11, 12, 15}
      BY DEF Xor
    <2>2. \A i \in 4 + 2..4 + 2 : F[i] = {}
      OBVIOUS
    <2> QED  BY FourAs2b, <1>2, <2>1, <2>2 DEF Goes
  <1>4. Reaches(F, 6, 4 + 2, {8, 11, 13, 14})
    BY <1>3, ReachesOn
  <1>5. Reaches(F, 6, 6, {8, 11, 13, 14})
    <2>1. 4 + 2 = 6
      OBVIOUS
    <2> QED  BY <1>4, <2>1
  <1> QED  BY <1>5

LEMMA FourAs8a ==
    Passes({0, 1, 2, 4, 5, 6, 7, 8, 9, 10, 11, 12, 13, 14, 15}, 4,
           {1, 10, 14})
  <1> DEFINE T == <<
        {0, 1, 2, 4, 5, 6, 7, 8, 9, 10, 11, 12, 13, 14, 15},
        {1, 2, 3, 4, 5, 7, 9, 10, 15}, {1, 2, 12, 13, 14}, {4, 5, 6, 7, 9},
        {1, 10, 14}>>
  <1>1. Chain(T, 4)
    BY DEF Chain, Stepped, Odd, Differ
  <1>2. /\ 4 \in Nat /\ T[1] = {0, 1, 2, 4, 5, 6, 7, 8, 9, 10, 11, 12, 13, 14, 15}
        /\ T[4 + 1] = {1, 10, 14}
    OBVIOUS
  <1> HIDE DEF T
  <1> QED  BY <1>1, <1>2, TablePasses, Zenon

LEMMA FourAs8b == Passes({0, 1, 10, 14}, 8, {2, 6, 8, 12})
  <1> DEFINE T == <<
        {0, 1, 10, 14}, {2, 8}, {8, 9, 14, 15}, {0, 1, 6, 7}, {6, 8, 12, 14},
        {4, 6, 12, 13, 14, 15}, {4, 5, 6, 7, 10, 11, 12, 13},
        {2, 3, 4, 5, 10, 14}, {2, 6, 8, 12}>>
  <1>1. Chain(T, 8)
    BY DEF Chain, Stepped, Odd, Differ
  <1>2. 8 \in Nat /\ T[1] = {0, 1, 10, 14} /\ T[8 + 1] = {2, 6, 8, 12}
    OBVIOUS
  <1> HIDE DEF T
  <1> QED  BY <1>1, <1>2, TablePasses, Zenon

LEMMA FourAs8 ==
    ASSUME NEW F, F[1] = {3}, F[5] = {0},
           \A i \in 1..12 : i \notin {1, 5} => F[i] = {}
    PROVE  Reaches(F, 12, 12, {2, 6, 8, 12})
  <1>1. Goes(F, 12, 0, 4, 0..15,
                 {0, 1, 2, 4, 5, 6, 7, 8, 9, 10, 11, 12, 13, 14, 15},
                 {1, 10, 14})
    <2>1. Xor(0..15, F[0 + 1]) =
            {0, 1, 2, 4, 5, 6, 7, 8, 9, 10, 11, 12, 13, 14, 15}
      BY DEF Xor
    <2>2. \A i \in 0 + 2..0 + 4 : F[i] = {}
      OBVIOUS
    <2> QED  BY FourAs8a, ReachesFirst, <2>1, <2>2 DEF Goes
  <1>2. Reaches(F, 12, 0 + 4, {1, 10, 14})
    BY <1>1, ReachesOn
  <1>3. Goes(F, 12, 4, 8, {1, 10, 14},
                 {0, 1, 10, 14},
                 {2, 6, 8, 12})
    <2>1. Xor({1, 10, 14}, F[4 + 1]) =
            {0, 1, 10, 14}
      BY DEF Xor
    <2>2. \A i \in 4 + 2..4 + 8 : F[i] = {}
      OBVIOUS
    <2> QED  BY FourAs8b, <1>2, <2>1, <2>2 DEF Goes
  <1>4. Reaches(F, 12, 4 + 8, {2, 6, 8, 12})
    BY <1>3, ReachesOn
  <1>5. Reaches(F, 12, 12, {2, 6, 8, 12})
    <2>1. 4 + 8 = 12
      OBVIOUS
    <2> QED  BY <1>4, <2>1
  <1> QED  BY <1>5

LEMMA FourAs28a ==
    Passes({0, 1, 5, 6, 7, 8, 9, 10, 11, 12, 13, 14, 15}, 4,
           {0, 1, 2, 10, 12, 13, 15})
  <1> DEFINE T == <<
        {0, 1, 5, 6, 7, 8, 9, 10, 11, 12, 13, 14, 15},
        {1, 2, 3, 4, 5, 7, 8, 11, 15}, {0, 3, 12, 13, 14}, {4, 5, 7, 9, 10},
        {0, 1, 2, 10, 12, 13, 15}>>
  <1>1. Chain(T, 4)
    BY DEF Chain, Stepped, Odd, Differ
  <1>2. /\ 4 \in Nat /\ T[1] = {0, 1, 5, 6, 7, 8, 9, 10, 11, 12, 13, 14, 15}
        /\ T[4 + 1] = {0, 1, 2, 10, 12, 13, 15}
    OBVIOUS
  <1> HIDE DEF T
  <1> QED  BY <1>1, <1>2, TablePasses, Zenon

LEMMA FourAs28bx == Passes({1, 2, 10, 12, 13, 15}, 7, {0, 2, 3, 4, 5, 6, 10, 12, 13, 15})
  <1> DEFINE T == <<
        {1, 2, 10, 12, 13, 15}, {2, 4, 5, 9}, {0, 1, 8, 9, 10, 12, 14, 15},
        {0, 1, 2, 4, 7, 8}, {6, 9, 10, 11, 13, 15},
        {0, 1, 2, 3, 5, 7, 12, 13, 14, 15}, {4, 5, 7, 10, 11, 12, 13, 14},
        {0, 2, 3, 4, 5, 6, 10, 12, 13, 15}>>
  <1>1. Chain(T, 7)
    BY DEF Chain, Stepped, Odd, Differ
  <1>2. /\ 7 \in Nat /\ T[1] = {1, 2, 10, 12, 13, 15}
        /\ T[7 + 1] = {0, 2, 3, 4, 5, 6, 10, 12, 13, 15}
    OBVIOUS
  <1> HIDE DEF T
  <1> QED  BY <1>1, <1>2, TablePasses, Zenon

LEMMA FourAs28by ==
    Passes({0, 2, 3, 4, 5, 6, 10, 12, 13, 15}, 7,
           {1, 2, 4, 5, 7, 8, 9, 12, 13, 15})
  <1> DEFINE T == <<
        {0, 2, 3, 4, 5, 6, 10, 12, 13, 15}, {2, 4, 5, 6, 8, 13},
        {0, 5, 8, 9, 10, 13}, {0, 1, 2, 5, 6, 7, 11, 12},
        {3, 4, 6, 9, 11, 14}, {0, 1, 3, 6, 9, 11, 12, 13, 14, 15},
        {1, 3, 4, 5, 7, 8, 9, 10, 12, 13}, {1, 2, 4, 5, 7, 8, 9, 12, 13, 15}>>
  <1>1. Chain(T, 7)
    BY DEF Chain, Stepped, Odd, Differ
  <1>2. /\ 7 \in Nat /\ T[1] = {0, 2, 3, 4, 5, 6, 10, 12, 13, 15}
        /\ T[7 + 1] = {1, 2, 4, 5, 7, 8, 9, 12, 13, 15}
    OBVIOUS
  <1> HIDE DEF T
  <1> QED  BY <1>1, <1>2, TablePasses, Zenon

LEMMA FourAs28bz ==
    Passes({1, 2, 4, 5, 7, 8, 9, 12, 13, 15}, 7,
           {0, 2, 3, 6, 7, 11, 14, 15})
  <1> DEFINE T == <<
        {1, 2, 4, 5, 7, 8, 9, 12, 13, 15}, {1, 4, 5, 9, 10, 12, 13, 15},
        {0, 1, 2, 4, 5, 8, 10, 12, 14, 15}, {2, 4, 7, 9, 10, 12, 14, 15},
        {0, 1, 2, 4, 6, 7, 8, 9, 10, 11, 13, 15},
        {0, 1, 2, 3, 5, 6, 7, 9, 10, 11, 12, 14},
        {0, 1, 2, 3, 4, 10, 11, 15}, {0, 2, 3, 6, 7, 11, 14, 15}>>
  <1>1. Chain(T, 7)
    BY DEF Chain, Stepped, Odd, Differ
  <1>2. /\ 7 \in Nat /\ T[1] = {1, 2, 4, 5, 7, 8, 9, 12, 13, 15}
        /\ T[7 + 1] = {0, 2, 3, 6, 7, 11, 14, 15}
    OBVIOUS
  <1> HIDE DEF T
  <1> QED  BY <1>1, <1>2, TablePasses, Zenon

LEMMA FourAs28bw == Passes({0, 2, 3, 6, 7, 11, 14, 15}, 7, {2, 3, 10, 15})
  <1> DEFINE T == <<
        {0, 2, 3, 6, 7, 11, 14, 15}, {0, 3, 8, 10, 12, 15},
        {0, 2, 4, 6, 9, 10}, {1, 2, 6, 7, 8, 9, 10, 11, 12, 13},
        {0, 1, 2, 3, 4, 5, 7, 9, 12, 14}, {0, 1, 4, 12, 13, 15},
        {0, 4, 5, 6, 7, 8, 10, 11, 14, 15}, {2, 3, 10, 15}>>
  <1>1. Chain(T, 7)
    BY DEF Chain, Stepped, Odd, Differ
  <1>2. 7 \in Nat /\ T[1] = {0, 2, 3, 6, 7, 11, 14, 15} /\ T[7 + 1] = {2, 3, 10, 15}
    OBVIOUS
  <1> HIDE DEF T
  <1> QED  BY <1>1, <1>2, TablePasses, Zenon

LEMMA FourAs28b == Passes({1, 2, 10, 12, 13, 15}, 28, {2, 3, 10, 15})
  <1>1. Passes({1, 2, 10, 12, 13, 15}, 7 + 7,
             {1, 2, 4, 5, 7, 8, 9, 12, 13, 15})
    BY FourAs28bx, FourAs28by, PassesOn
  <1>2. 7 + 7 = 14
    OBVIOUS
  <1>3. Passes({1, 2, 10, 12, 13, 15}, 14,
             {1, 2, 4, 5, 7, 8, 9, 12, 13, 15})
    BY <1>1, <1>2
  <1>4. Passes({1, 2, 10, 12, 13, 15}, 14 + 7,
             {0, 2, 3, 6, 7, 11, 14, 15})
    BY <1>3, FourAs28bz, PassesOn
  <1>5. 14 + 7 = 21
    OBVIOUS
  <1>6. Passes({1, 2, 10, 12, 13, 15}, 21,
             {0, 2, 3, 6, 7, 11, 14, 15})
    BY <1>4, <1>5
  <1>7. Passes({1, 2, 10, 12, 13, 15}, 21 + 7,
             {2, 3, 10, 15})
    BY <1>6, FourAs28bw, PassesOn
  <1>8. 21 + 7 = 28
    OBVIOUS
  <1>9. Passes({1, 2, 10, 12, 13, 15}, 28,
             {2, 3, 10, 15})
    BY <1>7, <1>8
  <1> QED  BY <1>9

LEMMA FourAs28 ==
    ASSUME NEW F, F[1] = {2, 3, 4}, F[5] = {0},
           \A i \in 1..32 : i \notin {1, 5} => F[i] = {}
    PROVE  Reaches(F, 32, 32, {2, 3, 10, 15})
  <1>1. Goes(F, 32, 0, 4, 0..15,
                 {0, 1, 5, 6, 7, 8, 9, 10, 11, 12, 13, 14, 15},
                 {0, 1, 2, 10, 12, 13, 15})
    <2>1. Xor(0..15, F[0 + 1]) =
            {0, 1, 5, 6, 7, 8, 9, 10, 11, 12, 13, 14, 15}
      BY DEF Xor
    <2>2. \A i \in 0 + 2..0 + 4 : F[i] = {}
      OBVIOUS
    <2> QED  BY FourAs28a, ReachesFirst, <2>1, <2>2 DEF Goes
  <1>2. Reaches(F, 32, 0 + 4, {0, 1, 2, 10, 12, 13, 15})
    BY <1>1, ReachesOn
  <1>3. Goes(F, 32, 4, 28, {0, 1, 2, 10, 12, 13, 15},
                 {1, 2, 10, 12, 13, 15},
                 {2, 3, 10, 15})
    <2>1. Xor({0, 1, 2, 10, 12, 13, 15}, F[4 + 1]) =
            {1, 2, 10, 12, 13, 15}
      BY DEF Xor
    <2>2. \A i \in 4 + 2..4 + 28 : F[i] = {}
      OBVIOUS
    <2> QED  BY FourAs28b, <1>2, <2>1, <2>2 DEF Goes
  <1>4. Reaches(F, 32, 4 + 28, {2, 3, 10, 15})
    BY <1>3, ReachesOn
  <1>5. Reaches(F, 32, 32, {2, 3, 10, 15})
    <2>1. 4 + 28 = 32
      OBVIOUS
    <2> QED  BY <1>4, <2>1
  <1> QED  BY <1>5

LEMMA FiveAs5a ==
    Passes({1, 3, 4, 5, 6, 7, 8, 9, 10, 11, 12, 13, 14, 15}, 4,
           {11, 13, 14, 15})
  <1> DEFINE T == <<
        {1, 3, 4, 5, 6, 7, 8, 9, 10, 11, 12, 13, 14, 15},
        {0, 1, 2, 3, 4, 5, 6, 8, 9, 14}, {1, 13, 14, 15},
        {0, 5, 6, 8, 14, 15}, {11, 13, 14, 15}>>
  <1>1. Chain(T, 4)
    BY DEF Chain, Stepped, Odd, Differ
  <1>2. /\ 4 \in Nat /\ T[1] = {1, 3, 4, 5, 6, 7, 8, 9, 10, 11, 12, 13, 14, 15}
        /\ T[4 + 1] = {11, 13, 14, 15}
    OBVIOUS
  <1> HIDE DEF T
  <1> QED  BY <1>1, <1>2, TablePasses, Zenon

LEMMA FiveAs5b == Passes({0, 11, 13, 14, 15}, 1, {0, 3, 5, 14, 15})
  <1> DEFINE T == <<
        {0, 11, 13, 14, 15}, {0, 3, 5, 14, 15}>>
  <1>1. Chain(T, 1)
    BY DEF Chain, Stepped, Odd, Differ
  <1>2. 1 \in Nat /\ T[1] = {0, 11, 13, 14, 15} /\ T[1 + 1] = {0, 3, 5, 14, 15}
    OBVIOUS
  <1> HIDE DEF T
  <1> QED  BY <1>1, <1>2, TablePasses, Zenon

LEMMA FiveAs5c == Passes({0, 1, 3, 6, 7, 14, 15}, 1, {0, 7, 8, 9, 10, 12, 15})
  <1> DEFINE T == <<
        {0, 1, 3, 6, 7, 14, 15}, {0, 7, 8, 9, 10, 12, 15}>>
  <1>1. Chain(T, 1)
    BY DEF Chain, Stepped, Odd, Differ
  <1>2. 1 \in Nat /\ T[1] = {0, 1, 3, 6, 7, 14, 15} /\ T[1 + 1] = {0, 7, 8, 9, 10, 12, 15}
    OBVIOUS
  <1> HIDE DEF T
  <1> QED  BY <1>1, <1>2, TablePasses, Zenon

LEMMA FiveAs5d ==
    Passes({0, 2, 7, 8, 9, 10, 12, 15}, 3,
           {0, 1, 2, 3, 4, 5, 6, 8, 11, 12, 14, 15})
  <1> DEFINE T == <<
        {0, 2, 7, 8, 9, 10, 12, 15}, {1, 2, 4, 6, 8, 9, 13, 15},
        {0, 1, 5, 9, 10, 11, 12, 13},
        {0, 1, 2, 3, 4, 5, 6, 8, 11, 12, 14, 15}>>
  <1>1. Chain(T, 3)
    BY DEF Chain, Stepped, Odd, Differ
  <1>2. /\ 3 \in Nat /\ T[1] = {0, 2, 7, 8, 9, 10, 12, 15}
        /\ T[3 + 1] = {0, 1, 2, 3, 4, 5, 6, 8, 11, 12, 14, 15}
    OBVIOUS
  <1> HIDE DEF T
  <1> QED  BY <1>1, <1>2, TablePasses, Zenon

LEMMA FiveAs5 ==
    ASSUME NEW F, F[1] = {0, 2}, F[5] = {0}, F[6] = {1, 5, 6, 7}, F[7] = {2},
           \A i \in 1..9 : i \notin {1, 5, 6, 7} => F[i] = {}
    PROVE  Reaches(F, 9, 9, {0, 1, 2, 3, 4, 5, 6, 8, 11, 12, 14, 15})
  <1>1. Goes(F, 9, 0, 4, 0..15,
                 {1, 3, 4, 5, 6, 7, 8, 9, 10, 11, 12, 13, 14, 15},
                 {11, 13, 14, 15})
    <2>1. Xor(0..15, F[0 + 1]) =
            {1, 3, 4, 5, 6, 7, 8, 9, 10, 11, 12, 13, 14, 15}
      BY DEF Xor
    <2>2. \A i \in 0 + 2..0 + 4 : F[i] = {}
      OBVIOUS
    <2> QED  BY FiveAs5a, ReachesFirst, <2>1, <2>2 DEF Goes
  <1>2. Reaches(F, 9, 0 + 4, {11, 13, 14, 15})
    BY <1>1, ReachesOn
  <1>3. Goes(F, 9, 4, 1, {11, 13, 14, 15},
                 {0, 11, 13, 14, 15},
                 {0, 3, 5, 14, 15})
    <2>1. Xor({11, 13, 14, 15}, F[4 + 1]) =
            {0, 11, 13, 14, 15}
      BY DEF Xor
    <2>2. \A i \in 4 + 2..4 + 1 : F[i] = {}
      OBVIOUS
    <2> QED  BY FiveAs5b, <1>2, <2>1, <2>2 DEF Goes
  <1>4. Reaches(F, 9, 4 + 1, {0, 3, 5, 14, 15})
    BY <1>3, ReachesOn
  <1>5. Reaches(F, 9, 5, {0, 3, 5, 14, 15})
    <2>1. 4 + 1 = 5
      OBVIOUS
    <2> QED  BY <1>4, <2>1
  <1>6. Goes(F, 9, 5, 1, {0, 3, 5, 14, 15},
                 {0, 1, 3, 6, 7, 14, 15},
                 {0, 7, 8, 9, 10, 12, 15})
    <2>1. Xor({0, 3, 5, 14, 15}, F[5 + 1]) =
            {0, 1, 3, 6, 7, 14, 15}
      BY DEF Xor
    <2>2. \A i \in 5 + 2..5 + 1 : F[i] = {}
      OBVIOUS
    <2> QED  BY FiveAs5c, <1>5, <2>1, <2>2 DEF Goes
  <1>7. Reaches(F, 9, 5 + 1, {0, 7, 8, 9, 10, 12, 15})
    BY <1>6, ReachesOn
  <1>8. Reaches(F, 9, 6, {0, 7, 8, 9, 10, 12, 15})
    <2>1. 5 + 1 = 6
      OBVIOUS
    <2> QED  BY <1>7, <2>1
  <1>9. Goes(F, 9, 6, 3, {0, 7, 8, 9, 10, 12, 15},
                 {0, 2, 7, 8, 9, 10, 12, 15},
                 {0, 1, 2, 3, 4, 5, 6, 8, 11, 12, 14, 15})
    <2>1. Xor({0, 7, 8, 9, 10, 12, 15}, F[6 + 1]) =
            {0, 2, 7, 8, 9, 10, 12, 15}
      BY DEF Xor
    <2>2. \A i \in 6 + 2..6 + 3 : F[i] = {}
      OBVIOUS
    <2> QED  BY FiveAs5d, <1>8, <2>1, <2>2 DEF Goes
  <1>10. Reaches(F, 9, 6 + 3, {0, 1, 2, 3, 4, 5, 6, 8, 11, 12, 14, 15})
    BY <1>9, ReachesOn
  <1>11. Reaches(F, 9, 9, {0, 1, 2, 3, 4, 5, 6, 8, 11, 12, 14, 15})
    <2>1. 6 + 3 = 9
      OBVIOUS
    <2> QED  BY <1>10, <2>1
  <1> QED  BY <1>11

LEMMA FiveAs4a ==
    Passes({0, 1, 3, 4, 5, 6, 7, 8, 9, 10, 11, 12, 13, 14, 15}, 4,
           {0, 10, 12})
  <1> DEFINE T == <<
        {0, 1, 3, 4, 5, 6, 7, 8, 9, 10, 11, 12, 13, 14, 15},
        {1, 2, 3, 4, 5, 7, 8, 9, 15}, {0, 1, 12, 13, 14}, {4, 5, 8},
        {0, 10, 12}>>
  <1>1. Chain(T, 4)
    BY DEF Chain, Stepped, Odd, Differ
  <1>2. /\ 4 \in Nat /\ T[1] = {0, 1, 3, 4, 5, 6, 7, 8, 9, 10, 11, 12, 13, 14, 15}
        /\ T[4 + 1] = {0, 10, 12}
    OBVIOUS
  <1> HIDE DEF T
  <1> QED  BY <1>1, <1>2, TablePasses, Zenon

LEMMA FiveAs4b == Passes({10, 12}, 1, {2, 4})
  <1> DEFINE T == <<
        {10, 12}, {2, 4}>>
  <1>1. Chain(T, 1)
    BY DEF Chain, Stepped, Odd, Differ
  <1>2. 1 \in Nat /\ T[1] = {10, 12} /\ T[1 + 1] = {2, 4}
    OBVIOUS
  <1> HIDE DEF T
  <1> QED  BY <1>1, <1>2, TablePasses, Zenon

LEMMA FiveAs4c == Passes({1, 2, 4, 5, 6, 7}, 1, {7, 9, 10, 14})
  <1> DEFINE T == <<
        {1, 2, 4, 5, 6, 7}, {7, 9, 10, 14}>>
  <1>1. Chain(T, 1)
    BY DEF Chain, Stepped, Odd, Differ
  <1>2. 1 \in Nat /\ T[1] = {1, 2, 4, 5, 6, 7} /\ T[1 + 1] = {7, 9, 10, 14}
    OBVIOUS
  <1> HIDE DEF T
  <1> QED  BY <1>1, <1>2, TablePasses, Zenon

LEMMA FiveAs4d == Passes({2, 7, 9, 10, 14}, 2, {1, 5, 6, 7, 9, 12, 13, 14, 15})
  <1> DEFINE T == <<
        {2, 7, 9, 10, 14}, {1, 2, 6, 8, 9, 13, 14},
        {1, 5, 6, 7, 9, 12, 13, 14, 15}>>
  <1>1. Chain(T, 2)
    BY DEF Chain, Stepped, Odd, Differ
  <1>2. 2 \in Nat /\ T[1] = {2, 7, 9, 10, 14} /\ T[2 + 1] = {1, 5, 6, 7, 9, 12, 13, 14, 15}
    OBVIOUS
  <1> HIDE DEF T
  <1> QED  BY <1>1, <1>2, TablePasses, Zenon

LEMMA FiveAs4 ==
    ASSUME NEW F, F[1] = {2}, F[5] = {0}, F[6] = {1, 5, 6, 7}, F[7] = {2},
           \A i \in 1..8 : i \notin {1, 5, 6, 7} => F[i] = {}
    PROVE  Reaches(F, 8, 8, {1, 5, 6, 7, 9, 12, 13, 14, 15})
  <1>1. Goes(F, 8, 0, 4, 0..15,
                 {0, 1, 3, 4, 5, 6, 7, 8, 9, 10, 11, 12, 13, 14, 15},
                 {0, 10, 12})
    <2>1. Xor(0..15, F[0 + 1]) =
            {0, 1, 3, 4, 5, 6, 7, 8, 9, 10, 11, 12, 13, 14, 15}
      BY DEF Xor
    <2>2. \A i \in 0 + 2..0 + 4 : F[i] = {}
      OBVIOUS
    <2> QED  BY FiveAs4a, ReachesFirst, <2>1, <2>2 DEF Goes
  <1>2. Reaches(F, 8, 0 + 4, {0, 10, 12})
    BY <1>1, ReachesOn
  <1>3. Goes(F, 8, 4, 1, {0, 10, 12},
                 {10, 12},
                 {2, 4})
    <2>1. Xor({0, 10, 12}, F[4 + 1]) =
            {10, 12}
      BY DEF Xor
    <2>2. \A i \in 4 + 2..4 + 1 : F[i] = {}
      OBVIOUS
    <2> QED  BY FiveAs4b, <1>2, <2>1, <2>2 DEF Goes
  <1>4. Reaches(F, 8, 4 + 1, {2, 4})
    BY <1>3, ReachesOn
  <1>5. Reaches(F, 8, 5, {2, 4})
    <2>1. 4 + 1 = 5
      OBVIOUS
    <2> QED  BY <1>4, <2>1
  <1>6. Goes(F, 8, 5, 1, {2, 4},
                 {1, 2, 4, 5, 6, 7},
                 {7, 9, 10, 14})
    <2>1. Xor({2, 4}, F[5 + 1]) =
            {1, 2, 4, 5, 6, 7}
      BY DEF Xor
    <2>2. \A i \in 5 + 2..5 + 1 : F[i] = {}
      OBVIOUS
    <2> QED  BY FiveAs4c, <1>5, <2>1, <2>2 DEF Goes
  <1>7. Reaches(F, 8, 5 + 1, {7, 9, 10, 14})
    BY <1>6, ReachesOn
  <1>8. Reaches(F, 8, 6, {7, 9, 10, 14})
    <2>1. 5 + 1 = 6
      OBVIOUS
    <2> QED  BY <1>7, <2>1
  <1>9. Goes(F, 8, 6, 2, {7, 9, 10, 14},
                 {2, 7, 9, 10, 14},
                 {1, 5, 6, 7, 9, 12, 13, 14, 15})
    <2>1. Xor({7, 9, 10, 14}, F[6 + 1]) =
            {2, 7, 9, 10, 14}
      BY DEF Xor
    <2>2. \A i \in 6 + 2..6 + 2 : F[i] = {}
      OBVIOUS
    <2> QED  BY FiveAs4d, <1>8, <2>1, <2>2 DEF Goes
  <1>10. Reaches(F, 8, 6 + 2, {1, 5, 6, 7, 9, 12, 13, 14, 15})
    BY <1>9, ReachesOn
  <1>11. Reaches(F, 8, 8, {1, 5, 6, 7, 9, 12, 13, 14, 15})
    <2>1. 6 + 2 = 8
      OBVIOUS
    <2> QED  BY <1>10, <2>1
  <1> QED  BY <1>11

LEMMA FiveAs1a ==
    Passes({1, 2, 3, 4, 5, 6, 7, 8, 9, 10, 11, 12, 13, 14, 15}, 4,
           {0, 11, 12, 14, 15})
  <1> DEFINE T == <<
        {1, 2, 3, 4, 5, 6, 7, 8, 9, 10, 11, 12, 13, 14, 15},
        {1, 2, 3, 4, 5, 6, 15}, {13}, {5}, {0, 11, 12, 14, 15}>>
  <1>1. Chain(T, 4)
    BY DEF Chain, Stepped, Odd, Differ
  <1>2. /\ 4 \in Nat /\ T[1] = {1, 2, 3, 4, 5, 6, 7, 8, 9, 10, 11, 12, 13, 14, 15}
        /\ T[4 + 1] = {0, 11, 12, 14, 15}
    OBVIOUS
  <1> HIDE DEF T
  <1> QED  BY <1>1, <1>2, TablePasses, Zenon

LEMMA FiveAs1b == Passes({11, 12, 14, 15}, 1, {3, 4, 6, 7})
  <1> DEFINE T == <<
        {11, 12, 14, 15}, {3, 4, 6, 7}>>
  <1>1. Chain(T, 1)
    BY DEF Chain, Stepped, Odd, Differ
  <1>2. 1 \in Nat /\ T[1] = {11, 12, 14, 15} /\ T[1 + 1] = {3, 4, 6, 7}
    OBVIOUS
  <1> HIDE DEF T
  <1> QED  BY <1>1, <1>2, TablePasses, Zenon

LEMMA FiveAs1 ==
    ASSUME NEW F, F[1] = {0}, F[5] = {0},
           \A i \in 1..5 : i \notin {1, 5} => F[i] = {}
    PROVE  Reaches(F, 5, 5, {3, 4, 6, 7})
  <1>1. Goes(F, 5, 0, 4, 0..15,
                 {1, 2, 3, 4, 5, 6, 7, 8, 9, 10, 11, 12, 13, 14, 15},
                 {0, 11, 12, 14, 15})
    <2>1. Xor(0..15, F[0 + 1]) =
            {1, 2, 3, 4, 5, 6, 7, 8, 9, 10, 11, 12, 13, 14, 15}
      BY DEF Xor
    <2>2. \A i \in 0 + 2..0 + 4 : F[i] = {}
      OBVIOUS
    <2> QED  BY FiveAs1a, ReachesFirst, <2>1, <2>2 DEF Goes
  <1>2. Reaches(F, 5, 0 + 4, {0, 11, 12, 14, 15})
    BY <1>1, ReachesOn
  <1>3. Goes(F, 5, 4, 1, {0, 11, 12, 14, 15},
                 {11, 12, 14, 15},
                 {3, 4, 6, 7})
    <2>1. Xor({0, 11, 12, 14, 15}, F[4 + 1]) =
            {11, 12, 14, 15}
      BY DEF Xor
    <2>2. \A i \in 4 + 2..4 + 1 : F[i] = {}
      OBVIOUS
    <2> QED  BY FiveAs1b, <1>2, <2>1, <2>2 DEF Goes
  <1>4. Reaches(F, 5, 4 + 1, {3, 4, 6, 7})
    BY <1>3, ReachesOn
  <1>5. Reaches(F, 5, 5, {3, 4, 6, 7})
    <2>1. 4 + 1 = 5
      OBVIOUS
    <2> QED  BY <1>4, <2>1
  <1> QED  BY <1>5

LEMMA FiveAs6a ==
    Passes({0, 3, 4, 5, 6, 7, 8, 9, 10, 11, 12, 13, 14, 15}, 4,
           {10, 11, 13, 15})
  <1> DEFINE T == <<
        {0, 3, 4, 5, 6, 7, 8, 9, 10, 11, 12, 13, 14, 15},
        {0, 1, 2, 3, 4, 5, 9, 14}, {1, 12}, {0, 4, 7, 8, 14, 15},
        {10, 11, 13, 15}>>
  <1>1. Chain(T, 4)
    BY DEF Chain, Stepped, Odd, Differ
  <1>2. /\ 4 \in Nat /\ T[1] = {0, 3, 4, 5, 6, 7, 8, 9, 10, 11, 12, 13, 14, 15}
        /\ T[4 + 1] = {10, 11, 13, 15}
    OBVIOUS
  <1> HIDE DEF T
  <1> QED  BY <1>1, <1>2, TablePasses, Zenon

LEMMA FiveAs6b == Passes({0, 10, 11, 13, 15}, 1, {0, 2, 3, 5, 6, 14, 15})
  <1> DEFINE T == <<
        {0, 10, 11, 13, 15}, {0, 2, 3, 5, 6, 14, 15}>>
  <1>1. Chain(T, 1)
    BY DEF Chain, Stepped, Odd, Differ
  <1>2. 1 \in Nat /\ T[1] = {0, 10, 11, 13, 15} /\ T[1 + 1] = {0, 2, 3, 5, 6, 14, 15}
    OBVIOUS
  <1> HIDE DEF T
  <1> QED  BY <1>1, <1>2, TablePasses, Zenon

LEMMA FiveAs6c == Passes({0, 1, 2, 3, 7, 14, 15}, 1, {0, 7, 10, 13, 15})
  <1> DEFINE T == <<
        {0, 1, 2, 3, 7, 14, 15}, {0, 7, 10, 13, 15}>>
  <1>1. Chain(T, 1)
    BY DEF Chain, Stepped, Odd, Differ
  <1>2. 1 \in Nat /\ T[1] = {0, 1, 2, 3, 7, 14, 15} /\ T[1 + 1] = {0, 7, 10, 13, 15}
    OBVIOUS
  <1> HIDE DEF T
  <1> QED  BY <1>1, <1>2, TablePasses, Zenon

LEMMA FiveAs6d == Passes({0, 2, 7, 10, 13, 15}, 4, {3, 5, 6, 8, 9, 10, 11, 13, 14, 15})
  <1> DEFINE T == <<
        {0, 2, 7, 10, 13, 15}, {0, 2, 5, 6, 8, 9, 13, 15},
        {0, 1, 5, 6, 8, 9, 11, 13}, {0, 1, 3, 5, 6, 8, 11, 13},
        {3, 5, 6, 8, 9, 10, 11, 13, 14, 15}>>
  <1>1. Chain(T, 4)
    BY DEF Chain, Stepped, Odd, Differ
  <1>2. /\ 4 \in Nat /\ T[1] = {0, 2, 7, 10, 13, 15}
        /\ T[4 + 1] = {3, 5, 6, 8, 9, 10, 11, 13, 14, 15}
    OBVIOUS
  <1> HIDE DEF T
  <1> QED  BY <1>1, <1>2, TablePasses, Zenon

LEMMA FiveAs6 ==
    ASSUME NEW F, F[1] = {1, 2}, F[5] = {0}, F[6] = {1, 5, 6, 7}, F[7] = {2},
           \A i \in 1..10 : i \notin {1, 5, 6, 7} => F[i] = {}
    PROVE  Reaches(F, 10, 10, {3, 5, 6, 8, 9, 10, 11, 13, 14, 15})
  <1>1. Goes(F, 10, 0, 4, 0..15,
                 {0, 3, 4, 5, 6, 7, 8, 9, 10, 11, 12, 13, 14, 15},
                 {10, 11, 13, 15})
    <2>1. Xor(0..15, F[0 + 1]) =
            {0, 3, 4, 5, 6, 7, 8, 9, 10, 11, 12, 13, 14, 15}
      BY DEF Xor
    <2>2. \A i \in 0 + 2..0 + 4 : F[i] = {}
      OBVIOUS
    <2> QED  BY FiveAs6a, ReachesFirst, <2>1, <2>2 DEF Goes
  <1>2. Reaches(F, 10, 0 + 4, {10, 11, 13, 15})
    BY <1>1, ReachesOn
  <1>3. Goes(F, 10, 4, 1, {10, 11, 13, 15},
                 {0, 10, 11, 13, 15},
                 {0, 2, 3, 5, 6, 14, 15})
    <2>1. Xor({10, 11, 13, 15}, F[4 + 1]) =
            {0, 10, 11, 13, 15}
      BY DEF Xor
    <2>2. \A i \in 4 + 2..4 + 1 : F[i] = {}
      OBVIOUS
    <2> QED  BY FiveAs6b, <1>2, <2>1, <2>2 DEF Goes
  <1>4. Reaches(F, 10, 4 + 1, {0, 2, 3, 5, 6, 14, 15})
    BY <1>3, ReachesOn
  <1>5. Reaches(F, 10, 5, {0, 2, 3, 5, 6, 14, 15})
    <2>1. 4 + 1 = 5
      OBVIOUS
    <2> QED  BY <1>4, <2>1
  <1>6. Goes(F, 10, 5, 1, {0, 2, 3, 5, 6, 14, 15},
                 {0, 1, 2, 3, 7, 14, 15},
                 {0, 7, 10, 13, 15})
    <2>1. Xor({0, 2, 3, 5, 6, 14, 15}, F[5 + 1]) =
            {0, 1, 2, 3, 7, 14, 15}
      BY DEF Xor
    <2>2. \A i \in 5 + 2..5 + 1 : F[i] = {}
      OBVIOUS
    <2> QED  BY FiveAs6c, <1>5, <2>1, <2>2 DEF Goes
  <1>7. Reaches(F, 10, 5 + 1, {0, 7, 10, 13, 15})
    BY <1>6, ReachesOn
  <1>8. Reaches(F, 10, 6, {0, 7, 10, 13, 15})
    <2>1. 5 + 1 = 6
      OBVIOUS
    <2> QED  BY <1>7, <2>1
  <1>9. Goes(F, 10, 6, 4, {0, 7, 10, 13, 15},
                 {0, 2, 7, 10, 13, 15},
                 {3, 5, 6, 8, 9, 10, 11, 13, 14, 15})
    <2>1. Xor({0, 7, 10, 13, 15}, F[6 + 1]) =
            {0, 2, 7, 10, 13, 15}
      BY DEF Xor
    <2>2. \A i \in 6 + 2..6 + 4 : F[i] = {}
      OBVIOUS
    <2> QED  BY FiveAs6d, <1>8, <2>1, <2>2 DEF Goes
  <1>10. Reaches(F, 10, 6 + 4, {3, 5, 6, 8, 9, 10, 11, 13, 14, 15})
    BY <1>9, ReachesOn
  <1>11. Reaches(F, 10, 10, {3, 5, 6, 8, 9, 10, 11, 13, 14, 15})
    <2>1. 6 + 4 = 10
      OBVIOUS
    <2> QED  BY <1>10, <2>1
  <1> QED  BY <1>11

LEMMA FiveAs3a == Passes({2, 3, 4, 5, 6, 7, 8, 9, 10, 11, 12, 13, 14, 15}, 4, {13, 14})
  <1> DEFINE T == <<
        {2, 3, 4, 5, 6, 7, 8, 9, 10, 11, 12, 13, 14, 15},
        {0, 1, 2, 3, 4, 5, 6, 7, 8, 14}, {0, 14}, {0, 7, 14, 15}, {13, 14}>>
  <1>1. Chain(T, 4)
    BY DEF Chain, Stepped, Odd, Differ
  <1>2. /\ 4 \in Nat /\ T[1] = {2, 3, 4, 5, 6, 7, 8, 9, 10, 11, 12, 13, 14, 15}
        /\ T[4 + 1] = {13, 14}
    OBVIOUS
  <1> HIDE DEF T
  <1> QED  BY <1>1, <1>2, TablePasses, Zenon

LEMMA FiveAs3b == Passes({0, 13, 14}, 1, {0, 5, 7, 14, 15})
  <1> DEFINE T == <<
        {0, 13, 14}, {0, 5, 7, 14, 15}>>
  <1>1. Chain(T, 1)
    BY DEF Chain, Stepped, Odd, Differ
  <1>2. 1 \in Nat /\ T[1] = {0, 13, 14} /\ T[1 + 1] = {0, 5, 7, 14, 15}
    OBVIOUS
  <1> HIDE DEF T
  <1> QED  BY <1>1, <1>2, TablePasses, Zenon

LEMMA FiveAs3c == Passes({0, 1, 6, 14, 15}, 1, {0, 7, 8, 12, 13, 14, 15})
  <1> DEFINE T == <<
        {0, 1, 6, 14, 15}, {0, 7, 8, 12, 13, 14, 15}>>
  <1>1. Chain(T, 1)
    BY DEF Chain, Stepped, Odd, Differ
  <1>2. 1 \in Nat /\ T[1] = {0, 1, 6, 14, 15} /\ T[1 + 1] = {0, 7, 8, 12, 13, 14, 15}
    OBVIOUS
  <1> HIDE DEF T
  <1> QED  BY <1>1, <1>2, TablePasses, Zenon

LEMMA FiveAs3d == Passes({0, 2, 7, 8, 12, 13, 14, 15}, 1, {4, 5, 8, 9, 13, 15})
  <1> DEFINE T == <<
        {0, 2, 7, 8, 12, 13, 14, 15}, {4, 5, 8, 9, 13, 15}>>
  <1>1. Chain(T, 1)
    BY DEF Chain, Stepped, Odd, Differ
  <1>2. 1 \in Nat /\ T[1] = {0, 2, 7, 8, 12, 13, 14, 15} /\ T[1 + 1] = {4, 5, 8, 9, 13, 15}
    OBVIOUS
  <1> HIDE DEF T
  <1> QED  BY <1>1, <1>2, TablePasses, Zenon

LEMMA FiveAs3 ==
    ASSUME NEW F, F[1] = {0, 1}, F[5] = {0}, F[6] = {1, 5, 6, 7}, F[7] = {2},
           \A i \in 1..7 : i \notin {1, 5, 6, 7} => F[i] = {}
    PROVE  Reaches(F, 7, 7, {4, 5, 8, 9, 13, 15})
  <1>1. Goes(F, 7, 0, 4, 0..15,
                 {2, 3, 4, 5, 6, 7, 8, 9, 10, 11, 12, 13, 14, 15},
                 {13, 14})
    <2>1. Xor(0..15, F[0 + 1]) =
            {2, 3, 4, 5, 6, 7, 8, 9, 10, 11, 12, 13, 14, 15}
      BY DEF Xor
    <2>2. \A i \in 0 + 2..0 + 4 : F[i] = {}
      OBVIOUS
    <2> QED  BY FiveAs3a, ReachesFirst, <2>1, <2>2 DEF Goes
  <1>2. Reaches(F, 7, 0 + 4, {13, 14})
    BY <1>1, ReachesOn
  <1>3. Goes(F, 7, 4, 1, {13, 14},
                 {0, 13, 14},
                 {0, 5, 7, 14, 15})
    <2>1. Xor({13, 14}, F[4 + 1]) =
            {0, 13, 14}
      BY DEF Xor
    <2>2. \A i \in 4 + 2..4 + 1 : F[i] = {}
      OBVIOUS
    <2> QED  BY FiveAs3b, <1>2, <2>1, <2>2 DEF Goes
  <1>4. Reaches(F, 7, 4 + 1, {0, 5, 7, 14, 15})
    BY <1>3, ReachesOn
  <1>5. Reaches(F, 7, 5, {0, 5, 7, 14, 15})
    <2>1. 4 + 1 = 5
      OBVIOUS
    <2> QED  BY <1>4, <2>1
  <1>6. Goes(F, 7, 5, 1, {0, 5, 7, 14, 15},
                 {0, 1, 6, 14, 15},
                 {0, 7, 8, 12, 13, 14, 15})
    <2>1. Xor({0, 5, 7, 14, 15}, F[5 + 1]) =
            {0, 1, 6, 14, 15}
      BY DEF Xor
    <2>2. \A i \in 5 + 2..5 + 1 : F[i] = {}
      OBVIOUS
    <2> QED  BY FiveAs3c, <1>5, <2>1, <2>2 DEF Goes
  <1>7. Reaches(F, 7, 5 + 1, {0, 7, 8, 12, 13, 14, 15})
    BY <1>6, ReachesOn
  <1>8. Reaches(F, 7, 6, {0, 7, 8, 12, 13, 14, 15})
    <2>1. 5 + 1 = 6
      OBVIOUS
    <2> QED  BY <1>7, <2>1
  <1>9. Goes(F, 7, 6, 1, {0, 7, 8, 12, 13, 14, 15},
                 {0, 2, 7, 8, 12, 13, 14, 15},
                 {4, 5, 8, 9, 13, 15})
    <2>1. Xor({0, 7, 8, 12, 13, 14, 15}, F[6 + 1]) =
            {0, 2, 7, 8, 12, 13, 14, 15}
      BY DEF Xor
    <2>2. \A i \in 6 + 2..6 + 1 : F[i] = {}
      OBVIOUS
    <2> QED  BY FiveAs3d, <1>8, <2>1, <2>2 DEF Goes
  <1>10. Reaches(F, 7, 6 + 1, {4, 5, 8, 9, 13, 15})
    BY <1>9, ReachesOn
  <1>11. Reaches(F, 7, 7, {4, 5, 8, 9, 13, 15})
    <2>1. 6 + 1 = 7
      OBVIOUS
    <2> QED  BY <1>10, <2>1
  <1> QED  BY <1>11

LEMMA FiveAs9a ==
    Passes({1, 2, 4, 5, 6, 7, 8, 9, 10, 11, 12, 13, 14, 15}, 4,
           {0, 1, 11, 12, 13, 15})
  <1> DEFINE T == <<
        {1, 2, 4, 5, 6, 7, 8, 9, 10, 11, 12, 13, 14, 15},
        {0, 1, 2, 3, 4, 5, 6, 9, 10, 14}, {0, 1, 2, 13, 14, 15},
        {0, 5, 7, 9, 14, 15}, {0, 1, 11, 12, 13, 15}>>
  <1>1. Chain(T, 4)
    BY DEF Chain, Stepped, Odd, Differ
  <1>2. /\ 4 \in Nat /\ T[1] = {1, 2, 4, 5, 6, 7, 8, 9, 10, 11, 12, 13, 14, 15}
        /\ T[4 + 1] = {0, 1, 11, 12, 13, 15}
    OBVIOUS
  <1> HIDE DEF T
  <1> QED  BY <1>1, <1>2, TablePasses, Zenon

LEMMA FiveAs9b == Passes({1, 11, 12, 13, 15}, 1, {0, 3, 4, 5, 8, 14, 15})
  <1> DEFINE T == <<
        {1, 11, 12, 13, 15}, {0, 3, 4, 5, 8, 14, 15}>>
  <1>1. Chain(T, 1)
    BY DEF Chain, Stepped, Odd, Differ
  <1>2. 1 \in Nat /\ T[1] = {1, 11, 12, 13, 15} /\ T[1 + 1] = {0, 3, 4, 5, 8, 14, 15}
    OBVIOUS
  <1> HIDE DEF T
  <1> QED  BY <1>1, <1>2, TablePasses, Zenon

LEMMA FiveAs9c == Passes({0, 1, 3, 4, 6, 7, 8, 14, 15}, 1, {0, 7, 8, 9, 11, 12, 14})
  <1> DEFINE T == <<
        {0, 1, 3, 4, 6, 7, 8, 14, 15}, {0, 7, 8, 9, 11, 12, 14}>>
  <1>1. Chain(T, 1)
    BY DEF Chain, Stepped, Odd, Differ
  <1>2. 1 \in Nat /\ T[1] = {0, 1, 3, 4, 6, 7, 8, 14, 15} /\ T[1 + 1] = {0, 7, 8, 9, 11, 12, 14}
    OBVIOUS
  <1> HIDE DEF T
  <1> QED  BY <1>1, <1>2, TablePasses, Zenon

LEMMA FiveAs9d ==
    Passes({0, 2, 7, 8, 9, 11, 12, 14}, 7,
           {0, 3, 4, 6, 7, 8, 9, 13, 14, 15})
  <1> DEFINE T == <<
        {0, 2, 7, 8, 9, 11, 12, 14}, {1, 3, 4, 7, 8, 9, 13, 15},
        {0, 1, 5, 8, 9, 11, 13, 14}, {1, 3, 5, 8, 11, 12, 14, 15},
        {3, 4, 6, 8, 9, 10, 11, 12, 14, 15},
        {1, 2, 3, 4, 6, 7, 9, 11, 12, 13, 14, 15},
        {1, 3, 4, 5, 6, 11, 12, 14}, {0, 3, 4, 6, 7, 8, 9, 13, 14, 15}>>
  <1>1. Chain(T, 7)
    BY DEF Chain, Stepped, Odd, Differ
  <1>2. /\ 7 \in Nat /\ T[1] = {0, 2, 7, 8, 9, 11, 12, 14}
        /\ T[7 + 1] = {0, 3, 4, 6, 7, 8, 9, 13, 14, 15}
    OBVIOUS
  <1> HIDE DEF T
  <1> QED  BY <1>1, <1>2, TablePasses, Zenon

LEMMA FiveAs9 ==
    ASSUME NEW F, F[1] = {0, 3}, F[5] = {0}, F[6] = {1, 5, 6, 7}, F[7] = {2},
           \A i \in 1..13 : i \notin {1, 5, 6, 7} => F[i] = {}
    PROVE  Reaches(F, 13, 13, {0, 3, 4, 6, 7, 8, 9, 13, 14, 15})
  <1>1. Goes(F, 13, 0, 4, 0..15,
                 {1, 2, 4, 5, 6, 7, 8, 9, 10, 11, 12, 13, 14, 15},
                 {0, 1, 11, 12, 13, 15})
    <2>1. Xor(0..15, F[0 + 1]) =
            {1, 2, 4, 5, 6, 7, 8, 9, 10, 11, 12, 13, 14, 15}
      BY DEF Xor
    <2>2. \A i \in 0 + 2..0 + 4 : F[i] = {}
      OBVIOUS
    <2> QED  BY FiveAs9a, ReachesFirst, <2>1, <2>2 DEF Goes
  <1>2. Reaches(F, 13, 0 + 4, {0, 1, 11, 12, 13, 15})
    BY <1>1, ReachesOn
  <1>3. Goes(F, 13, 4, 1, {0, 1, 11, 12, 13, 15},
                 {1, 11, 12, 13, 15},
                 {0, 3, 4, 5, 8, 14, 15})
    <2>1. Xor({0, 1, 11, 12, 13, 15}, F[4 + 1]) =
            {1, 11, 12, 13, 15}
      BY DEF Xor
    <2>2. \A i \in 4 + 2..4 + 1 : F[i] = {}
      OBVIOUS
    <2> QED  BY FiveAs9b, <1>2, <2>1, <2>2 DEF Goes
  <1>4. Reaches(F, 13, 4 + 1, {0, 3, 4, 5, 8, 14, 15})
    BY <1>3, ReachesOn
  <1>5. Reaches(F, 13, 5, {0, 3, 4, 5, 8, 14, 15})
    <2>1. 4 + 1 = 5
      OBVIOUS
    <2> QED  BY <1>4, <2>1
  <1>6. Goes(F, 13, 5, 1, {0, 3, 4, 5, 8, 14, 15},
                 {0, 1, 3, 4, 6, 7, 8, 14, 15},
                 {0, 7, 8, 9, 11, 12, 14})
    <2>1. Xor({0, 3, 4, 5, 8, 14, 15}, F[5 + 1]) =
            {0, 1, 3, 4, 6, 7, 8, 14, 15}
      BY DEF Xor
    <2>2. \A i \in 5 + 2..5 + 1 : F[i] = {}
      OBVIOUS
    <2> QED  BY FiveAs9c, <1>5, <2>1, <2>2 DEF Goes
  <1>7. Reaches(F, 13, 5 + 1, {0, 7, 8, 9, 11, 12, 14})
    BY <1>6, ReachesOn
  <1>8. Reaches(F, 13, 6, {0, 7, 8, 9, 11, 12, 14})
    <2>1. 5 + 1 = 6
      OBVIOUS
    <2> QED  BY <1>7, <2>1
  <1>9. Goes(F, 13, 6, 7, {0, 7, 8, 9, 11, 12, 14},
                 {0, 2, 7, 8, 9, 11, 12, 14},
                 {0, 3, 4, 6, 7, 8, 9, 13, 14, 15})
    <2>1. Xor({0, 7, 8, 9, 11, 12, 14}, F[6 + 1]) =
            {0, 2, 7, 8, 9, 11, 12, 14}
      BY DEF Xor
    <2>2. \A i \in 6 + 2..6 + 7 : F[i] = {}
      OBVIOUS
    <2> QED  BY FiveAs9d, <1>8, <2>1, <2>2 DEF Goes
  <1>10. Reaches(F, 13, 6 + 7, {0, 3, 4, 6, 7, 8, 9, 13, 14, 15})
    BY <1>9, ReachesOn
  <1>11. Reaches(F, 13, 13, {0, 3, 4, 6, 7, 8, 9, 13, 14, 15})
    <2>1. 6 + 7 = 13
      OBVIOUS
    <2> QED  BY <1>10, <2>1
  <1> QED  BY <1>11

LEMMA FiveAs29a == Passes({1, 5, 6, 7, 8, 9, 10, 11, 12, 13, 14, 15}, 4, {1, 2, 11, 14})
  <1> DEFINE T == <<
        {1, 5, 6, 7, 8, 9, 10, 11, 12, 13, 14, 15},
        {0, 1, 2, 3, 4, 5, 6, 8, 11, 14}, {3, 13, 14, 15},
        {0, 5, 6, 7, 9, 10, 14, 15}, {1, 2, 11, 14}>>
  <1>1. Chain(T, 4)
    BY DEF Chain, Stepped, Odd, Differ
  <1>2. /\ 4 \in Nat /\ T[1] = {1, 5, 6, 7, 8, 9, 10, 11, 12, 13, 14, 15}
        /\ T[4 + 1] = {1, 2, 11, 14}
    OBVIOUS
  <1> HIDE DEF T
  <1> QED  BY <1>1, <1>2, TablePasses, Zenon

LEMMA FiveAs29b == Passes({0, 1, 2, 11, 14}, 1, {0, 3, 9, 14, 15})
  <1> DEFINE T == <<
        {0, 1, 2, 11, 14}, {0, 3, 9, 14, 15}>>
  <1>1. Chain(T, 1)
    BY DEF Chain, Stepped, Odd, Differ
  <1>2. 1 \in Nat /\ T[1] = {0, 1, 2, 11, 14} /\ T[1 + 1] = {0, 3, 9, 14, 15}
    OBVIOUS
  <1> HIDE DEF T
  <1> QED  BY <1>1, <1>2, TablePasses, Zenon

LEMMA FiveAs29c == Passes({0, 1, 3, 5, 6, 7, 9, 14, 15}, 1, {1, 7, 8, 9, 10, 11, 14})
  <1> DEFINE T == <<
        {0, 1, 3, 5, 6, 7, 9, 14, 15}, {1, 7, 8, 9, 10, 11, 14}>>
  <1>1. Chain(T, 1)
    BY DEF Chain, Stepped, Odd, Differ
  <1>2. 1 \in Nat /\ T[1] = {0, 1, 3, 5, 6, 7, 9, 14, 15} /\ T[1 + 1] = {1, 7, 8, 9, 10, 11, 14}
    OBVIOUS
  <1> HIDE DEF T
  <1> QED  BY <1>1, <1>2, TablePasses, Zenon

LEMMA FiveAs29dx == Passes({1, 2, 7, 8, 9, 10, 11, 14}, 9, {1, 2, 3, 9, 10, 12})
  <1> DEFINE T == <<
        {1, 2, 7, 8, 9, 10, 11, 14}, {1, 2, 3, 6, 7, 9, 13, 15},
        {0, 1, 5, 10, 12, 15}, {0, 2, 4, 6, 7, 8, 11, 12, 14, 15},
        {3, 4, 8, 9, 10, 11, 12, 15}, {0, 1, 2, 3, 4, 7, 9, 11},
        {1, 3, 6, 11, 13, 14}, {0, 3, 5, 6, 7, 8, 9, 10, 12, 13, 14, 15},
        {1, 2, 4, 5, 9, 10, 11, 15}, {1, 2, 3, 9, 10, 12}>>
  <1>1. Chain(T, 9)
    BY DEF Chain, Stepped, Odd, Differ
  <1>2. 9 \in Nat /\ T[1] = {1, 2, 7, 8, 9, 10, 11, 14} /\ T[9 + 1] = {1, 2, 3, 9, 10, 12}
    OBVIOUS
  <1> HIDE DEF T
  <1> QED  BY <1>1, <1>2, TablePasses, Zenon

LEMMA FiveAs29dy == Passes({1, 2, 3, 9, 10, 12}, 9, {0, 2, 3, 6, 7, 9, 10, 14})
  <1> DEFINE T == <<
        {1, 2, 3, 9, 10, 12}, {0, 1, 2, 4, 7, 10, 14, 15},
        {0, 2, 7, 9, 10, 11, 13, 15}, {0, 1, 2, 3, 5, 6, 8, 9, 13, 15},
        {0, 1, 5, 6, 7, 10, 11, 13}, {0, 2, 3, 5, 6, 8, 11, 15},
        {3, 6, 8, 10, 11, 13, 14, 15}, {0, 2, 3, 5, 6, 7, 9, 10, 12, 13},
        {1, 2, 4, 5, 6, 7, 8, 10, 11, 14}, {0, 2, 3, 6, 7, 9, 10, 14}>>
  <1>1. Chain(T, 9)
    BY DEF Chain, Stepped, Odd, Differ
  <1>2. 9 \in Nat /\ T[1] = {1, 2, 3, 9, 10, 12} /\ T[9 + 1] = {0, 2, 3, 6, 7, 9, 10, 14}
    OBVIOUS
  <1> HIDE DEF T
  <1> QED  BY <1>1, <1>2, TablePasses, Zenon

LEMMA FiveAs29dz == Passes({0, 2, 3, 6, 7, 9, 10, 14}, 9, {2, 3, 7, 8, 9, 10, 11, 15})
  <1> DEFINE T == <<
        {0, 2, 3, 6, 7, 9, 10, 14}, {0, 1, 2, 7, 8, 10, 12, 15},
        {0, 2, 4, 6, 7, 9, 13, 14}, {0, 1, 5, 7, 8, 9, 10, 11, 12, 15},
        {0, 1, 2, 3, 4, 6, 7, 8, 11, 12, 13, 14}, {3, 4, 5, 11, 12, 15},
        {0, 3, 4, 7, 9, 12, 14, 15}, {1, 4, 9, 11, 13, 14},
        {1, 3, 5, 6, 7, 8, 10, 11}, {2, 3, 7, 8, 9, 10, 11, 15}>>
  <1>1. Chain(T, 9)
    BY DEF Chain, Stepped, Odd, Differ
  <1>2. 9 \in Nat /\ T[1] = {0, 2, 3, 6, 7, 9, 10, 14} /\ T[9 + 1] = {2, 3, 7, 8, 9, 10, 11, 15}
    OBVIOUS
  <1> HIDE DEF T
  <1> QED  BY <1>1, <1>2, TablePasses, Zenon

LEMMA FiveAs29d == Passes({1, 2, 7, 8, 9, 10, 11, 14}, 27, {2, 3, 7, 8, 9, 10, 11, 15})
  <1>1. Passes({1, 2, 7, 8, 9, 10, 11, 14}, 9 + 9,
             {0, 2, 3, 6, 7, 9, 10, 14})
    BY FiveAs29dx, FiveAs29dy, PassesOn
  <1>2. 9 + 9 = 18
    OBVIOUS
  <1>3. Passes({1, 2, 7, 8, 9, 10, 11, 14}, 18,
             {0, 2, 3, 6, 7, 9, 10, 14})
    BY <1>1, <1>2
  <1>4. Passes({1, 2, 7, 8, 9, 10, 11, 14}, 18 + 9,
             {2, 3, 7, 8, 9, 10, 11, 15})
    BY <1>3, FiveAs29dz, PassesOn
  <1>5. 18 + 9 = 27
    OBVIOUS
  <1>6. Passes({1, 2, 7, 8, 9, 10, 11, 14}, 27,
             {2, 3, 7, 8, 9, 10, 11, 15})
    BY <1>4, <1>5
  <1> QED  BY <1>6

LEMMA FiveAs29 ==
    ASSUME NEW F, F[1] = {0, 2, 3, 4}, F[5] = {0}, F[6] = {1, 5, 6, 7}, F[7] = {2},
           \A i \in 1..33 : i \notin {1, 5, 6, 7} => F[i] = {}
    PROVE  Reaches(F, 33, 33, {2, 3, 7, 8, 9, 10, 11, 15})
  <1>1. Goes(F, 33, 0, 4, 0..15,
                 {1, 5, 6, 7, 8, 9, 10, 11, 12, 13, 14, 15},
                 {1, 2, 11, 14})
    <2>1. Xor(0..15, F[0 + 1]) =
            {1, 5, 6, 7, 8, 9, 10, 11, 12, 13, 14, 15}
      BY DEF Xor
    <2>2. \A i \in 0 + 2..0 + 4 : F[i] = {}
      OBVIOUS
    <2> QED  BY FiveAs29a, ReachesFirst, <2>1, <2>2 DEF Goes
  <1>2. Reaches(F, 33, 0 + 4, {1, 2, 11, 14})
    BY <1>1, ReachesOn
  <1>3. Goes(F, 33, 4, 1, {1, 2, 11, 14},
                 {0, 1, 2, 11, 14},
                 {0, 3, 9, 14, 15})
    <2>1. Xor({1, 2, 11, 14}, F[4 + 1]) =
            {0, 1, 2, 11, 14}
      BY DEF Xor
    <2>2. \A i \in 4 + 2..4 + 1 : F[i] = {}
      OBVIOUS
    <2> QED  BY FiveAs29b, <1>2, <2>1, <2>2 DEF Goes
  <1>4. Reaches(F, 33, 4 + 1, {0, 3, 9, 14, 15})
    BY <1>3, ReachesOn
  <1>5. Reaches(F, 33, 5, {0, 3, 9, 14, 15})
    <2>1. 4 + 1 = 5
      OBVIOUS
    <2> QED  BY <1>4, <2>1
  <1>6. Goes(F, 33, 5, 1, {0, 3, 9, 14, 15},
                 {0, 1, 3, 5, 6, 7, 9, 14, 15},
                 {1, 7, 8, 9, 10, 11, 14})
    <2>1. Xor({0, 3, 9, 14, 15}, F[5 + 1]) =
            {0, 1, 3, 5, 6, 7, 9, 14, 15}
      BY DEF Xor
    <2>2. \A i \in 5 + 2..5 + 1 : F[i] = {}
      OBVIOUS
    <2> QED  BY FiveAs29c, <1>5, <2>1, <2>2 DEF Goes
  <1>7. Reaches(F, 33, 5 + 1, {1, 7, 8, 9, 10, 11, 14})
    BY <1>6, ReachesOn
  <1>8. Reaches(F, 33, 6, {1, 7, 8, 9, 10, 11, 14})
    <2>1. 5 + 1 = 6
      OBVIOUS
    <2> QED  BY <1>7, <2>1
  <1>9. Goes(F, 33, 6, 27, {1, 7, 8, 9, 10, 11, 14},
                 {1, 2, 7, 8, 9, 10, 11, 14},
                 {2, 3, 7, 8, 9, 10, 11, 15})
    <2>1. Xor({1, 7, 8, 9, 10, 11, 14}, F[6 + 1]) =
            {1, 2, 7, 8, 9, 10, 11, 14}
      BY DEF Xor
    <2>2. \A i \in 6 + 2..6 + 27 : F[i] = {}
      OBVIOUS
    <2> QED  BY FiveAs29d, <1>8, <2>1, <2>2 DEF Goes
  <1>10. Reaches(F, 33, 6 + 27, {2, 3, 7, 8, 9, 10, 11, 15})
    BY <1>9, ReachesOn
  <1>11. Reaches(F, 33, 33, {2, 3, 7, 8, 9, 10, 11, 15})
    <2>1. 6 + 27 = 33
      OBVIOUS
    <2> QED  BY <1>10, <2>1
  <1> QED  BY <1>11

-----------------------------------------------------------------------------
(* None of them is the checksum that was sent.                             *)

(* The bytes of such a frame, the flips in its length and its payload.     *)
LEMMA Laid ==
    ASSUME NEW f, NEW payload, Built(f, payload), NEW d, NEW bits, NEW L, Mislaid(f, d, bits, L)
    PROVE  LET F == Feed(d, 12, 14, 4 + L)
           IN /\ F[1] = Xor(BitsOf(Len(payload)), Flips(bits, 13))
              /\ \A i \in 2..4 : F[i] = {}
              /\ \A i \in 5..4 + L :
                    F[i] = IF i <= 4 + Len(payload) THEN BitsOf(payload[i - 4]) ELSE {}
  <1> DEFINE F == Feed(d, 12, 14, 4 + L)
             n == Len(payload)
  <1>1. /\ F[1] = BitsOf(L) /\ F[2] = {} /\ F[3] = {} /\ F[4] = {}
        /\ \A i \in 1..L : F[4 + i] = IF i <= n THEN BitsOf(payload[i]) ELSE {}
        /\ \A i \in 1..4 + L : F[i] \in Regs
    BY MislaidFeed, Zenon
  <1>2. L \in 1..44 /\ BitsOf(L) = Xor(BitsOf(n), Flips(bits, 13))
    BY DEF Mislaid, Built
  <1>3. n \in 0..44
    BY BuiltLen, Zenon
  <1> HIDE DEF F, n
  <1>4. \A i \in 2..4 : F[i] = {}
    <2>1. \A i \in 2..4 : i = 2 \/ i = 3 \/ i = 4
      OBVIOUS
    <2> QED  BY <1>1, <2>1
  <1>5. ASSUME NEW i \in 5..4 + L
        PROVE  F[i] = IF i <= 4 + n THEN BitsOf(payload[i - 4]) ELSE {}
    <2>1. i - 4 \in 1..L /\ 4 + (i - 4) = i /\ (i - 4 <= n <=> i <= 4 + n)
      BY <1>2, <1>3
    <2> QED  BY <1>1, <2>1
  <1> QED  BY <1>1, <1>2, <1>4, <1>5 DEF F, n

(* The sample: no payload.                                                 *)
NoneFed(payload) ==
    /\ Len(payload) = 0 /\ BitsOf(0) = {}

(* A damaged length of a sample is noticed.                                *)
LEMMA NoneKept ==
    ASSUME NEW f, NEW payload, NoneFed(payload), Built(f, payload),
           NEW d, NEW bits \in Damages, NEW L, Mislaid(f, d, bits, L)
    PROVE  FALSE
  <1> DEFINE F == Feed(d, 12, 14, 4 + L)
             H == Flips(bits, 13)
             n == Len(payload)
  <1>1. n = 0 /\ BitsOf(n) = {}
    BY DEF NoneFed
  <1>2. L \in 1..44 /\ Octave(Xor(BitsOf(n), H), L)
    BY LengthBits, Zenon
  <1>3. (\E k \in 0..7 : H = {k}) \/ \E k \in 0..6 : H = {k, k + 1}
    BY LengthFlips DEF Mislaid
  <1>4. /\ F[1] = Xor(BitsOf(n), H)
        /\ \A i \in 2..4 : F[i] = {}
        /\ \A i \in 5..4 + L : F[i] = IF i <= 4 + n THEN BitsOf(payload[i - 4]) ELSE {}
    BY Laid, Zenon
  <1>5. PICK A : A = 0..15
    OBVIOUS
  <1>6. Sums(payload, A)
    BY <1>5, <1>1, BuiltLen, ZeroBits DEF Sums, BodyOf
  <1>7. ~Strays(F, 4 + L, A)
    BY <1>6, OtherEnd, Zenon
  <1>8. ASSUME NEW k \in 0..7, H = {k}, L > n PROVE FALSE
    BY <1>8, LongerIsBad, Zenon
  <1> HIDE DEF F, H, n
  <1>9. F[1] = Xor({}, H) /\ \A i \in 2..4 : F[i] = {}
    BY <1>1, <1>4
  <1>10. \A i \in 5..4 + L : F[i] = {}
    <2>1. \A i \in 5..4 + L : ~(i <= 4 + 0)
      OBVIOUS
    <2> QED  BY <1>1, <1>4, <2>1
  <1>11. ~(H = {0, 1} /\ L = 3)
    <2> SUFFICES ASSUME H = {0, 1}, L = 3 PROVE FALSE
      OBVIOUS
    <2>1. 4 + L = 7
      OBVIOUS
    <2>2. F[1] = {0, 1}
      BY <1>9 DEF Xor
    <2>3. ASSUME NEW i \in 1..7, i \notin {1} PROVE F[i] = {}
      <3>1. i \in 2..4 \/ (i \in 5..4 + L)
        BY <2>1, <2>3
      <3> QED  BY <1>9, <1>10, <3>1
    <2>4. Reaches(F, 7, 7, {3, 5})
      BY <2>2, <2>3, NoneAs3
    <2>5. 0 \in 0..15 /\ ~(0 \in 0..15 <=> 0 \in {3, 5})
      OBVIOUS
    <2> QED  BY <1>5, <1>7, <2>1, <2>4, <2>5 DEF Strays
  <1>12. ~(H = {1, 2} /\ L = 6)
    <2> SUFFICES ASSUME H = {1, 2}, L = 6 PROVE FALSE
      OBVIOUS
    <2>1. 4 + L = 10
      OBVIOUS
    <2>2. F[1] = {1, 2}
      BY <1>9 DEF Xor
    <2>3. ASSUME NEW i \in 1..10, i \notin {1} PROVE F[i] = {}
      <3>1. i \in 2..4 \/ (i \in 5..4 + L)
        BY <2>1, <2>3
      <3> QED  BY <1>9, <1>10, <3>1
    <2>4. Reaches(F, 10, 10, {4, 7, 11, 12})
      BY <2>2, <2>3, NoneAs6
    <2>5. 0 \in 0..15 /\ ~(0 \in 0..15 <=> 0 \in {4, 7, 11, 12})
      OBVIOUS
    <2> QED  BY <1>5, <1>7, <2>1, <2>4, <2>5 DEF Strays
  <1>13. ~(H = {2, 3} /\ L = 12)
    <2> SUFFICES ASSUME H = {2, 3}, L = 12 PROVE FALSE
      OBVIOUS
    <2>1. 4 + L = 16
      OBVIOUS
    <2>2. F[1] = {2, 3}
      BY <1>9 DEF Xor
    <2>3. ASSUME NEW i \in 1..16, i \notin {1} PROVE F[i] = {}
      <3>1. i \in 2..4 \/ (i \in 5..4 + L)
        BY <2>1, <2>3
      <3> QED  BY <1>9, <1>10, <3>1
    <2>4. Reaches(F, 16, 16, {0, 1, 3, 4, 5, 7, 8, 10, 12, 13, 14, 15})
      BY <2>2, <2>3, NoneAs12
    <2>5. 2 \in 0..15 /\ ~(2 \in 0..15 <=> 2 \in {0, 1, 3, 4, 5, 7, 8, 10, 12, 13, 14, 15})
      OBVIOUS
    <2> QED  BY <1>5, <1>7, <2>1, <2>4, <2>5 DEF Strays
  <1>14. ~(H = {3, 4} /\ L = 24)
    <2> SUFFICES ASSUME H = {3, 4}, L = 24 PROVE FALSE
      OBVIOUS
    <2>1. 4 + L = 28
      OBVIOUS
    <2>2. F[1] = {3, 4}
      BY <1>9 DEF Xor
    <2>3. ASSUME NEW i \in 1..28, i \notin {1} PROVE F[i] = {}
      <3>1. i \in 2..4 \/ (i \in 5..4 + L)
        BY <2>1, <2>3
      <3> QED  BY <1>9, <1>10, <3>1
    <2>4. Reaches(F, 28, 28, {0, 4, 7, 9, 11, 13})
      BY <2>2, <2>3, NoneAs24
    <2>5. 1 \in 0..15 /\ ~(1 \in 0..15 <=> 1 \in {0, 4, 7, 9, 11, 13})
      OBVIOUS
    <2> QED  BY <1>5, <1>7, <2>1, <2>4, <2>5 DEF Strays
  <1>15. Octave(Xor({}, H), L)
    BY <1>1, <1>2
  <1> QED  BY <1>1, <1>2, <1>3, <1>8, <1>11, <1>12, <1>13, <1>14, <1>15, FromNone

(* The sample: four bytes, the first of them 1.                            *)
FourFed(payload) ==
    /\ Len(payload) = 4 /\ BitsOf(4) = {2}
    /\ BitsOf(payload[1]) = {0} /\ BitsOf(payload[2]) = {} /\ BitsOf(payload[3]) = {}
    /\ BitsOf(payload[4]) = {}

(* The checksum that was sent with it.                                     *)
LEMMA FourSums ==
    ASSUME NEW f, NEW payload, FourFed(payload), Built(f, payload)
    PROVE  Sums(payload, {6, 10})
  <1> DEFINE m == Len(payload)
             G == Feed(f, 12, 14, 4 + m)
  <1>1. m = 4 /\ 4 + 4 = 8
    BY DEF FourFed
  <1>2. /\ G[1] = BitsOf(m) /\ G[2] = {} /\ G[3] = {} /\ G[4] = {}
        /\ \A i \in 1..m : G[4 + i] = BitsOf(payload[i])
        /\ \A i \in 1..4 + m : G[i] \in Regs
    BY SentFeed, Zenon
  <1>3. payload # <<>>
    BY <1>1
  <1>4. \E h : Ends(h, G, 4 + m, BitsOf(BodyOf(payload)))
    BY <1>3, SentEnds, Zenon
  <1> HIDE DEF m, G
  <1>5. /\ G[1] = {2}
        /\ G[5] = {0} /\ G[6] = {} /\ G[7] = {} /\ G[8] = {}
    <2>1. /\ 1 \in 1..m /\ 4 + 1 = 5 /\ 2 \in 1..m /\ 4 + 2 = 6 /\ 3 \in 1..m /\ 4 + 3 = 7
          /\ 4 \in 1..m /\ 4 + 4 = 8
      BY <1>1
    <2>2. /\ BitsOf(m) = {2}
          /\ BitsOf(payload[1]) = {0} /\ BitsOf(payload[2]) = {} /\ BitsOf(payload[3]) = {}
          /\ BitsOf(payload[4]) = {}
      BY <1>1 DEF FourFed
    <2> QED  BY <1>2, <2>1, <2>2
  <1>6. \A i \in 1..8 : i \notin {1, 5} => G[i] = {}
    <2>1. \A i \in 1..8 : \/ i = 1 \/ i = 2 \/ i = 3 \/ i = 4 \/ i = 5 \/ i = 6 \/ i = 7 \/ i = 8
      OBVIOUS
    <2> QED  BY <1>2, <1>5, <2>1
  <1>7. Reaches(G, 8, 8, {6, 10})
    BY <1>5, <1>6, FourAs4
  <1> QED  BY <1>1, <1>4, <1>7, ReachesEnd DEF Sums

(* A damaged length of a sample is noticed.                                *)
LEMMA FourKept ==
    ASSUME NEW f, NEW payload, FourFed(payload), Built(f, payload),
           NEW d, NEW bits \in Damages, NEW L, Mislaid(f, d, bits, L)
    PROVE  FALSE
  <1> DEFINE F == Feed(d, 12, 14, 4 + L)
             H == Flips(bits, 13)
             n == Len(payload)
  <1>1. n = 4 /\ BitsOf(n) = {2}
    BY DEF FourFed
  <1>2. L \in 1..44 /\ Octave(Xor(BitsOf(n), H), L)
    BY LengthBits, Zenon
  <1>3. (\E k \in 0..7 : H = {k}) \/ \E k \in 0..6 : H = {k, k + 1}
    BY LengthFlips DEF Mislaid
  <1>4. /\ F[1] = Xor(BitsOf(n), H)
        /\ \A i \in 2..4 : F[i] = {}
        /\ \A i \in 5..4 + L : F[i] = IF i <= 4 + n THEN BitsOf(payload[i - 4]) ELSE {}
    BY Laid, Zenon
  <1>5. PICK A : A = {6, 10}
    OBVIOUS
  <1>6. Sums(payload, A)
    BY <1>5, FourSums
  <1>7. ~Strays(F, 4 + L, A)
    BY <1>6, OtherEnd, Zenon
  <1>8. ASSUME NEW k \in 0..7, H = {k}, L > n PROVE FALSE
    BY <1>8, LongerIsBad, Zenon
  <1> HIDE DEF F, H, n
  <1>9. F[1] = Xor({2}, H) /\ \A i \in 2..4 : F[i] = {}
    BY <1>1, <1>4
  <1>10. \A i \in 5..4 + L : F[i] = IF i = 5 THEN {0} ELSE {}
    <2>1. \A i \in 5..4 + L : i <= 4 + 4 =>
              \/ (i = 5 /\ i - 4 = 1) \/ (i = 6 /\ i - 4 = 2) \/ (i = 7 /\ i - 4 = 3)
              \/ (i = 8 /\ i - 4 = 4)
      BY <1>2
    <2>2. /\ BitsOf(payload[1]) = {0} /\ BitsOf(payload[2]) = {} /\ BitsOf(payload[3]) = {}
          /\ BitsOf(payload[4]) = {}
      BY DEF FourFed
    <2>3. /\ 5 <= 4 + 4 /\ 6 <= 4 + 4 /\ 7 <= 4 + 4 /\ 8 <= 4 + 4
      OBVIOUS
    <2> SUFFICES ASSUME NEW i \in 5..4 + L
                 PROVE  F[i] = IF i = 5 THEN {0} ELSE {}
      OBVIOUS
    <2>4. F[i] = IF i <= 4 + 4 THEN BitsOf(payload[i - 4]) ELSE {}
      BY <1>1, <1>4
    <2>5. CASE i <= 4 + 4
      <3>1. \/ (i = 5 /\ i - 4 = 1) \/ (i = 6 /\ i - 4 = 2) \/ (i = 7 /\ i - 4 = 3)
            \/ (i = 8 /\ i - 4 = 4)
        BY <2>1, <2>5
      <3>2. F[i] = BitsOf(payload[i - 4])
        BY <2>4, <2>5
      <3> QED  BY <2>2, <3>1, <3>2
    <2>6. CASE ~(i <= 4 + 4)
      BY <2>3, <2>4, <2>6
    <2> QED  BY <2>5, <2>6
  <1>11. ~(H = {0, 1} /\ L = 7)
    <2> SUFFICES ASSUME H = {0, 1}, L = 7 PROVE FALSE
      OBVIOUS
    <2>1. 4 + L = 11
      OBVIOUS
    <2>2. F[1] = {0, 1, 2}
      BY <1>9 DEF Xor
    <2>3. /\ 5 \in 5..4 + L
      OBVIOUS
    <2>4. /\ F[5] = {0}
      BY <1>10, <2>3
    <2>5. ASSUME NEW i \in 1..11, i \notin {1, 5} PROVE F[i] = {}
      <3>1. i \in 2..4 \/ (i \in 5..4 + L /\ i # 5)
        BY <2>1, <2>5
      <3> QED  BY <1>9, <1>10, <3>1
    <2>6. Reaches(F, 11, 11, {2, 3, 12, 14})
      BY <2>2, <2>4, <2>5, FourAs7
    <2>7. 2 \in 0..15 /\ ~(2 \in {6, 10} <=> 2 \in {2, 3, 12, 14})
      OBVIOUS
    <2> QED  BY <1>5, <1>7, <2>1, <2>6, <2>7 DEF Strays
  <1>12. ~(H = {1, 2} /\ L = 2)
    <2> SUFFICES ASSUME H = {1, 2}, L = 2 PROVE FALSE
      OBVIOUS
    <2>1. 4 + L = 6
      OBVIOUS
    <2>2. F[1] = {1}
      BY <1>9 DEF Xor
    <2>3. /\ 5 \in 5..4 + L
      OBVIOUS
    <2>4. /\ F[5] = {0}
      BY <1>10, <2>3
    <2>5. ASSUME NEW i \in 1..6, i \notin {1, 5} PROVE F[i] = {}
      <3>1. i \in 2..4 \/ (i \in 5..4 + L /\ i # 5)
        BY <2>1, <2>5
      <3> QED  BY <1>9, <1>10, <3>1
    <2>6. Reaches(F, 6, 6, {8, 11, 13, 14})
      BY <2>2, <2>4, <2>5, FourAs2
    <2>7. 6 \in 0..15 /\ ~(6 \in {6, 10} <=> 6 \in {8, 11, 13, 14})
      OBVIOUS
    <2> QED  BY <1>5, <1>7, <2>1, <2>6, <2>7 DEF Strays
  <1>13. ~(H = {2, 3} /\ L = 8)
    <2> SUFFICES ASSUME H = {2, 3}, L = 8 PROVE FALSE
      OBVIOUS
    <2>1. 4 + L = 12
      OBVIOUS
    <2>2. F[1] = {3}
      BY <1>9 DEF Xor
    <2>3. /\ 5 \in 5..4 + L
      OBVIOUS
    <2>4. /\ F[5] = {0}
      BY <1>10, <2>3
    <2>5. ASSUME NEW i \in 1..12, i \notin {1, 5} PROVE F[i] = {}
      <3>1. i \in 2..4 \/ (i \in 5..4 + L /\ i # 5)
        BY <2>1, <2>5
      <3> QED  BY <1>9, <1>10, <3>1
    <2>6. Reaches(F, 12, 12, {2, 6, 8, 12})
      BY <2>2, <2>4, <2>5, FourAs8
    <2>7. 2 \in 0..15 /\ ~(2 \in {6, 10} <=> 2 \in {2, 6, 8, 12})
      OBVIOUS
    <2> QED  BY <1>5, <1>7, <2>1, <2>6, <2>7 DEF Strays
  <1>14. ~(H = {3, 4} /\ L = 28)
    <2> SUFFICES ASSUME H = {3, 4}, L = 28 PROVE FALSE
      OBVIOUS
    <2>1. 4 + L = 32
      OBVIOUS
    <2>2. F[1] = {2, 3, 4}
      BY <1>9 DEF Xor
    <2>3. /\ 5 \in 5..4 + L
      OBVIOUS
    <2>4. /\ F[5] = {0}
      BY <1>10, <2>3
    <2>5. ASSUME NEW i \in 1..32, i \notin {1, 5} PROVE F[i] = {}
      <3>1. i \in 2..4 \/ (i \in 5..4 + L /\ i # 5)
        BY <2>1, <2>5
      <3> QED  BY <1>9, <1>10, <3>1
    <2>6. Reaches(F, 32, 32, {2, 3, 10, 15})
      BY <2>2, <2>4, <2>5, FourAs28
    <2>7. 2 \in 0..15 /\ ~(2 \in {6, 10} <=> 2 \in {2, 3, 10, 15})
      OBVIOUS
    <2> QED  BY <1>5, <1>7, <2>1, <2>6, <2>7 DEF Strays
  <1>15. Octave(Xor({2}, H), L)
    BY <1>1, <1>2
  <1> QED  BY <1>1, <1>2, <1>3, <1>8, <1>11, <1>12, <1>13, <1>14, <1>15, FromFour

(* The sample: the five bytes of an exposure of 1250.                      *)
FiveFed(payload) ==
    /\ Len(payload) = 5 /\ BitsOf(5) = {0, 2}
    /\ BitsOf(payload[1]) = {0} /\ BitsOf(payload[2]) = {1, 5, 6, 7} /\ BitsOf(payload[3]) = {2}
    /\ BitsOf(payload[4]) = {} /\ BitsOf(payload[5]) = {}

(* The checksum that was sent with it.                                     *)
LEMMA FiveSums ==
    ASSUME NEW f, NEW payload, FiveFed(payload), Built(f, payload)
    PROVE  Sums(payload, {0, 1, 2, 3, 4, 5, 6, 8, 11, 12, 14, 15})
  <1> DEFINE m == Len(payload)
             G == Feed(f, 12, 14, 4 + m)
  <1>1. m = 5 /\ 4 + 5 = 9
    BY DEF FiveFed
  <1>2. /\ G[1] = BitsOf(m) /\ G[2] = {} /\ G[3] = {} /\ G[4] = {}
        /\ \A i \in 1..m : G[4 + i] = BitsOf(payload[i])
        /\ \A i \in 1..4 + m : G[i] \in Regs
    BY SentFeed, Zenon
  <1>3. payload # <<>>
    BY <1>1
  <1>4. \E h : Ends(h, G, 4 + m, BitsOf(BodyOf(payload)))
    BY <1>3, SentEnds, Zenon
  <1> HIDE DEF m, G
  <1>5. /\ G[1] = {0, 2}
        /\ G[5] = {0} /\ G[6] = {1, 5, 6, 7} /\ G[7] = {2} /\ G[8] = {} /\ G[9] = {}
    <2>1. /\ 1 \in 1..m /\ 4 + 1 = 5 /\ 2 \in 1..m /\ 4 + 2 = 6 /\ 3 \in 1..m /\ 4 + 3 = 7
          /\ 4 \in 1..m /\ 4 + 4 = 8 /\ 5 \in 1..m /\ 4 + 5 = 9
      BY <1>1
    <2>2. /\ BitsOf(m) = {0, 2}
          /\ BitsOf(payload[1]) = {0} /\ BitsOf(payload[2]) = {1, 5, 6, 7}
          /\ BitsOf(payload[3]) = {2} /\ BitsOf(payload[4]) = {} /\ BitsOf(payload[5]) = {}
      BY <1>1 DEF FiveFed
    <2> QED  BY <1>2, <2>1, <2>2
  <1>6. \A i \in 1..9 : i \notin {1, 5, 6, 7} => G[i] = {}
    <2>1. \A i \in 1..9 : \/ i = 1 \/ i = 2 \/ i = 3 \/ i = 4 \/ i = 5
                          \/ i = 6 \/ i = 7 \/ i = 8 \/ i = 9
      OBVIOUS
    <2> QED  BY <1>2, <1>5, <2>1
  <1>7. Reaches(G, 9, 9, {0, 1, 2, 3, 4, 5, 6, 8, 11, 12, 14, 15})
    BY <1>5, <1>6, FiveAs5
  <1> QED  BY <1>1, <1>4, <1>7, ReachesEnd DEF Sums

(* A damaged length of a sample is noticed.                                *)
LEMMA FiveKept ==
    ASSUME NEW f, NEW payload, FiveFed(payload), Built(f, payload),
           NEW d, NEW bits \in Damages, NEW L, Mislaid(f, d, bits, L)
    PROVE  FALSE
  <1> DEFINE F == Feed(d, 12, 14, 4 + L)
             H == Flips(bits, 13)
             n == Len(payload)
  <1>1. n = 5 /\ BitsOf(n) = {0, 2}
    BY DEF FiveFed
  <1>2. L \in 1..44 /\ Octave(Xor(BitsOf(n), H), L)
    BY LengthBits, Zenon
  <1>3. (\E k \in 0..7 : H = {k}) \/ \E k \in 0..6 : H = {k, k + 1}
    BY LengthFlips DEF Mislaid
  <1>4. /\ F[1] = Xor(BitsOf(n), H)
        /\ \A i \in 2..4 : F[i] = {}
        /\ \A i \in 5..4 + L : F[i] = IF i <= 4 + n THEN BitsOf(payload[i - 4]) ELSE {}
    BY Laid, Zenon
  <1>5. PICK A : A = {0, 1, 2, 3, 4, 5, 6, 8, 11, 12, 14, 15}
    OBVIOUS
  <1>6. Sums(payload, A)
    BY <1>5, FiveSums
  <1>7. ~Strays(F, 4 + L, A)
    BY <1>6, OtherEnd, Zenon
  <1>8. ASSUME NEW k \in 0..7, H = {k}, L > n PROVE FALSE
    BY <1>8, LongerIsBad, Zenon
  <1> HIDE DEF F, H, n
  <1>9. F[1] = Xor({0, 2}, H) /\ \A i \in 2..4 : F[i] = {}
    BY <1>1, <1>4
  <1>10. \A i \in 5..4 + L :
            F[i] = IF i = 5 THEN {0} ELSE IF i = 6 THEN {1, 5, 6, 7}
                   ELSE IF i = 7 THEN {2} ELSE {}
    <2>1. \A i \in 5..4 + L : i <= 4 + 5 =>
              \/ (i = 5 /\ i - 4 = 1) \/ (i = 6 /\ i - 4 = 2) \/ (i = 7 /\ i - 4 = 3)
              \/ (i = 8 /\ i - 4 = 4) \/ (i = 9 /\ i - 4 = 5)
      BY <1>2
    <2>2. /\ BitsOf(payload[1]) = {0} /\ BitsOf(payload[2]) = {1, 5, 6, 7}
          /\ BitsOf(payload[3]) = {2} /\ BitsOf(payload[4]) = {} /\ BitsOf(payload[5]) = {}
      BY DEF FiveFed
    <2>3. /\ 5 <= 4 + 5 /\ 6 <= 4 + 5 /\ 7 <= 4 + 5 /\ 8 <= 4 + 5 /\ 9 <= 4 + 5
      OBVIOUS
    <2> SUFFICES ASSUME NEW i \in 5..4 + L
                 PROVE  F[i] = IF i = 5 THEN {0} ELSE IF i = 6 THEN {1, 5, 6, 7}
                               ELSE IF i = 7 THEN {2} ELSE {}
      OBVIOUS
    <2>4. F[i] = IF i <= 4 + 5 THEN BitsOf(payload[i - 4]) ELSE {}
      BY <1>1, <1>4
    <2>5. CASE i <= 4 + 5
      <3>1. \/ (i = 5 /\ i - 4 = 1) \/ (i = 6 /\ i - 4 = 2) \/ (i = 7 /\ i - 4 = 3)
            \/ (i = 8 /\ i - 4 = 4) \/ (i = 9 /\ i - 4 = 5)
        BY <2>1, <2>5
      <3>2. F[i] = BitsOf(payload[i - 4])
        BY <2>4, <2>5
      <3> QED  BY <2>2, <3>1, <3>2
    <2>6. CASE ~(i <= 4 + 5)
      BY <2>3, <2>4, <2>6
    <2> QED  BY <2>5, <2>6
  <1>11. ~(H = {0} /\ L = 4)
    <2> SUFFICES ASSUME H = {0}, L = 4 PROVE FALSE
      OBVIOUS
    <2>1. 4 + L = 8
      OBVIOUS
    <2>2. F[1] = {2}
      BY <1>9 DEF Xor
    <2>3. /\ 5 \in 5..4 + L /\ 6 \in 5..4 + L /\ 7 \in 5..4 + L
      OBVIOUS
    <2>4. /\ F[5] = {0} /\ F[6] = {1, 5, 6, 7} /\ F[7] = {2}
      BY <1>10, <2>3
    <2>5. ASSUME NEW i \in 1..8, i \notin {1, 5, 6, 7} PROVE F[i] = {}
      <3>1. i \in 2..4 \/ (i \in 5..4 + L /\ i # 5 /\ i # 6 /\ i # 7)
        BY <2>1, <2>5
      <3> QED  BY <1>9, <1>10, <3>1
    <2>6. Reaches(F, 8, 8, {1, 5, 6, 7, 9, 12, 13, 14, 15})
      BY <2>2, <2>4, <2>5, FiveAs4
    <2>7. /\ 0 \in 0..15
          /\ ~(0 \in {0, 1, 2, 3, 4, 5, 6, 8, 11, 12, 14, 15}
               <=> 0 \in {1, 5, 6, 7, 9, 12, 13, 14, 15})
      OBVIOUS
    <2> QED  BY <1>5, <1>7, <2>1, <2>6, <2>7 DEF Strays
  <1>12. ~(H = {2} /\ L = 1)
    <2> SUFFICES ASSUME H = {2}, L = 1 PROVE FALSE
      OBVIOUS
    <2>1. 4 + L = 5
      OBVIOUS
    <2>2. F[1] = {0}
      BY <1>9 DEF Xor
    <2>3. /\ 5 \in 5..4 + L
      OBVIOUS
    <2>4. /\ F[5] = {0}
      BY <1>10, <2>3
    <2>5. ASSUME NEW i \in 1..5, i \notin {1, 5} PROVE F[i] = {}
      <3>1. i \in 2..4 \/ (i \in 5..4 + L /\ i # 5 /\ i # 6 /\ i # 7)
        BY <2>1, <2>5
      <3> QED  BY <1>9, <1>10, <3>1
    <2>6. Reaches(F, 5, 5, {3, 4, 6, 7})
      BY <2>2, <2>4, <2>5, FiveAs1
    <2>7. 0 \in 0..15 /\ ~(0 \in {0, 1, 2, 3, 4, 5, 6, 8, 11, 12, 14, 15} <=> 0 \in {3, 4, 6, 7})
      OBVIOUS
    <2> QED  BY <1>5, <1>7, <2>1, <2>6, <2>7 DEF Strays
  <1>13. ~(H = {0, 1} /\ L = 6)
    <2> SUFFICES ASSUME H = {0, 1}, L = 6 PROVE FALSE
      OBVIOUS
    <2>1. 4 + L = 10
      OBVIOUS
    <2>2. F[1] = {1, 2}
      BY <1>9 DEF Xor
    <2>3. /\ 5 \in 5..4 + L /\ 6 \in 5..4 + L /\ 7 \in 5..4 + L
      OBVIOUS
    <2>4. /\ F[5] = {0} /\ F[6] = {1, 5, 6, 7} /\ F[7] = {2}
      BY <1>10, <2>3
    <2>5. ASSUME NEW i \in 1..10, i \notin {1, 5, 6, 7} PROVE F[i] = {}
      <3>1. i \in 2..4 \/ (i \in 5..4 + L /\ i # 5 /\ i # 6 /\ i # 7)
        BY <2>1, <2>5
      <3> QED  BY <1>9, <1>10, <3>1
    <2>6. Reaches(F, 10, 10, {3, 5, 6, 8, 9, 10, 11, 13, 14, 15})
      BY <2>2, <2>4, <2>5, FiveAs6
    <2>7. /\ 0 \in 0..15
          /\ ~(0 \in {0, 1, 2, 3, 4, 5, 6, 8, 11, 12, 14, 15}
               <=> 0 \in {3, 5, 6, 8, 9, 10, 11, 13, 14, 15})
      OBVIOUS
    <2> QED  BY <1>5, <1>7, <2>1, <2>6, <2>7 DEF Strays
  <1>14. ~(H = {1, 2} /\ L = 3)
    <2> SUFFICES ASSUME H = {1, 2}, L = 3 PROVE FALSE
      OBVIOUS
    <2>1. 4 + L = 7
      OBVIOUS
    <2>2. F[1] = {0, 1}
      BY <1>9 DEF Xor
    <2>3. /\ 5 \in 5..4 + L /\ 6 \in 5..4 + L /\ 7 \in 5..4 + L
      OBVIOUS
    <2>4. /\ F[5] = {0} /\ F[6] = {1, 5, 6, 7} /\ F[7] = {2}
      BY <1>10, <2>3
    <2>5. ASSUME NEW i \in 1..7, i \notin {1, 5, 6, 7} PROVE F[i] = {}
      <3>1. i \in 2..4 \/ (i \in 5..4 + L /\ i # 5 /\ i # 6 /\ i # 7)
        BY <2>1, <2>5
      <3> QED  BY <1>9, <1>10, <3>1
    <2>6. Reaches(F, 7, 7, {4, 5, 8, 9, 13, 15})
      BY <2>2, <2>4, <2>5, FiveAs3
    <2>7. /\ 0 \in 0..15
          /\ ~(0 \in {0, 1, 2, 3, 4, 5, 6, 8, 11, 12, 14, 15}
               <=> 0 \in {4, 5, 8, 9, 13, 15})
      OBVIOUS
    <2> QED  BY <1>5, <1>7, <2>1, <2>6, <2>7 DEF Strays
  <1>15. ~(H = {2, 3} /\ L = 9)
    <2> SUFFICES ASSUME H = {2, 3}, L = 9 PROVE FALSE
      OBVIOUS
    <2>1. 4 + L = 13
      OBVIOUS
    <2>2. F[1] = {0, 3}
      BY <1>9 DEF Xor
    <2>3. /\ 5 \in 5..4 + L /\ 6 \in 5..4 + L /\ 7 \in 5..4 + L
      OBVIOUS
    <2>4. /\ F[5] = {0} /\ F[6] = {1, 5, 6, 7} /\ F[7] = {2}
      BY <1>10, <2>3
    <2>5. ASSUME NEW i \in 1..13, i \notin {1, 5, 6, 7} PROVE F[i] = {}
      <3>1. i \in 2..4 \/ (i \in 5..4 + L /\ i # 5 /\ i # 6 /\ i # 7)
        BY <2>1, <2>5
      <3> QED  BY <1>9, <1>10, <3>1
    <2>6. Reaches(F, 13, 13, {0, 3, 4, 6, 7, 8, 9, 13, 14, 15})
      BY <2>2, <2>4, <2>5, FiveAs9
    <2>7. /\ 1 \in 0..15
          /\ ~(1 \in {0, 1, 2, 3, 4, 5, 6, 8, 11, 12, 14, 15}
               <=> 1 \in {0, 3, 4, 6, 7, 8, 9, 13, 14, 15})
      OBVIOUS
    <2> QED  BY <1>5, <1>7, <2>1, <2>6, <2>7 DEF Strays
  <1>16. ~(H = {3, 4} /\ L = 29)
    <2> SUFFICES ASSUME H = {3, 4}, L = 29 PROVE FALSE
      OBVIOUS
    <2>1. 4 + L = 33
      OBVIOUS
    <2>2. F[1] = {0, 2, 3, 4}
      BY <1>9 DEF Xor
    <2>3. /\ 5 \in 5..4 + L /\ 6 \in 5..4 + L /\ 7 \in 5..4 + L
      OBVIOUS
    <2>4. /\ F[5] = {0} /\ F[6] = {1, 5, 6, 7} /\ F[7] = {2}
      BY <1>10, <2>3
    <2>5. ASSUME NEW i \in 1..33, i \notin {1, 5, 6, 7} PROVE F[i] = {}
      <3>1. i \in 2..4 \/ (i \in 5..4 + L /\ i # 5 /\ i # 6 /\ i # 7)
        BY <2>1, <2>5
      <3> QED  BY <1>9, <1>10, <3>1
    <2>6. Reaches(F, 33, 33, {2, 3, 7, 8, 9, 10, 11, 15})
      BY <2>2, <2>4, <2>5, FiveAs29
    <2>7. /\ 0 \in 0..15
          /\ ~(0 \in {0, 1, 2, 3, 4, 5, 6, 8, 11, 12, 14, 15}
               <=> 0 \in {2, 3, 7, 8, 9, 10, 11, 15})
      OBVIOUS
    <2> QED  BY <1>5, <1>7, <2>1, <2>6, <2>7 DEF Strays
  <1>17. Octave(Xor({0, 2}, H), L)
    BY <1>1, <1>2
  <1> QED  BY <1>1, <1>2, <1>3, <1>8, <1>11, <1>12, <1>13, <1>14, <1>15, <1>16, <1>17, FromFive

-----------------------------------------------------------------------------
(* The results.                                                            *)

(* The length of the damaged frame is as it was, or beyond the frame, or   *)
(* longer by one flipped bit.                                              *)
Exposed(f, d, bits) ==
    \/ WordAt(d, 12) = WordAt(f, 12)
    \/ WordAt(d, 12) > 44
    \/ WordAt(d, 12) > WordAt(f, 12) /\ \E b : bits = {b}

(* Whatever command, receiver, sequence number, flags and payload a frame  *)
(* is built with (protocol.py:67), and whichever bit of it, or two         *)
(* neighbouring ones, are flipped: parse_frame raises or finds what was    *)
(* sent (protocol.py:96), if the length is as it was, or beyond the frame, *)
(* or longer by one flipped bit.  A length damaged to zero is taken for no *)
(* payload (protocol.py:110); for the other shorter ones, and the longer   *)
(* ones by two bits, the checksum is computed over other bytes than were   *)
(* sent, and what it says depends on the payload.                          *)
THEOREM DamageNoticed ==
    ASSUME NEW cmd \in Words, NEW receiver \in Octets, NEW seq \in Words, NEW flags \in Octets,
           NEW payload \in Seq(Octets), Len(payload) <= 44, NEW bits \in Damages
    PROVE  LET f == BuildFrame(cmd, receiver, seq, payload, flags)
               d == Damaged(f, bits)
           IN Exposed(f, d, bits) => ParseFrame(d) \in {BadFrame, ParseFrame(f)}
  <1> DEFINE f == BuildFrame(cmd, receiver, seq, payload, flags)
             d == Damaged(f, bits)
             L == WordAt(d, 12)
             m == Len(payload)
  <1>1. Built(f, payload)
    BY BuiltIs
  <1>2. f \in Seq(Octets) /\ f[13] = m /\ f[14] = 0 /\ m \in 0..44
    <2>1. m \in 0..44
      BY <1>1, BuiltLen, Zenon
    <2> QED  BY <1>1, <2>1 DEF Built
  <1> HIDE DEF f
  <1>3. Harmed(f, d, bits)
    BY <1>2, DamagedIs
  <1>4. WordAt(f, 12) = m
    <2>1. \A k \in 0..44 : k + 256 * 0 = k
      OBVIOUS
    <2>2. WordAt(f, 12) = f[13] + 256 * f[14]
      BY DEF WordAt
    <2> QED  BY <1>2, <2>1, <2>2
  <1> HIDE DEF d
  <1>5. ASSUME WordAt(d, 12) = WordAt(f, 12) PROVE ParseFrame(d) \in {BadFrame, ParseFrame(f)}
    BY <1>1, <1>3, <1>5, HarmNoticed
  <1>6. ASSUME ParseFrame(d) # BadFrame, L > m PROVE Mislaid(f, d, bits, L)
    <2>1. L # 0 /\ L # m
      BY <1>2, <1>6
    <2> QED  BY <1>1, <1>3, <1>6, <2>1, LengthHit
  <1>7. L \in Int
    <2>1. d \in Seq(Octets) /\ Len(d) = 60
      BY <1>1, <1>3 DEF Harmed, Built
    <2>2. \A i \in 1..Len(d) : d[i] \in Octets
      BY <2>1, OctetsOf
    <2>3. 13 \in 1..Len(d) /\ 14 \in 1..Len(d) /\ 12 + 1 = 13 /\ 12 + 2 = 14
      BY <2>1
    <2>4. PICK x \in Octets, y \in Octets : x = d[12 + 1] /\ y = d[12 + 2]
      BY <2>2, <2>3
    <2>5. x + 256 * y \in Int
      BY DEF Octets
    <2> QED  BY <2>4, <2>5 DEF WordAt
  <1> HIDE DEF L, m
  <1>8. ASSUME L > m, ParseFrame(d) # BadFrame
        PROVE  ~(L > 44) /\ ~\E b : bits = {b}
    <2>1. Mislaid(f, d, bits, L)
      BY <1>6, <1>8
    <2>2. L \in 1..44 /\ Flips(bits, 13) # {}
      BY <2>1 DEF Mislaid
    <2>3. ASSUME NEW b, bits = {b} PROVE FALSE
      <3>1. PICK k : k \in Flips(bits, 13)
        BY <2>2
      <3>2. k \in 0..7 /\ \A j \in Flips(bits, 13) : j = k
        <4>1. \A j \in Flips(bits, 13) : j \in 0..7 /\ j = b - 8 * (13 - 1)
          BY <2>3 DEF Flips
        <4> QED  BY <3>1, <4>1
      <3>3. Flips(bits, 13) = {k}
        BY <2>2, <3>2, OnlyOne
      <3> QED  BY <1>1, <1>8, <2>1, <3>2, <3>3, LongerIsBad DEF m
    <2> QED  BY <2>2, <2>3
  <1>9. L > 44 => L > m
    BY <1>2, <1>7
  <1> QED  BY <1>4, <1>5, <1>8, <1>9 DEF Exposed, L, d, f

(* The payloads of the run's sample, and its frames.                       *)
Sampled(payload) == NoneFed(payload) \/ FourFed(payload) \/ FiveFed(payload)

LEMMA SampledLen ==
    ASSUME NEW payload, Sampled(payload) PROVE Len(payload) \in {0, 4, 5} /\ Len(payload) <= 44
  <1>1. Len(payload) = 0 \/ Len(payload) = 4 \/ Len(payload) = 5
    BY Zenon DEF Sampled, NoneFed, FourFed, FiveFed
  <1>2. \A k : k = 0 \/ k = 4 \/ k = 5 => k \in {0, 4, 5} /\ k <= 44
    OBVIOUS
  <1> QED  BY <1>1, <1>2, Zenon

LEMMA KeptFrame ==
    ASSUME NEW payload \in Seq(Octets), NEW bits \in Damages, Sampled(payload),
           LET f == BuildFrame(10626, 2, 7, payload, 37)
           IN WordAt(Damaged(f, bits), 12) # 0 \/ payload = <<>>
    PROVE  LET f == BuildFrame(10626, 2, 7, payload, 37)
           IN ParseFrame(Damaged(f, bits)) \in {BadFrame, ParseFrame(f)}
  <1> DEFINE f == BuildFrame(10626, 2, 7, payload, 37)
             d == Damaged(f, bits)
             L == WordAt(d, 12)
             m == Len(payload)
  <1> HIDE DEF L, m, d, f
  <1>1. m \in {0, 4, 5} /\ m <= 44
    BY SampledLen DEF m
  <1> USE DEF L, m, d, f
  <1>2. Built(f, payload)
    <2>1. 10626 \in Words /\ 7 \in Words /\ 2 \in Octets /\ 37 \in Octets
      BY DEF Words, Octets
    <2> QED  BY <1>1, <2>1, BuiltIs
  <1>3. f \in Seq(Octets) /\ f[13] = m /\ f[14] = 0
    BY <1>2 DEF Built
  <1> HIDE DEF f
  <1>4. Harmed(f, d, bits)
    BY <1>3, DamagedIs
  <1>5. WordAt(f, 12) = m
    <2>1. \A k \in {0, 4, 5} : k + 256 * 0 = k
      OBVIOUS
    <2>2. WordAt(f, 12) = f[13] + 256 * f[14]
      BY DEF WordAt
    <2> QED  BY <1>1, <1>3, <2>1, <2>2
  <1>6. L # 0 \/ payload = <<>>
    BY DEF f
  <1> HIDE DEF d
  <1>7. CASE L = m
    BY <1>2, <1>4, <1>5, <1>7, HarmNoticed DEF f, d
  <1>8. CASE L # m
    <2>1. payload = <<>> => m = 0
      OBVIOUS
    <2>2. ASSUME L # 0, ParseFrame(d) # BadFrame PROVE FALSE
      <3>1. Mislaid(f, d, bits, L)
        BY <1>2, <1>4, <1>8, <2>2, LengthHit
      <3> QED  BY <1>2, <3>1, NoneKept, FourKept, FiveKept DEF Sampled
    <2>3. ASSUME L = 0 PROVE FALSE
      BY <1>6, <1>8, <2>1, <2>3
    <2> QED  BY <2>2, <2>3 DEF f, d
  <1> QED  BY <1>7, <1>8

LEMMA ExposureSampled ==
    LET e == <<1>> \o Word(1250) \o Word(1250 \div 65536)
    IN e \in Seq(Octets) /\ Sampled(e)
  <1> DEFINE a == <<1>> \o Word(1250)
             e == a \o Word(1250 \div 65536)
  <1>1. Word(1250) = <<226, 4>> /\ Word(1250 \div 65536) = <<0, 0>>
    <2>1. 1250 % 256 = 226 /\ (1250 \div 256) % 256 = 4 /\ 1250 \div 65536 = 0
      OBVIOUS
    <2>2. 0 % 256 = 0 /\ (0 \div 256) % 256 = 0
      OBVIOUS
    <2> QED  BY <2>1, <2>2 DEF Word
  <1>2. Sized(<<1>>, 1) /\ Sized(<<226, 4>>, 2) /\ Sized(<<0, 0>>, 2)
    BY DEF Sized
  <1>3. 1 \in Nat /\ 3 \in Nat /\ 1 + 2 = 3 /\ 3 + 2 = 5 /\ 1 + 1 = 2 /\ 3 + 1 = 4
    OBVIOUS
  <1>4. Sized(a, 3) /\ a[1] = 1 /\ a[2] = 226 /\ a[3] = 4
    <2>1. Sized(a, 1 + 2) /\ Longer(a, <<1>>, <<226, 4>>, 1)
      BY <1>1, <1>2, <1>3, PairOn
    <2> HIDE DEF a
    <2> QED  BY <1>3, <2>1 DEF Longer
  <1> HIDE DEF a
  <1>5. Sized(e, 5) /\ e[1] = 1 /\ e[2] = 226 /\ e[3] = 4 /\ e[4] = 0 /\ e[5] = 0
    <2>1. Sized(e, 3 + 2) /\ Longer(e, a, <<0, 0>>, 3)
      BY <1>1, <1>2, <1>3, <1>4, PairOn
    <2> HIDE DEF e
    <2>2. e[1] = a[1] /\ e[2] = a[2] /\ e[3] = a[3] /\ e[4] = 0 /\ e[5] = 0
      BY <1>3, <2>1 DEF Longer
    <2> QED  BY <1>3, <1>4, <2>1, <2>2
  <1> HIDE DEF e
  <1>6. e \in Seq(Octets)
    <2>1. e \in Seq(Int) /\ Len(e) = 5
      BY <1>5 DEF Sized
    <2>2. ASSUME NEW i \in 1..5 PROVE e[i] \in Octets
      <3>1. i = 1 \/ i = 2 \/ i = 3 \/ i = 4 \/ i = 5
        OBVIOUS
      <3> QED  BY <1>5, <3>1 DEF Octets
    <2>3. e = [i \in 1..5 |-> e[i]]
      BY <2>1
    <2>4. e \in [1..5 -> Octets]
      BY <2>2, <2>3
    <2>5. PICK n \in Nat : n = 5
      OBVIOUS
    <2>6. e \in [1..n -> Octets]
      BY <2>4, <2>5
    <2> QED  BY <2>6
  <1>7. FiveFed(e)
    BY <1>5, SmallBits, ZeroBits DEF FiveFed, Sized
  <1>8. Sampled(e)
    BY <1>7 DEF Sampled
  <1> QED  BY <1>6, <1>8 DEF e, a

LEMMA AllSampled ==
    ASSUME NEW payload \in Samples PROVE payload \in Seq(Octets) /\ Sampled(payload)
  <1>1. CASE payload = <<>>
    BY <1>1, ZeroBits DEF Sampled, NoneFed
  <1>2. CASE payload = <<1, 0, 0, 0>>
    <2>1. 0 \in Octets /\ 1 \in Octets
      BY DEF Octets
    <2> QED  BY <1>2, <2>1, SmallBits, ZeroBits DEF Sampled, FourFed
  <1> DEFINE v == <<1>> \o Word(1250) \o Word(1250 \div 65536)
  <1>4. v \in Seq(Octets) /\ Sampled(v)
    BY ExposureSampled
  <1>5. payload = <<>> \/ payload = <<1, 0, 0, 0>> \/ payload = v
    BY DEF Samples, EncodeExposure
  <1> HIDE DEF v
  <1> QED  BY <1>1, <1>2, <1>4, <1>5

(* The run's sample: every single and double damage of its frames is       *)
(* noticed, the one damage apart that makes the length zero, which         *)
(* Unnoticed leaves out and its comment explains.                          *)
LEMMA NothingUnnoticed == Unnoticed = {}
  <1> SUFFICES ASSUME NEW s \in Unnoticed PROVE FALSE
    OBVIOUS
  <1>1. s \in [payload : Samples, bits : Damages]
    BY DEF Unnoticed
  <1>2. LET sent == BuildFrame(10626, 2, 7, s.payload, 37)
            read == Damaged(sent, s.bits)
        IN /\ WordAt(read, 12) # 0 \/ s.payload = <<>>
           /\ ParseFrame(read) \notin {BadFrame, ParseFrame(sent)}
    BY DEF Unnoticed
  <1>3. s.payload \in Samples /\ s.bits \in Damages
    BY <1>1
  <1>4. s.payload \in Seq(Octets) /\ Sampled(s.payload)
    BY <1>3, AllSampled
  <1> QED  BY <1>2, <1>3, <1>4, KeptFrame

=============================================================================
