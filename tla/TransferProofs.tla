--------------------------- MODULE TransferProofs ---------------------------
(***************************************************************************)
(* The round trip, for objects and parts of any sizes, any alignment, any  *)
(* chunks, and any number of attempts.                                     *)
(***************************************************************************)
EXTENDS Transfer, SequenceTheorems, WellFoundedInduction, TLAPS

-----------------------------------------------------------------------------
(* Integers and sequences.                                                 *)

LEMMA QuotientAndRest ==
    ASSUME NEW n \in Nat \ {0}, NEW q \in Nat, NEW r \in Nat, r < n
    PROVE  (n * q + r) \div n = q /\ (n * q + r) % n = r
OBVIOUS

LEMMA Division ==
    ASSUME NEW n \in Nat \ {0}, NEW x \in Nat
    PROVE  /\ x = n * (x \div n) + (x % n)
           /\ x \div n \in Nat /\ x % n \in 0 .. n - 1
OBVIOUS

\* A number times a multiple of the block is one.
LEMMA MultiplesOfBlocks ==
    ASSUME NEW a \in Nat, NEW b \in Nat, b % Block = 0
    PROVE  (a * b) % Block = 0
<1>1. Block \in Nat \ {0} /\ b = Block * (b \div Block) /\ b \div Block \in Nat
  BY CipherAssumption
<1> DEFINE q == a * (b \div Block)
<1>2. q \in Nat /\ a * b = Block * q
  BY <1>1
<1> HIDE DEF q
<1>3. (Block * q + 0) % Block = 0
  BY <1>1, <1>2, QuotientAndRest
<1> QED
  BY <1>1, <1>2, <1>3

\* Two sequences of the same length that agree everywhere.
LEMMA SameSequence ==
    ASSUME NEW S, NEW s \in Seq(S), NEW T, NEW t \in Seq(T), Len(s) = Len(t),
           \A i \in 1 .. Len(s) : s[i] = t[i]
    PROVE  s = t
<1>1. /\ s \in [1 .. Len(s) -> S] /\ t \in [1 .. Len(t) -> T]
  BY LenProperties
<1> QED
  BY <1>1

\* What follows the first m of a sequence, up to the n-th.
Piece(s, m, n) == SubSeq(s, m + 1, n)

LEMMA PieceProperties ==
    ASSUME NEW S, NEW s \in Seq(S), NEW m \in Nat, NEW n \in Nat, m <= n, n <= Len(s)
    PROVE  /\ Piece(s, m, n) \in Seq(S)
           /\ Len(Piece(s, m, n)) = n - m
           /\ \A i \in 1 .. n - m : Piece(s, m, n)[i] = s[m + i]
<1>1. Len(s) \in Nat /\ \A i \in m + 1 .. n : s[i] \in S
  BY LenProperties, ElementOfSeq
<1>2. /\ SubSeq(s, m + 1, n) \in Seq(S)
      /\ Len(SubSeq(s, m + 1, n)) = IF m + 1 <= n THEN n - (m + 1) + 1 ELSE 0
      /\ \A i \in 1 .. n - (m + 1) + 1 : SubSeq(s, m + 1, n)[i] = s[(m + 1) + i - 1]
  BY <1>1, SubSeqProperties, m + 1 \in Int, n \in Int
<1>3. /\ (IF m + 1 <= n THEN n - (m + 1) + 1 ELSE 0) = n - m
      /\ n - (m + 1) + 1 = n - m
      /\ \A i \in 1 .. n - m : (m + 1) + i - 1 = m + i
  OBVIOUS
<1> QED
  BY <1>2, <1>3 DEF Piece

PieceFacts(S, s, m, n) ==
    /\ Piece(s, m, n) \in Seq(S)
    /\ Len(Piece(s, m, n)) = n - m
    /\ \A i \in 1 .. n - m : Piece(s, m, n)[i] = s[m + i]
LEMMA PieceIs ==
    ASSUME NEW S, NEW s \in Seq(S), NEW m \in Nat, NEW n \in Nat, m <= n, n <= Len(s)
    PROVE  PieceFacts(S, s, m, n)
BY PieceProperties DEF PieceFacts

\* Two adjacent pieces make one.
LEMMA PiecesJoin ==
    ASSUME NEW S, NEW s \in Seq(S), NEW l \in Nat, NEW m \in Nat, NEW n \in Nat,
           l <= m, m <= n, n <= Len(s)
    PROVE  Piece(s, l, m) \o Piece(s, m, n) = Piece(s, l, n)
<1>1. Len(s) \in Nat
  BY LenProperties
<1>2. l + 1 \in 1 .. Len(s) + 1 /\ m \in (l + 1) - 1 .. Len(s) /\ n \in m .. Len(s)
  BY <1>1
<1> QED
  BY <1>2, ConcatAdjacentSubSeq DEF Piece

-----------------------------------------------------------------------------
(* The cipher: it changes no length, and the keystream of a position does  *)
(* not depend on where a pass over the text begins.                        *)

\* Bytes as the model has them: a value and the keystream bytes in it.
Bytes == [value : Nat, keys : SUBSET Int]

LEMMA CombinedType == ASSUME NEW b \in Bytes, NEW k \in Int PROVE Combined(b, k) \in Bytes
BY DEF Bytes, Combined

\* The keystream byte that a cipher, created with iv, uses after n bytes.
KeyAt(iv, n) == iv * Block + n

LEMMA KeyAtType == ASSUME NEW iv \in Int, NEW n \in Int PROVE KeyAt(iv, n) \in Int
<1>1. iv * Block \in Int
  BY CipherAssumption
<1> QED
  BY <1>1 DEF KeyAt

LEMMA ProcessType ==
    ASSUME NEW iv \in Int, NEW n \in Int, NEW bytes \in Seq(Bytes)
    PROVE  /\ Process(iv, n, bytes) \in Seq(Bytes)
           /\ Len(Process(iv, n, bytes)) = Len(bytes)
           /\ \A i \in 1 .. Len(bytes) :
                 Process(iv, n, bytes)[i] = Combined(bytes[i], KeyAt(iv, n) + i - 1)
<1>1. Len(bytes) \in Nat /\ DOMAIN bytes = 1 .. Len(bytes) /\ KeyAt(iv, n) \in Int
  BY LenProperties, KeyAtType
<1>2. \A i \in 1 .. Len(bytes) : Combined(bytes[i], KeyAt(iv, n) + i - 1) \in Bytes
  <2> TAKE i \in 1 .. Len(bytes)
  <2>1. bytes[i] \in Bytes /\ KeyAt(iv, n) + i - 1 \in Int
    BY <1>1, ElementOfSeq
  <2> QED
    BY <2>1, CombinedType
<1>3. Process(iv, n, bytes) = [i \in 1 .. Len(bytes) |-> Combined(bytes[i], KeyAt(iv, n) + i - 1)]
  BY <1>1 DEF Process, KeyAt
<1> DEFINE made == Process(iv, n, bytes)
<1>4. made \in [1 .. Len(bytes) -> Bytes]
  BY <1>2, <1>3
<1>5. made \in Seq(Bytes)
  BY <1>1, <1>4, IsASeq
<1>6. Len(made) = Len(bytes)
  BY <1>1, <1>4, <1>5, LenProperties
<1> QED
  BY <1>3, <1>5, <1>6

\* A pass over a piece of the text, by a cipher that has come to its first
\* byte, is that piece of a pass over the text.
LEMMA ProcessOfPiece ==
    ASSUME NEW iv \in Int, NEW jv \in Int, NEW k \in Int, NEW l \in Int, NEW bytes \in Seq(Bytes),
           NEW m \in Nat, NEW n \in Nat, m <= n, n <= Len(bytes),
           KeyAt(jv, l) = KeyAt(iv, k) + m
    PROVE  Process(jv, l, Piece(bytes, m, n)) = Piece(Process(iv, k, bytes), m, n)
<1> DEFINE piece == Piece(bytes, m, n)
           whole == Process(iv, k, bytes)
<1>1. /\ piece \in Seq(Bytes) /\ Len(piece) = n - m
      /\ \A i \in 1 .. n - m : piece[i] = bytes[m + i]
  BY PieceProperties
<1>2. /\ whole \in Seq(Bytes) /\ Len(whole) = Len(bytes)
      /\ \A i \in 1 .. Len(bytes) : whole[i] = Combined(bytes[i], KeyAt(iv, k) + i - 1)
  BY ProcessType
<1>3. /\ Piece(whole, m, n) \in Seq(Bytes) /\ Len(Piece(whole, m, n)) = n - m
      /\ \A i \in 1 .. n - m : Piece(whole, m, n)[i] = whole[m + i]
  <2> HIDE DEF whole
  <2> QED
    BY <1>2, PieceProperties
<1> HIDE DEF piece
<1>4. /\ Process(jv, l, piece) \in Seq(Bytes) /\ Len(Process(jv, l, piece)) = Len(piece)
      /\ \A i \in 1 .. Len(piece) : Process(jv, l, piece)[i] = Combined(piece[i], KeyAt(jv, l) + i - 1)
  BY <1>1, ProcessType
<1>5. Len(bytes) \in Nat /\ KeyAt(iv, k) \in Int /\ KeyAt(jv, l) \in Int
  BY LenProperties, KeyAtType
<1>6. \A i \in 1 .. n - m : Process(jv, l, piece)[i] = Piece(whole, m, n)[i]
  <2> TAKE i \in 1 .. n - m
  <2>1. m + i \in 1 .. Len(bytes) /\ KeyAt(jv, l) + i - 1 = KeyAt(iv, k) + (m + i) - 1
    BY <1>5
  <2> QED
    BY <2>1, <1>1, <1>2, <1>3, <1>4
<1> QED
  BY <1>1, <1>3, <1>4, <1>6, SameSequence DEF piece

\* A cipher that is moved to a block's first byte goes on as if it had come
\* there by itself, as the counter does not wrap within the object.
LEMMA SeekAligned ==
    ASSUME NEW offset \in Nat, offset <= Size, offset % Block = 0
    PROVE  SeekIV(IV, offset) \in Nat /\ KeyAt(SeekIV(IV, offset), 0) = KeyAt(IV, offset)
<1>1. /\ Block \in Nat \ {0} /\ Wrap \in Nat \ {0} /\ IV \in Nat /\ Size \in Nat
      /\ (IV % Wrap) + (Size \div Block) < Wrap
  BY CipherAssumption, TransferAssumption
<1> DEFINE q == offset \div Block
           s == Size \div Block
           d == IV \div Wrap
           m == IV % Wrap
<1>2. offset = Block * q /\ q \in Nat
  BY <1>1
<1>3. IV = Wrap * d + m /\ d \in Nat /\ m \in Nat
  BY <1>1
<1>4. s \in Nat /\ Size = Block * s + (Size % Block) /\ Size % Block \in 0 .. Block - 1
  BY <1>1
<1>5. m + s < Wrap
  BY <1>1
<1> HIDE DEF q, s, d, m
<1>6. q <= s
  <2> SUFFICES ASSUME q >= s + 1 PROVE FALSE
    BY <1>2, <1>4
  <2>1. Block * q >= Block * (s + 1)
    BY <1>1, <1>2, <1>4
  <2>2. Block * (s + 1) = Block * s + Block
    BY <1>1, <1>4
  <2> QED
    BY <1>1, <1>2, <1>4, <2>1, <2>2
<1>7. (m + q) % Wrap = m + q
  <2>1. m + q \in Nat /\ m + q < Wrap
    BY ONLY <1>1, <1>2, <1>3, <1>4, <1>5, <1>6
  <2>2. (Wrap * 0 + (m + q)) % Wrap = m + q
    BY <1>1, <2>1, QuotientAndRest
  <2> QED
    BY ONLY <1>1, <2>1, <2>2
<1>8. SeekIV(IV, offset) = d * Wrap + (m + q)
  <2>1. SeekIV(IV, offset) = d * Wrap + ((m + q) % Wrap)
    BY DEF SeekIV, d, m, q
  <2> QED
    BY ONLY <1>7, <2>1
<1>9. SeekIV(IV, offset) = IV + q
  BY <1>1, <1>2, <1>3, <1>8
<1>10. (IV + q) * Block = IV * Block + q * Block /\ q * Block = offset /\ IV * Block \in Int
  BY <1>1, <1>2
<1> QED
  BY <1>1, <1>2, <1>9, <1>10 DEF KeyAt

\* A cipher goes on as far as it has been moved.
LEMMA KeyAtMoves ==
    ASSUME NEW iv \in Int, NEW n \in Int
    PROVE  KeyAt(iv, n) = KeyAt(iv, 0) + n
<1>1. iv * Block \in Int
  BY CipherAssumption
<1> QED
  BY <1>1 DEF KeyAt

-----------------------------------------------------------------------------
(* Recursion over sequences.                                               *)

\* Induction, with the set of the numbers the claim holds of.
LEMMA NatSetInduction ==
    ASSUME NEW S, 0 \in S, \A n \in Nat : n \in S => n + 1 \in S
    PROVE  Nat \subseteq S
<1> DEFINE Less == OpToRel(<, Nat)
<1>1. IsWellFoundedOn(Less, Nat)
  BY NatLessThanWellFounded
<1>2. \A m, n \in Nat : m < n => <<m, n>> \in Less
  BY DEF OpToRel
<1> HIDE DEF Less
<1> SUFFICES ASSUME Nat \ S # {} PROVE FALSE
  OBVIOUS
<1>3. PICK n \in Nat \ S : \A m \in Nat \ S : ~ (<<m, n>> \in Less)
  BY <1>1, WFMin
<1>4. n # 0 /\ n - 1 \in Nat /\ n - 1 < n /\ (n - 1) + 1 = n
  BY <1>3
<1>5. n - 1 \in S
  BY <1>2, <1>3, <1>4
<1> QED
  BY <1>3, <1>4, <1>5

Joined(s, t) == s \o t

\* The sequences of sequences that are joined are sequences of the same things.
LEMMA FlattenType ==
    ASSUME NEW S, NEW s \in Seq(Seq(S)), Len(s) # 0
    PROVE  FlattenSeq(s) \in Seq(S)
<1> DEFINE n == Len(s)
           joined == CHOOSE f : f = [i \in 1 .. Len(s) |-> IF i = 1 THEN s[i] ELSE Joined(f[i - 1], s[i])]
<1>1. FlattenSeq(s) = joined[Len(s)]
  BY DEF FlattenSeq, Joined
<1>2. n \in Nat \ {0} /\ \A i \in 1 .. n : s[i] \in Seq(S)
  BY LenProperties, ElementOfSeq
<1> DEFINE Good == {k \in Nat : k <= n =>
                      \E g : g = [i \in 1 .. k |-> IF i = 1 THEN s[i] ELSE Joined(g[i - 1], s[i])]}
<1>3. 0 \in Good
  <2> DEFINE g == [i \in 1 .. 0 |-> s[i]]
  <2>1. g = [i \in 1 .. 0 |-> IF i = 1 THEN s[i] ELSE Joined(g[i - 1], s[i])]
    OBVIOUS
  <2> QED
    BY <2>1
<1>4. ASSUME NEW k \in Nat, k \in Good
      PROVE  k + 1 \in Good
  <2> SUFFICES ASSUME k + 1 <= n
               PROVE  \E h : h = [i \in 1 .. k + 1 |-> IF i = 1 THEN s[i] ELSE Joined(h[i - 1], s[i])]
    <3>1. k + 1 \in Nat
      OBVIOUS
    <3> QED
      BY <3>1, Zenon
  <2>1. PICK g : g = [i \in 1 .. k |-> IF i = 1 THEN s[i] ELSE Joined(g[i - 1], s[i])]
    BY <1>2, <1>4
  <2> DEFINE h == [i \in 1 .. k + 1 |-> IF i <= k THEN g[i] ELSE IF i = 1 THEN s[i] ELSE Joined(g[k], s[i])]
  <2>2. h = [i \in 1 .. k + 1 |-> IF i = 1 THEN s[i] ELSE Joined(h[i - 1], s[i])]
    <3> SUFFICES ASSUME NEW i \in 1 .. k + 1
                 PROVE  h[i] = IF i = 1 THEN s[i] ELSE Joined(h[i - 1], s[i])
      OBVIOUS
    <3>1. CASE i <= k
      BY <2>1, <3>1
    <3>2. CASE i = k + 1
      BY <3>2
    <3> QED
      BY <3>1, <3>2
  <2> QED
    BY <2>2
<1>5. n \in Good
  <2> HIDE DEF Good
  <2>1. Nat \subseteq Good
    BY <1>3, <1>4, NatSetInduction
  <2> QED
    BY <1>2, <2>1
<1>6. joined = [i \in 1 .. n |-> IF i = 1 THEN s[i] ELSE Joined(joined[i - 1], s[i])]
  <2>1. n <= n
    BY <1>2
  <2>2. \E g : g = [i \in 1 .. n |-> IF i = 1 THEN s[i] ELSE Joined(g[i - 1], s[i])]
    BY <1>5, <2>1, Zenon
  <2> QED
    BY <2>2, Zenon
<1> HIDE DEF joined, Good
<1> DEFINE Typed == {k \in Nat : k + 1 <= n => joined[k + 1] \in Seq(S)}
<1>7. 0 \in Typed
  BY <1>2, <1>6
<1>8. ASSUME NEW k \in Nat, k \in Typed
      PROVE  k + 1 \in Typed
  <2> SUFFICES ASSUME k + 2 <= n PROVE joined[k + 2] \in Seq(S)
    OBVIOUS
  <2>1. joined[k + 1] \in Seq(S) /\ s[k + 2] \in Seq(S)
    BY <1>2, <1>8
  <2>2. joined[k + 2] = Joined(joined[k + 1], s[k + 2])
    <3>1. k + 2 \in 1 .. n /\ k + 2 # 1 /\ (k + 2) - 1 = k + 1
      BY <1>2
    <3>2. joined[k + 2] = IF k + 2 = 1 THEN s[k + 2] ELSE Joined(joined[(k + 2) - 1], s[k + 2])
      BY <1>6, <3>1, Zenon
    <3> QED
      BY <3>1, <3>2, Zenon
  <2> QED
    BY <2>1, <2>2, ConcatProperties DEF Joined
<1>9. n - 1 \in Typed
  <2> HIDE DEF Typed
  <2>1. Nat \subseteq Typed
    BY <1>7, <1>8, NatSetInduction
  <2> QED
    BY <1>2, <2>1
<1> QED
  BY <1>1, <1>2, <1>9

\* The checksum of a sequence of bytes, byte by byte.
Summed(crc, bytes) ==
    \E upTo \in [0 .. Len(bytes) -> Nat] :
        /\ upTo[0] = crc
        /\ \A i \in 1 .. Len(bytes) : upTo[i] = 7 * upTo[i - 1] + bytes[i].value
        /\ Checksum(crc, bytes) = upTo[Len(bytes)]

LEMMA ChecksumByByte ==
    ASSUME NEW crc \in Nat, NEW bytes \in Seq(Bytes)
    PROVE  Summed(crc, bytes)
<1> DEFINE n == Len(bytes)
           upTo == CHOOSE f : f = [i \in 0 .. Len(bytes) |-> IF i = 0 THEN crc ELSE 7 * f[i - 1] + bytes[i].value]
<1>1. Checksum(crc, bytes) = upTo[Len(bytes)]
  BY DEF Checksum
<1>2. n \in Nat /\ \A i \in 1 .. n : bytes[i].value \in Nat
  <2>1. n \in Nat
    BY LenProperties
  <2>2. ASSUME NEW i \in 1 .. n PROVE bytes[i].value \in Nat
    <3>1. bytes[i] \in Bytes
      BY ElementOfSeq
    <3> QED
      BY <3>1 DEF Bytes
  <2> QED
    BY <2>1, <2>2
<1> DEFINE Sums(g, k) == g = [i \in 0 .. k |-> IF i = 0 THEN crc ELSE 7 * g[i - 1] + bytes[i].value]
           Good == {k \in Nat : k <= n => \E g : Sums(g, k)}
<1>3. 0 \in Good
  <2> DEFINE g == [i \in 0 .. 0 |-> crc]
  <2>1. Sums(g, 0)
    OBVIOUS
  <2> HIDE DEF Sums
  <2> QED
    BY <2>1
<1>4. ASSUME NEW k \in Nat, k \in Good
      PROVE  k + 1 \in Good
  <2> HIDE DEF Sums
  <2> SUFFICES ASSUME k + 1 <= n PROVE \E h : Sums(h, k + 1)
    OBVIOUS
  <2>a. PICK g : Sums(g, k)
    BY <1>2, <1>4
  <2>1. g = [i \in 0 .. k |-> IF i = 0 THEN crc ELSE 7 * g[i - 1] + bytes[i].value]
    BY <2>a DEF Sums
  <2> DEFINE h == [i \in 0 .. k + 1 |-> IF i <= k THEN g[i] ELSE 7 * g[k] + bytes[i].value]
  <2>2. h = [i \in 0 .. k + 1 |-> IF i = 0 THEN crc ELSE 7 * h[i - 1] + bytes[i].value]
    <3> SUFFICES ASSUME NEW i \in 0 .. k + 1
                 PROVE  h[i] = IF i = 0 THEN crc ELSE 7 * h[i - 1] + bytes[i].value
      OBVIOUS
    <3>1. CASE i <= k
      BY <2>1, <3>1
    <3>2. CASE i = k + 1
      BY <3>2
    <3> QED
      BY <3>1, <3>2
  <2> HIDE DEF h
  <2>3. Sums(h, k + 1)
    BY <2>2 DEF Sums
  <2> QED
    BY <2>3
<1>5. n \in Good
  <2> HIDE DEF Good
  <2>1. Nat \subseteq Good
    BY <1>3, <1>4, NatSetInduction
  <2> QED
    BY <1>2, <2>1
<1>6. upTo = [i \in 0 .. n |-> IF i = 0 THEN crc ELSE 7 * upTo[i - 1] + bytes[i].value]
  <2>1. n <= n => \E g : Sums(g, n)
    BY <1>5
  <2>2. \E g : Sums(g, n)
    BY <1>2, <2>1
  <2> QED
    BY ONLY <2>2, Zenon DEF Sums, upTo
<1> HIDE DEF upTo, Good
<1> DEFINE Typed == {k \in Nat : k <= n => upTo[k] \in Nat}
<1>7. 0 \in Typed
  BY <1>2, <1>6
<1>8. ASSUME NEW k \in Nat, k \in Typed
      PROVE  k + 1 \in Typed
  <2> SUFFICES ASSUME k + 1 <= n PROVE upTo[k + 1] \in Nat
    OBVIOUS
  <2>1. upTo[k] \in Nat /\ bytes[k + 1].value \in Nat
    BY <1>2, <1>8
  <2>2. upTo[k + 1] = 7 * upTo[k] + bytes[k + 1].value
    BY <1>2, <1>6
  <2> QED
    BY <2>1, <2>2
<1>9. \A k \in 0 .. n : upTo[k] \in Nat
  <2> HIDE DEF Typed
  <2>1. Nat \subseteq Typed
    BY <1>7, <1>8, NatSetInduction
  <2> QED
    BY <1>2, <2>1 DEF Typed
<1>10. upTo \in [0 .. n -> Nat] /\ upTo[0] = crc
  BY <1>2, <1>6, <1>9
<1>11. \A i \in 1 .. n : upTo[i] = 7 * upTo[i - 1] + bytes[i].value
  BY <1>2, <1>6
<1> QED
  BY <1>1, <1>10, <1>11 DEF Summed

LEMMA EmptyPiece ==
    ASSUME NEW s, NEW m \in Nat
    PROVE  Piece(s, m, m) = <<>>
BY SubSeqEmpty DEF Piece

LEMMA FullPiece ==
    ASSUME NEW S, NEW s \in Seq(S)
    PROVE  Piece(s, 0, Len(s)) = s
BY SubSeqFull DEF Piece

LEMMA PieceOfPiece ==
    ASSUME NEW S, NEW s \in Seq(S), NEW a \in Nat, NEW b \in Nat, a <= b, b <= Len(s),
           NEW c \in Nat, NEW d \in Nat, c <= d, d <= b - a
    PROVE  Piece(Piece(s, a, b), c, d) = Piece(s, a + c, a + d)
<1> DEFINE t == Piece(s, a, b)
           l == a + c
           r == a + d
<1>1. t \in Seq(S) /\ Len(t) = b - a /\ \A i \in 1 .. b - a : t[i] = s[a + i]
  BY PieceProperties
<1>2. Len(s) \in Nat /\ l \in Nat /\ r \in Nat /\ l <= r /\ r <= Len(s) /\ r - l = d - c
  BY LenProperties
<1> HIDE DEF t, l, r
<1>3. /\ Piece(t, c, d) \in Seq(S) /\ Len(Piece(t, c, d)) = d - c
      /\ \A i \in 1 .. d - c : Piece(t, c, d)[i] = t[c + i]
  <2>1. t \in Seq(S) /\ c \in Nat /\ d \in Nat /\ c <= d /\ d <= Len(t)
    BY <1>1
  <2> QED
    <3>1. PieceFacts(S, t, c, d)
      BY ONLY <2>1, PieceIs
    <3> QED
      BY <3>1 DEF PieceFacts
<1>4. /\ Piece(s, l, r) \in Seq(S) /\ Len(Piece(s, l, r)) = r - l
      /\ \A i \in 1 .. r - l : Piece(s, l, r)[i] = s[l + i]
  <2>1. s \in Seq(S) /\ l \in Nat /\ r \in Nat /\ l <= r /\ r <= Len(s)
    BY <1>2
  <2> QED
    <3>1. PieceFacts(S, s, l, r)
      BY ONLY <2>1, PieceIs
    <3> QED
      BY <3>1 DEF PieceFacts
<1>5. ASSUME NEW i \in 1 .. d - c
      PROVE  Piece(t, c, d)[i] = Piece(s, l, r)[i]
  <2>1. c + i \in 1 .. b - a /\ a + (c + i) = l + i /\ i \in 1 .. r - l
    BY <1>2 DEF l, r
  <2>2. Piece(t, c, d)[i] = t[c + i] /\ t[c + i] = s[a + (c + i)] /\ Piece(s, l, r)[i] = s[l + i]
    BY <1>1, <1>3, <1>4, <2>1
  <2> QED
    BY <2>1, <2>2
<1>6. Len(Piece(t, c, d)) = Len(Piece(s, l, r)) /\ \A i \in 1 .. Len(Piece(t, c, d)) : Piece(t, c, d)[i] = Piece(s, l, r)[i]
  BY <1>2, <1>3, <1>4, <1>5
<1>7. Piece(t, c, d) = Piece(s, l, r)
  BY <1>3, <1>4, <1>6, SameSequence
<1> QED
  BY <1>7 DEF t, l, r

LEMMA ChecksumType ==
    ASSUME NEW crc \in Nat, NEW bytes \in Seq(Bytes)
    PROVE  Checksum(crc, bytes) \in Nat
<1>1. Len(bytes) \in Nat
  BY LenProperties
<1> QED
  <2>1. Summed(crc, bytes)
    BY ChecksumByByte
  <2> QED
    BY <1>1, <2>1 DEF Summed

LEMMA ChecksumOfNone ==
    ASSUME NEW crc \in Nat
    PROVE  Checksum(crc, <<>>) = crc
<1> DEFINE none == <<>>
<1>1. none \in Seq(Bytes) /\ Len(none) = 0
  BY EmptySeq
<1> HIDE DEF none
<1>2. PICK f \in [0 .. Len(none) -> Nat] : f[0] = crc /\ Checksum(crc, none) = f[Len(none)]
  <2>1. Summed(crc, none)
    BY <1>1, ChecksumByByte
  <2> QED
    BY <2>1 DEF Summed
<1>3. Checksum(crc, none) = crc
  BY <1>1, <1>2
<1> QED
  BY <1>3 DEF none

\* A checksum that goes on with the next bytes is that of both together.
LEMMA ChecksumGoesOn ==
    ASSUME NEW crc \in Nat, NEW s \in Seq(Bytes), NEW t \in Seq(Bytes)
    PROVE  Checksum(Checksum(crc, s), t) = Checksum(crc, s \o t)
<1> DEFINE m == Len(s)
           n == Len(t)
           both == s \o t
<1>1. m \in Nat /\ n \in Nat
  BY LenProperties
<1>2. /\ both \in Seq(Bytes) /\ Len(both) = m + n
      /\ \A i \in 1 .. m + n : both[i] = IF i <= m THEN s[i] ELSE t[i - m]
  BY ConcatProperties
<1> HIDE DEF m, n, both
<1>3. PICK f \in [0 .. m -> Nat] :
          /\ f[0] = crc /\ \A i \in 1 .. m : f[i] = 7 * f[i - 1] + s[i].value
          /\ Checksum(crc, s) = f[m]
  <2>1. Summed(crc, s)
    BY ChecksumByByte
  <2> QED
    BY <2>1 DEF Summed, m
<1>4. f[m] \in Nat
  BY <1>1, <1>3
<1>5. PICK g \in [0 .. n -> Nat] :
          /\ g[0] = f[m] /\ \A i \in 1 .. n : g[i] = 7 * g[i - 1] + t[i].value
          /\ Checksum(Checksum(crc, s), t) = g[n]
  <2>1. Summed(Checksum(crc, s), t)
    BY <1>3, <1>4, ChecksumByByte
  <2> QED
    BY <1>3, <2>1 DEF Summed, n
<1>6. PICK h \in [0 .. m + n -> Nat] :
          /\ h[0] = crc /\ \A i \in 1 .. m + n : h[i] = 7 * h[i - 1] + both[i].value
          /\ Checksum(crc, both) = h[m + n]
  <2>1. PICK h \in [0 .. Len(both) -> Nat] :
          /\ h[0] = crc /\ \A i \in 1 .. Len(both) : h[i] = 7 * h[i - 1] + both[i].value
          /\ Checksum(crc, both) = h[Len(both)]
    <3>1. Summed(crc, both)
      BY <1>2, ChecksumByByte
    <3> QED
      BY <3>1 DEF Summed
  <2> QED
    BY <1>2, <2>1
<1> DEFINE Same == {k \in Nat : k <= m => h[k] = f[k]}
           Next2 == {k \in Nat : k <= n => h[m + k] = g[k]}
<1>7. m \in Same
  <2>1. 0 \in Same
    BY <1>1, <1>3, <1>6
  <2>2. ASSUME NEW k \in Nat, k \in Same PROVE k + 1 \in Same
    <3> SUFFICES ASSUME k + 1 <= m PROVE h[k + 1] = f[k + 1]
      OBVIOUS
    <3>1. h[k] = f[k] /\ k + 1 \in 1 .. m /\ k + 1 \in 1 .. m + n /\ (k + 1) - 1 = k
      BY <1>1, <2>2
    <3>3. both[k + 1] = s[k + 1]
      BY <1>1, <1>2, <3>1
    <3>2. h[k + 1] = 7 * h[k] + both[k + 1].value /\ f[k + 1] = 7 * f[k] + s[k + 1].value
      BY <1>3, <1>6, <3>1
    <3> QED
      BY <3>1, <3>2, <3>3
  <2> HIDE DEF Same
  <2> QED
    BY <1>1, <2>1, <2>2, NatSetInduction
<1>8. n \in Next2
  <2>1. 0 \in Next2
    BY <1>1, <1>5, <1>7
  <2>2. ASSUME NEW k \in Nat, k \in Next2 PROVE k + 1 \in Next2
    <3> SUFFICES ASSUME k + 1 <= n PROVE h[m + (k + 1)] = g[k + 1]
      OBVIOUS
    <3>1. /\ h[m + k] = g[k] /\ k + 1 \in 1 .. n /\ (m + (k + 1)) - m = k + 1 /\ ~ (m + (k + 1) <= m)
          /\ m + (k + 1) \in 1 .. m + n /\ (k + 1) - 1 = k /\ (m + (k + 1)) - 1 = m + k
      BY <1>1, <2>2
    <3>3. both[m + (k + 1)] = t[k + 1]
      BY <1>2, <3>1
    <3>2. h[m + (k + 1)] = 7 * h[m + k] + both[m + (k + 1)].value /\ g[k + 1] = 7 * g[k] + t[k + 1].value
      BY <1>5, <1>6, <3>1
    <3> QED
      BY <3>1, <3>2, <3>3
  <2> HIDE DEF Next2
  <2> QED
    BY <1>1, <2>1, <2>2, NatSetInduction
<1> QED
  BY <1>1, <1>5, <1>6, <1>8 DEF both

\* A checksum tells a byte that was spoilt: the greater first byte has the
\* greater checksum, whatever bytes follow in both.
LEMMA ChecksumTells ==
    ASSUME NEW crc \in Nat, NEW s \in Seq(Bytes), NEW t \in Seq(Bytes), Len(s) = Len(t), Len(s) >= 1,
           s[1].value > t[1].value, \A i \in 2 .. Len(s) : s[i] = t[i]
    PROVE  Checksum(crc, s) > Checksum(crc, t)
<1> DEFINE n == Len(s)
<1>1. n \in Nat /\ n >= 1 /\ n = Len(t)
  BY LenProperties
<1>2. ASSUME NEW i \in 1 .. n PROVE s[i].value \in Nat /\ t[i].value \in Nat
  <2>1. s[i] \in Bytes /\ t[i] \in Bytes
    BY <1>1, ElementOfSeq
  <2> QED
    BY <2>1 DEF Bytes
<1>3. PICK f \in [0 .. n -> Nat] :
          /\ f[0] = crc /\ \A i \in 1 .. n : f[i] = 7 * f[i - 1] + s[i].value
          /\ Checksum(crc, s) = f[n]
  <2>1. Summed(crc, s)
    BY ChecksumByByte
  <2> QED
    BY <2>1 DEF Summed
<1>4. PICK g \in [0 .. n -> Nat] :
          /\ g[0] = crc /\ \A i \in 1 .. n : g[i] = 7 * g[i - 1] + t[i].value
          /\ Checksum(crc, t) = g[n]
  <2>1. Summed(crc, t)
    BY ChecksumByByte
  <2> QED
    BY <1>1, <2>1 DEF Summed
<1>5. \A i \in 2 .. n : s[i] = t[i]
  OBVIOUS
<1> HIDE DEF n
<1> DEFINE Less == {k \in Nat : k + 1 <= n => f[k + 1] > g[k + 1]}
<1>6. n - 1 \in Less
  <2>1. 0 \in Less
    <3>1. f[1] = 7 * f[0] + s[1].value /\ g[1] = 7 * g[0] + t[1].value
      <4>1. 1 \in 1 .. n /\ 1 - 1 = 0
        BY <1>1
      <4> QED
        BY <1>3, <1>4, <4>1
    <3>2. s[1].value \in Nat /\ t[1].value \in Nat
      BY <1>1, <1>2
    <3>3. f[1] > g[1]
      BY <1>3, <1>4, <3>1, <3>2
    <3> QED
      BY <3>3
  <2>2. ASSUME NEW k \in Nat, k \in Less PROVE k + 1 \in Less
    <3> SUFFICES ASSUME (k + 1) + 1 <= n PROVE f[(k + 1) + 1] > g[(k + 1) + 1]
      OBVIOUS
    <3> DEFINE j == (k + 1) + 1
    <3>1. f[k + 1] > g[k + 1] /\ j \in 2 .. n /\ j \in 1 .. n /\ j - 1 = k + 1 /\ k + 1 \in 0 .. n
      BY <1>1, <2>2
    <3> HIDE DEF j
    <3>2. /\ f[j] = 7 * f[k + 1] + s[j].value /\ g[j] = 7 * g[k + 1] + t[j].value /\ s[j] = t[j]
          /\ s[j].value \in Nat /\ f[k + 1] \in Nat /\ g[k + 1] \in Nat
      BY <1>2, <1>3, <1>4, <1>5, <3>1
    <3>3. f[j] > g[j]
      <4> DEFINE x == f[k + 1]
                 y == g[k + 1]
                 v == s[j].value
      <4>1. x \in Nat /\ y \in Nat /\ v \in Nat /\ x > y
        BY ONLY <3>1, <3>2
      <4>2. f[j] = 7 * x + v /\ g[j] = 7 * y + v
        BY ONLY <3>2, Zenon
      <4> HIDE DEF x, y, v
      <4>3. 7 * x + v > 7 * y + v
        BY ONLY <4>1
      <4> QED
        BY ONLY <4>2, <4>3
    <3> QED
      BY <3>3 DEF j
  <2> HIDE DEF Less
  <2>3. Nat \subseteq Less
    BY <2>1, <2>2, NatSetInduction
  <2> QED
    BY <1>1, <2>3
<1> QED
  BY <1>1, <1>3, <1>4, <1>6 DEF n

-----------------------------------------------------------------------------
(* The parts of an upload.                                                 *)

\* A part as an attempt sends it, from its first byte to its last.
Whole(p) == Sent(p, 0, PartText(p))
Length(p) == Len(PartText(p))

LEMMA TextType == Text \in Seq(Bytes) /\ Len(Text) = Size /\ Size \in Nat \ {0}
<1>1. Size \in Nat \ {0}
  BY TransferAssumption
<1>2. Text \in [1 .. Size -> Bytes]
  BY <1>1 DEF Text, Byte, Bytes
<1>3. Text \in Seq(Bytes)
  BY <1>1, <1>2, IsASeq
<1> QED
  BY <1>1, <1>2, <1>3, LenProperties

\* There is a part at least, whatever its size.
LEMMA FirstPart ==
    ASSUME NEW z \in Nat \ {0}
    PROVE  1 \in 1 .. ((Size + z - 1) \div z)
<1> DEFINE q == (Size + z - 1) \div z
<1>1. Size \in Nat \ {0} /\ Size + z - 1 \in Nat
  BY TransferAssumption
<1>2. q \in Nat /\ Size + z - 1 = z * q + ((Size + z - 1) % z) /\ (Size + z - 1) % z \in 0 .. z - 1
  BY <1>1, Division
<1> HIDE DEF q
<1>3. Size <= z * q
  BY ONLY <1>1, <1>2, z \in Nat \ {0}
<1>4. 1 <= q
  <2> SUFFICES ASSUME q = 0 PROVE FALSE
    BY <1>2
  <2> QED
    BY <1>1, <1>3
<1> QED
  BY <1>2, <1>4 DEF q

\* A part begins within the object, and there are no more parts than bytes.
LEMMA PartsAreWithin ==
    ASSUME plan.size \in Nat \ {0}
    PROVE  /\ 1 \in Parts
           /\ \A p \in Parts : p \in 1 .. Size /\ Offset(p) \in Nat /\ Offset(p) < Size
<1> DEFINE z == plan.size
           q == (Size + z - 1) \div z
<1>1. Size \in Nat \ {0} /\ z \in Nat \ {0} /\ Size + z - 1 \in Nat
  BY TransferAssumption
<1>2. q \in Nat /\ Size + z - 1 = z * q + ((Size + z - 1) % z) /\ (Size + z - 1) % z \in 0 .. z - 1
  <2> HIDE DEF z
  <2> QED
    BY <1>1, Division
<1>3. Parts = 1 .. q
  BY DEF Parts
<1> HIDE DEF z, q
<1>4. z * q <= Size + z - 1 /\ Size <= z * q
  BY ONLY <1>1, <1>2
<1>5. 1 <= q
  <2> SUFFICES ASSUME q = 0 PROVE FALSE
    BY <1>2
  <2> QED
    BY <1>1, <1>4
<1>6. ASSUME NEW p \in 1 .. q
      PROVE  (p - 1) * z \in Nat /\ (p - 1) * z < Size /\ p <= Size
  <2>1. p \in Nat /\ p - 1 \in Nat /\ p <= q
    BY <1>2
  <2>2. z * p <= z * q
    BY <1>1, <1>2, <2>1
  <2>3. (p - 1) * z = z * p - z /\ (p - 1) * z \in Nat /\ p - 1 <= (p - 1) * z
    BY <1>1, <2>1
  <2>4. z * p \in Int /\ z * q \in Int
    BY <1>1, <1>2, <2>1
  <2> QED
    BY ONLY <1>1, <1>4, <2>1, <2>2, <2>3, <2>4
<1>7. \A p \in Parts : Offset(p) = (p - 1) * z
  BY DEF Offset, z
<1> QED
  BY <1>1, <1>2, <1>3, <1>5, <1>6, <1>7

LEMMA PartTextType ==
    ASSUME plan.size \in Nat \ {0}, NEW p \in Parts
    PROVE  /\ PartText(p) \in Seq(Bytes)
           /\ Length(p) \in Nat
           /\ Offset(p) + Length(p) <= Size
           /\ PartText(p) = Piece(Text, Offset(p), Offset(p) + Length(p))
<1>1. Offset(p) \in Nat /\ Offset(p) < Size
  BY PartsAreWithin
<1> DEFINE end == IF Offset(p) + plan.size < Size THEN Offset(p) + plan.size ELSE Size
<1>2. end \in Nat /\ Offset(p) <= end /\ end <= Size
  BY <1>1, TextType
<1>3. PartText(p) = Piece(Text, Offset(p), end)
  BY DEF PartText, Piece
<1> HIDE DEF end
<1>4. PartText(p) \in Seq(Bytes) /\ Len(PartText(p)) = end - Offset(p)
  BY <1>1, <1>2, <1>3, TextType, PieceProperties
<1> QED
  BY <1>1, <1>2, <1>3, <1>4 DEF Length

\* The cipher of a part is that of the object, at the part's first byte.
LEMMA PartCipher ==
    ASSUME plan.size \in Nat \ {0}, plan.encrypted, ~ Misaligned, NEW p \in Parts
    PROVE  PartIV(p) \in Nat /\ KeyAt(PartIV(p), 0) = KeyAt(IV, 0) + Offset(p)
<1>1. Offset(p) \in Nat /\ Offset(p) < Size /\ p \in Nat /\ p >= 1 /\ Size \in Nat
  BY PartsAreWithin, TextType
<1>2. Offset(p) % Block = 0
  <2>1. CASE plan.size % Block = 0
    <3>1. p - 1 \in Nat /\ plan.size \in Nat
      BY <1>1
    <3>2. ((p - 1) * plan.size) % Block = 0
      BY <2>1, <3>1, MultiplesOfBlocks
    <3> QED
      BY <3>2 DEF Offset
  <2>2. CASE plan.size >= Size
    <3>1. CASE p = 1
      <4>1. Offset(p) = 0
        BY <3>1 DEF Offset
      <4>2. (Block * 0 + 0) % Block = 0
        BY CipherAssumption, QuotientAndRest
      <4> QED
        BY <4>1, <4>2, CipherAssumption
    <3>2. CASE p >= 2
      <4>1. (p - 1) * plan.size >= plan.size
        BY <1>1, <3>2
      <4> QED
        BY <1>1, <2>2, <4>1 DEF Offset
    <3> QED
      BY <1>1, <3>1, <3>2
  <2> QED
    BY <1>1, <2>1, <2>2 DEF Misaligned
<1> QED
  <2>1. PartIV(p) \in Nat /\ KeyAt(PartIV(p), 0) = KeyAt(IV, Offset(p))
    BY <1>1, <1>2, SeekAligned DEF PartIV
  <2>2. KeyAt(IV, Offset(p)) = KeyAt(IV, 0) + Offset(p)
    BY <1>1, KeyAtMoves, CipherAssumption
  <2> QED
    BY <1>1, <2>1, <2>2

\* A piece of the part that is sent where it belongs is that piece of the whole.
LEMMA SentPiece ==
    ASSUME plan.size \in Nat \ {0}, plan.encrypted \in BOOLEAN, NEW p \in Parts,
           NEW m \in Nat, NEW n \in Nat, m <= n, n <= Length(p)
    PROVE  /\ Sent(p, m, Piece(PartText(p), m, n)) = Piece(Whole(p), m, n)
           /\ Whole(p) \in Seq(Bytes) /\ Len(Whole(p)) = Length(p)
<1>1. PartText(p) \in Seq(Bytes) /\ Length(p) = Len(PartText(p))
  BY PartTextType DEF Length
<1>2. Offset(p) \in Nat
  BY PartsAreWithin
<1>3. PartIV(p) \in Int
  BY <1>2, CipherAssumption DEF PartIV, SeekIV
<1>4. CASE plan.encrypted
  <2>1. KeyAt(PartIV(p), m) = KeyAt(PartIV(p), 0) + m
    BY <1>3, KeyAtMoves
  <2>2. Process(PartIV(p), m, Piece(PartText(p), m, n)) = Piece(Process(PartIV(p), 0, PartText(p)), m, n)
    <3>1. n <= Len(PartText(p))
      BY <1>1
    <3> QED
      BY ONLY <1>1, <1>3, <2>1, <3>1, m <= n, ProcessOfPiece
  <2>3. /\ Process(PartIV(p), 0, PartText(p)) \in Seq(Bytes)
        /\ Len(Process(PartIV(p), 0, PartText(p))) = Length(p)
    BY <1>1, <1>3, ProcessType
  <2> QED
    BY <1>4, <2>2, <2>3 DEF Sent, Whole
<1>5. CASE ~ plan.encrypted
  BY <1>1, <1>5 DEF Sent, Whole
<1> QED
  BY <1>4, <1>5

\* The parts are the pieces of one pass of the cipher over the whole object.
LEMMA WholeIsPiece ==
    ASSUME plan.size \in Nat \ {0}, plan.encrypted \in BOOLEAN, ~ Misaligned, NEW p \in Parts
    PROVE  Whole(p) = Piece(ObjectBytes, Offset(p), Offset(p) + Length(p))
<1>1. /\ Length(p) \in Nat /\ Offset(p) + Length(p) <= Size /\ Offset(p) \in Nat
      /\ PartText(p) = Piece(Text, Offset(p), Offset(p) + Length(p))
  BY PartTextType, PartsAreWithin
<1>2. CASE plan.encrypted
  <2>1. KeyAt(PartIV(p), 0) = KeyAt(IV, 0) + Offset(p) /\ PartIV(p) \in Int /\ IV \in Int
    BY <1>2, PartCipher, CipherAssumption
  <2>2. /\ Offset(p) + Length(p) \in Nat /\ Offset(p) <= Offset(p) + Length(p)
        /\ Offset(p) + Length(p) <= Len(Text) /\ Text \in Seq(Bytes)
    BY <1>1, TextType
  <2>3. Process(PartIV(p), 0, Piece(Text, Offset(p), Offset(p) + Length(p)))
           = Piece(Process(IV, 0, Text), Offset(p), Offset(p) + Length(p))
    BY ONLY <1>1, <2>1, <2>2, ProcessOfPiece
  <2> QED
    BY <1>1, <1>2, <2>3 DEF Whole, Sent, ObjectBytes
<1>3. CASE ~ plan.encrypted
  BY <1>1, <1>3 DEF Whole, Sent, ObjectBytes
<1> QED
  BY <1>2, <1>3

-----------------------------------------------------------------------------
(* The invariant of an upload.                                             *)

UploadTyped ==
    /\ plan \in [encrypted : BOOLEAN, size : Nat \ {0}]
    /\ acked \subseteq Parts
    /\ stored \in [1 .. Size -> Seq(Bytes)]
    /\ phase \in {"idle", "begin", "send", "reply", "done", "refused", "complete"}
    /\ part \in Parts
    /\ body \in [kind : BodyKinds, at : Nat, spanned : BOOLEAN, failing : BOOLEAN]
    /\ span \in [at : Nat, read : Nat, before : Nat]
    /\ tee \in [first : BOOLEAN, crc : Seq(Bytes), written : Nat, last : Nat, reported : Nat]
    /\ wire \in Seq(Bytes)
    /\ tries \in Nat

\* No call is made of parts that the cipher cannot be moved to.
Planned ==
    /\ phase \in {"idle", "refused"} => acked = {}
    /\ phase \notin {"idle", "refused"} => ~ Misaligned

\* The source of an attempt begins where the body begins and is as far as the
\* attempt has read.
Sourced ==
    /\ ~ body.spanned => body.at = Pos
    /\ phase = "begin" /\ body.kind = "pipe" => ~ body.spanned
    /\ phase \in {"begin", "reply"} => ~ body.failing
    /\ phase = "send" /\ body.kind # "memory" => body.spanned
    /\ phase = "send" /\ ~ body.failing => Cursor = Pos + span.read

\* The bytes that arrive are those that were sent, or what the wire made of them.
SameOrSpoilt(got, want) ==
    /\ Len(got) = Len(want)
    /\ \A i \in 1 .. Len(want) : got[i] = want[i] \/ got[i] = Spoilt(want[i])

\* What the observers and the server have of an attempt.
Watched ==
    /\ phase = "begin" /\ tee.first => tee = NewTee
    /\ phase = "begin" => (tries = 0 <=> tee.first) /\ (~ tee.first => tee.written = span.read)
    /\ phase \in {"send", "reply"} =>
          /\ ~ tee.first /\ tries > 0
          /\ span.read <= Length(part)
          /\ tee.written = span.read
          /\ tee.crc = Piece(Whole(part), 0, span.read)
          /\ Len(wire) = span.read /\ SameOrSpoilt(wire, tee.crc)
          /\ ~ spoilt => wire = tee.crc

\* Nothing beyond the body is reported, and nothing that the attempt before has
\* given.
Reports ==
    phase \in {"begin", "send", "reply"} =>
        /\ tee.written <= Length(part) /\ tee.last <= Length(part) /\ tee.reported <= Length(part)
        /\ IF tee.written > tee.last THEN tee.reported = tee.written ELSE tee.last <= tee.reported
        /\ phase # "begin" => tee.last = span.before

\* What the server holds, of this part and of those before.
Held ==
    /\ phase \in {"begin", "send", "reply"} => part \notin acked /\ outcome = "none"
    /\ phase = "reply" => stored[part] = wire /\ span.read = Length(part)
    /\ compared \subseteq acked
    /\ \A p \in acked :
          /\ SameOrSpoilt(stored[p], Whole(p))
          /\ p \in compared => stored[p] = Whole(p)
    /\ \A p \in 1 .. Size : p \notin Parts => stored[p] = <<>>
    /\ outcome = "crc" => spoilt
    /\ outcome = "ok" => tee.reported = Length(part)

UploadInv == UploadTyped /\ Planned /\ Sourced /\ Watched /\ Reports /\ Held

\* What a bad wire makes of bytes.
LEMMA SpoiltType ==
    /\ \A b \in Bytes : Spoilt(b) \in Bytes
    /\ \A b \in [value : Nat \ {0}, keys : SUBSET Int] : Spoilt(b) \in [value : Nat \ {0}, keys : SUBSET Int]
<1>1. Size \in Nat \ {0}
  BY TransferAssumption
<1>2. \A b \in Bytes : Spoilt(b) \in Bytes
  BY <1>1 DEF Spoilt, Bytes
<1>3. ASSUME NEW b \in [value : Nat \ {0}, keys : SUBSET Int]
      PROVE  Spoilt(b) \in [value : Nat \ {0}, keys : SUBSET Int]
  <2>1. b.value + Size \in Nat \ {0}
    BY <1>1
  <2> QED
    BY <2>1 DEF Spoilt
<1> QED
  BY <1>2, <1>3

LEMMA SameIsSame ==
    ASSUME NEW a
    PROVE  SameOrSpoilt(a, a)
BY DEF SameOrSpoilt

LEMMA SpoiltJoins ==
    ASSUME NEW a \in Seq(Bytes), NEW b \in Seq(Bytes), NEW c \in Seq(Bytes), NEW d \in Seq(Bytes),
           SameOrSpoilt(a, b), SameOrSpoilt(c, d)
    PROVE  SameOrSpoilt(a \o c, b \o d)
<1> DEFINE m == Len(b)
           n == Len(d)
<1>1. m \in Nat /\ n \in Nat /\ Len(a) = m /\ Len(c) = n
  BY LenProperties DEF SameOrSpoilt
<1>2. /\ Len(a \o c) = m + n /\ Len(b \o d) = m + n
      /\ \A i \in 1 .. m + n : (a \o c)[i] = IF i <= m THEN a[i] ELSE c[i - m]
      /\ \A i \in 1 .. m + n : (b \o d)[i] = IF i <= m THEN b[i] ELSE d[i - m]
  <2>1. /\ Len(a \o c) = Len(a) + Len(c)
        /\ \A i \in 1 .. Len(a) + Len(c) : (a \o c)[i] = IF i <= Len(a) THEN a[i] ELSE c[i - Len(a)]
    BY ONLY a \in Seq(Bytes), c \in Seq(Bytes), ConcatProperties
  <2>2. /\ Len(b \o d) = Len(b) + Len(d)
        /\ \A i \in 1 .. Len(b) + Len(d) : (b \o d)[i] = IF i <= Len(b) THEN b[i] ELSE d[i - Len(b)]
    BY ONLY b \in Seq(Bytes), d \in Seq(Bytes), ConcatProperties
  <2> QED
    BY <1>1, <2>1, <2>2, Zenon
<1>3. /\ \A i \in 1 .. m : a[i] = b[i] \/ a[i] = Spoilt(b[i])
      /\ \A i \in 1 .. n : c[i] = d[i] \/ c[i] = Spoilt(d[i])
  BY DEF SameOrSpoilt
<1> HIDE DEF m, n
<1>4. ASSUME NEW i \in 1 .. m + n
      PROVE  (a \o c)[i] = (b \o d)[i] \/ (a \o c)[i] = Spoilt((b \o d)[i])
  <2>1. CASE i <= m
    <3>1. i \in 1 .. m
      BY <1>1, <2>1
    <3>2. (a \o c)[i] = a[i] /\ (b \o d)[i] = b[i]
      BY <1>2, <2>1
    <3> QED
      BY <1>3, <3>1, <3>2, Zenon
  <2>2. CASE ~ (i <= m)
    <3>1. i - m \in 1 .. n
      BY <1>1, <2>2
    <3>2. (a \o c)[i] = c[i - m] /\ (b \o d)[i] = d[i - m]
      BY <1>2, <2>2
    <3> QED
      BY <1>3, <3>1, <3>2, Zenon
  <2> QED
    BY <2>1, <2>2
<1> QED
  BY <1>2, <1>4 DEF SameOrSpoilt

\* The parts are those of the plan, which the calls do not change.
LEMMA PlanFixed ==
    ASSUME plan' = plan
    PROVE  /\ Parts' = Parts
           /\ Misaligned' = Misaligned
           /\ \A p : Length(p)' = Length(p)
           /\ \A p : Whole(p)' = Whole(p)
BY DEF Parts, Misaligned, Length, Whole, Sent, PartIV, PartText, Offset

LEMMA PlanType ==
    ASSUME UploadTyped
    PROVE  plan.size \in Nat \ {0} /\ plan.encrypted \in BOOLEAN
BY DEF UploadTyped

LEMMA UploadInvInit == UploadInit => UploadInv
<1> SUFFICES ASSUME UploadInit PROVE UploadInv
  OBVIOUS
<1>1. /\ plan \in [encrypted : BOOLEAN, size : PartSizes] /\ acked = {} /\ compared = {} /\ phase = "idle" /\ part = 1
      /\ stored = [p \in 1 .. Size |-> <<>>] /\ body = NewBody("memory") /\ span = NoSpan
      /\ tee = NewTee /\ wire = <<>> /\ tries = 0 /\ outcome = "none"
  BY DEF UploadInit
<1>2. <<>> \in Seq(Bytes)
  BY EmptySeq
<1>3. UploadTyped
  <2>1. 1 \in Parts
    BY <1>1, UploadAssumption, PartsAreWithin
  <2>2. plan \in [encrypted : BOOLEAN, size : Nat \ {0}]
    BY <1>1, UploadAssumption
  <2> QED
    BY <1>1, <1>2, <2>1, <2>2 DEF UploadTyped, NewBody, BodyKinds, NoSpan, NewTee, Pos
<1>4. Planned /\ Sourced /\ Watched /\ Reports /\ Held
  BY <1>1 DEF Planned, Sourced, Watched, Reports, Held, NewBody
<1> QED
  BY <1>3, <1>4 DEF UploadInv

-----------------------------------------------------------------------------
(* The steps of an upload.                                                 *)

LEMMA RefuseStep == ASSUME UploadInv, RefuseParts PROVE UploadInv'
<1>1. /\ phase = "idle" /\ phase' = "refused"
      /\ UNCHANGED <<plan, acked, compared, stored, part, body, span, tee, wire, tries, spoilt, outcome>>
  BY DEF RefuseParts
<1>2. UploadTyped' /\ Planned' /\ Sourced' /\ Watched' /\ Reports'
  BY <1>1, PlanFixed DEF UploadInv, UploadTyped, Planned, Sourced, Watched, Reports
<1>3. Held'
  BY <1>1, PlanFixed DEF UploadInv, Held
<1> QED
  BY <1>2, <1>3 DEF UploadInv

LEMMA CallStep ==
    ASSUME UploadInv, NEW p \in Parts, NEW kind \in BodyKinds, CallUpload(p, kind)
    PROVE  UploadInv'
<1>1. /\ ~ Misaligned /\ p \in Parts \ acked
      /\ phase' = "begin" /\ part' = p /\ body' = NewBody(kind) /\ tee' = NewTee /\ outcome' = "none"
      /\ tries' = 0
      /\ UNCHANGED <<plan, acked, compared, stored, span, wire, spoilt>>
  BY DEF CallUpload
<1>2. UploadTyped'
  <2>1. <<>> \in Seq(Bytes)
    BY EmptySeq
  <2> QED
    BY <1>1, <2>1, PlanFixed DEF UploadInv, UploadTyped, NewBody, NewTee, Pos
<1>3. Planned' /\ Sourced' /\ Watched'
  <2>1. Planned' /\ Sourced'
    BY <1>1, PlanFixed DEF UploadInv, Planned, Sourced, NewBody
  <2>2. Watched'
    BY <1>1 DEF Watched, NewTee
  <2> QED
    BY <2>1, <2>2
<1>4. Reports'
  <2>1. Length(p) \in Nat
    BY PlanType, PartTextType DEF UploadInv
  <2> QED
    BY <1>1, <2>1, PlanFixed DEF Reports, NewTee
<1>5. Held'
  BY <1>1, PlanFixed DEF UploadInv, Held
<1> QED
  BY <1>2, <1>3, <1>4, <1>5 DEF UploadInv

\* The source is rewound, or is at its beginning, or fails.
LEMMA SpanBegins ==
    ASSUME UploadInv, phase = "begin", body' = IF body.kind = "memory" THEN body ELSE StreamSpan
    PROVE  /\ body' \in [kind : BodyKinds, at : Nat, spanned : BOOLEAN, failing : BOOLEAN]
           /\ body'.kind = body.kind
           /\ ~ body'.spanned => body'.at = Pos
           /\ body'.kind # "memory" => body'.spanned
           /\ body'.kind # "memory" /\ ~ body'.failing => body'.at = Pos
<1>1. body \in [kind : BodyKinds, at : Nat, spanned : BOOLEAN, failing : BOOLEAN] /\ Pos \in Nat
  BY DEF UploadInv, UploadTyped, Pos
<1>2. /\ ~ body.spanned => body.at = Pos
      /\ body.kind = "pipe" => ~ body.spanned
  BY DEF UploadInv, Sourced
<1>3. body.kind \in {"memory", "stream", "declared", "pipe"}
  BY <1>1 DEF BodyKinds
<1>4. CASE body.kind = "memory"
  BY <1>1, <1>2, <1>4
<1>5. CASE body.kind # "memory" /\ ~ body.spanned
  BY <1>1, <1>2, <1>5 DEF StreamSpan
<1>6. CASE body.kind # "memory" /\ body.spanned
  BY <1>1, <1>2, <1>3, <1>6 DEF StreamSpan
<1> QED
  BY <1>4, <1>5, <1>6

LEMMA BeginStep == ASSUME UploadInv, Begin PROVE UploadInv'
<1>1. /\ phase = "begin" /\ phase' = "send"
      /\ body' = IF body.kind = "memory" THEN body ELSE StreamSpan
      /\ span' = [NoSpan EXCEPT !.before = IF tries = 0 THEN 0 ELSE span.read]
      /\ tee' = [(IF tee.first THEN tee ELSE Reset) EXCEPT !.first = FALSE]
      /\ wire' = <<>> /\ spoilt' = FALSE /\ tries' = tries + 1
      /\ UNCHANGED <<plan, acked, compared, stored, part, outcome>>
  BY DEF Begin
<1>2. /\ part \in Parts
      /\ tee \in [first : BOOLEAN, crc : Seq(Bytes), written : Nat, last : Nat, reported : Nat]
      /\ <<>> \in Seq(Bytes) /\ tries \in Nat /\ span \in [at : Nat, read : Nat, before : Nat]
  BY EmptySeq DEF UploadInv, UploadTyped
<1>3. /\ tee' \in [first : BOOLEAN, crc : Seq(Bytes), written : Nat, last : Nat, reported : Nat]
      /\ ~ tee'.first /\ tee'.crc = <<>> /\ tee'.written = 0 /\ tee'.reported = tee.reported
      /\ tee'.last = IF tee.first THEN 0 ELSE tee.written
  <2>1. CASE tee.first
    <3>1. tee = NewTee /\ tee' = [tee EXCEPT !.first = FALSE]
      BY <1>1, <2>1 DEF UploadInv, Watched
    <3> QED
      BY ONLY <1>2, <2>1, <3>1 DEF NewTee
  <2>2. CASE ~ tee.first
    <3>1. tee' = [Reset EXCEPT !.first = FALSE]
      BY <1>1, <2>2
    <3> QED
      BY ONLY <1>2, <2>2, <3>1 DEF Reset
  <2> QED
    BY <2>1, <2>2
<1>b. /\ span' \in [at : Nat, read : Nat, before : Nat] /\ span'.at = Pos /\ span'.read = 0
      /\ span'.before = tee'.last
      /\ tries' \in Nat /\ tries' > 0
  <2>1. tee'.last = IF tee.first THEN 0 ELSE tee.written
    BY <1>3
  <2>2. (tries = 0 <=> tee.first) /\ (~ tee.first => tee.written = span.read)
    BY <1>1 DEF UploadInv, Watched
  <2> QED
    BY <1>1, <1>2, <2>1, <2>2 DEF NoSpan, Pos
<1>4. UploadTyped'
  BY <1>1, <1>2, <1>3, <1>b, PlanFixed, SpanBegins DEF UploadInv, UploadTyped
<1>5. Planned'
  BY <1>1, PlanFixed DEF UploadInv, Planned
<1>6. Sourced'
  <2>1. Cursor' = Pos + span'.read \/ body'.failing
    BY <1>1, <1>b, SpanBegins DEF Cursor, Pos
  <2> QED
    BY <1>1, <2>1, SpanBegins DEF Sourced
<1>7. Length(part) \in Nat /\ Whole(part) \in Seq(Bytes)
  BY <1>2, PlanType, PartTextType, SentPiece DEF UploadInv
<1>8. Watched'
  <2>1. Piece(Whole(part), 0, 0) = <<>>
    BY SubSeqEmpty DEF Piece
  <2> QED
    <3>1. tee'.crc = <<>> /\ wire' = <<>> /\ Len(wire') = 0
      BY <1>1, <1>3, EmptySeq
    <3>2. SameOrSpoilt(wire', tee'.crc)
      BY <3>1, SameIsSame
    <3> QED
      BY <1>1, <1>3, <1>7, <1>b, <2>1, <3>1, <3>2, PlanFixed DEF Watched
<1>9. Reports'
  <2>1. /\ tee.written <= Length(part) /\ tee.last <= Length(part) /\ tee.reported <= Length(part)
        /\ IF tee.written > tee.last THEN tee.reported = tee.written ELSE tee.last <= tee.reported
        /\ tee.first => tee.written = 0 /\ tee.reported = 0
    BY <1>1 DEF UploadInv, Reports, Watched, NewTee
  <2>2. tee.written \in Nat /\ tee.last \in Nat /\ tee.reported \in Nat
    BY <1>2
  <2>3. tee'.last <= tee'.reported /\ tee'.last <= Length(part) /\ tee'.reported <= Length(part)
    BY ONLY <1>3, <1>7, <2>1, <2>2
  <2> QED
    BY <1>1, <1>3, <1>7, <1>b, <2>2, <2>3, PlanFixed DEF Reports
<1>10. Held'
  BY <1>1, PlanFixed DEF UploadInv, Held
<1> QED
  BY <1>4, <1>5, <1>6, <1>8, <1>9, <1>10 DEF UploadInv

\* What is left of the source is what the attempt has not read.
LEMMA LeftIsRest ==
    ASSUME UploadInv, phase = "send", ~ body.failing
    PROVE  /\ span.read \in Nat /\ Length(part) \in Nat /\ span.read <= Length(part)
           /\ Len(Left) = Length(part) - span.read
           /\ \A n \in 1 .. Len(Left) : SubSeq(Left, 1, n) = Piece(PartText(part), span.read, span.read + n)
<1> DEFINE text == PartText(part)
           read == span.read
           size == Length(part)
<1>1. /\ read \in Nat /\ size \in Nat /\ read <= size /\ text \in Seq(Bytes) /\ Len(text) = size
      /\ Cursor = 1 + read
  BY PlanType, PartTextType DEF UploadInv, UploadTyped, Watched, Sourced, Pos, Length
<1>2. Junk \in Seq(Bytes) /\ Len(Junk) = 1
  BY DEF Junk, Byte, Bytes
<1> HIDE DEF text, read, size
<1> DEFINE junk == Junk
           source == junk \o text
<1>a. junk \in Seq(Bytes) /\ Len(junk) = 1
  BY <1>2
<1> HIDE DEF junk
<1>3. /\ source \in Seq(Bytes) /\ Len(source) = 1 + size
      /\ \A i \in 1 .. 1 + size : source[i] = IF i <= 1 THEN junk[i] ELSE text[i - 1]
  <2>1. /\ source \in Seq(Bytes) /\ Len(source) = Len(junk) + Len(text)
        /\ \A i \in 1 .. Len(junk) + Len(text) :
              source[i] = IF i <= Len(junk) THEN junk[i] ELSE text[i - Len(junk)]
    BY <1>1, <1>a, ConcatProperties
  <2> QED
    BY ONLY <1>1, <1>a, <2>1
<1>4. Left = Piece(source, 1 + read, 1 + size)
  BY <1>1 DEF Left, Piece, Pos, Length, text, size, junk
<1> HIDE DEF source
<1>5. /\ Left \in Seq(Bytes) /\ Len(Left) = size - read
      /\ \A i \in 1 .. size - read : Left[i] = source[1 + read + i]
  <2>1. 1 + read \in Nat /\ 1 + size \in Nat /\ 1 + read <= 1 + size /\ (1 + size) - (1 + read) = size - read
    BY <1>1
  <2>2. 1 + size <= Len(source) /\ source \in Seq(Bytes)
    BY <1>3, <2>1
  <2> DEFINE m == 1 + read
             n == 1 + size
  <2>3. /\ Left \in Seq(Bytes) /\ Len(Left) = n - m
        /\ \A i \in 1 .. n - m : Left[i] = source[m + i]
    <3>1. m \in Nat /\ n \in Nat /\ m <= n
      BY <2>1
    <3>2. n <= Len(source) /\ source \in Seq(Bytes)
      BY <2>2
    <3>3. Left = Piece(source, m, n)
      BY <1>4
    <3> HIDE DEF m, n
    <3> QED
      BY ONLY <3>1, <3>2, <3>3, PieceProperties
  <2> QED
    BY ONLY <2>1, <2>3
<1>6. ASSUME NEW n \in 1 .. Len(Left)
      PROVE  Piece(Left, 0, n) = Piece(text, read, read + n)
  <2>1. n \in Nat /\ read + n \in Nat /\ read <= read + n /\ read + n <= size /\ 0 <= n /\ n <= Len(Left)
    BY <1>1, <1>5
  <2>2. /\ Piece(Left, 0, n) \in Seq(Bytes) /\ Len(Piece(Left, 0, n)) = n - 0
        /\ \A i \in 1 .. n - 0 : Piece(Left, 0, n)[i] = Left[0 + i]
    <3> DEFINE z == 0
    <3>1. z \in Nat /\ z <= n
      BY <2>1
    <3> HIDE DEF z
    <3>2. Left \in Seq(Bytes) /\ n \in Nat /\ n <= Len(Left)
      BY <1>5, <2>1
    <3>3. /\ Piece(Left, z, n) \in Seq(Bytes) /\ Len(Piece(Left, z, n)) = n - z
          /\ \A i \in 1 .. n - z : Piece(Left, z, n)[i] = Left[z + i]
      BY ONLY <3>1, <3>2, PieceProperties
    <3> QED
      BY <3>3 DEF z
  <2>3. /\ Piece(text, read, read + n) \in Seq(Bytes) /\ Len(Piece(text, read, read + n)) = (read + n) - read
        /\ \A i \in 1 .. (read + n) - read : Piece(text, read, read + n)[i] = text[read + i]
    <3> DEFINE k == read + n
    <3>1. k \in Nat /\ read <= k /\ k <= Len(text)
      BY <1>1, <2>1
    <3> HIDE DEF k
    <3>2. /\ Piece(text, read, k) \in Seq(Bytes) /\ Len(Piece(text, read, k)) = k - read
          /\ \A i \in 1 .. k - read : Piece(text, read, k)[i] = text[read + i]
      <4>1. text \in Seq(Bytes) /\ read \in Nat
        BY <1>1
      <4> QED
        BY ONLY <3>1, <4>1, PieceProperties
    <3> QED
      BY <3>2 DEF k
  <2>4. ASSUME NEW i \in 1 .. n
        PROVE  Piece(Left, 0, n)[i] = Piece(text, read, read + n)[i]
    <3>1. /\ i \in 1 .. n - 0 /\ 0 + i = i /\ i \in 1 .. (read + n) - read /\ i \in 1 .. size - read
          /\ 1 + read + i \in 1 .. 1 + size /\ ~ (1 + read + i <= 1) /\ (1 + read + i) - 1 = read + i
      BY <1>1, <2>1
    <3>2. Piece(Left, 0, n)[i] = source[1 + read + i]
      BY <1>5, <2>2, <3>1
    <3>3. Piece(text, read, read + n)[i] = text[read + i]
      BY <2>3, <3>1
    <3> QED
      BY <1>3, <3>1, <3>2, <3>3
  <2>5. Len(Piece(Left, 0, n)) = n /\ Len(Piece(text, read, read + n)) = n
    BY <1>1, <2>1, <2>2, <2>3
  <2> QED
    BY <2>2, <2>3, <2>4, <2>5, SameSequence
<1>7. \A n \in 1 .. Len(Left) : SubSeq(Left, 1, n) = Piece(Left, 0, n)
  BY DEF Piece
<1> QED
  BY <1>1, <1>5, <1>6, <1>7 DEF text, read, size

LEMMA SendStep == ASSUME UploadInv, NEW n \in Nat \ {0}, SendChunk(n) PROVE UploadInv'
<1> DEFINE read == span.read
           size == Length(part)
           bytes == Piece(Whole(part), read, read + n)
<1>1. /\ phase = "send" /\ ~ body.failing /\ n <= Len(Left)
      /\ tee' = Observed(tee, Sent(part, read, SubSeq(Left, 1, n)))
      /\ \/ wire' = wire \o Sent(part, read, SubSeq(Left, 1, n)) /\ UNCHANGED spoilt
         \/ /\ wire' = wire \o [Sent(part, read, SubSeq(Left, 1, n)) EXCEPT ![n] = Spoilt(@)]
            /\ spoilt' = TRUE
      /\ span' = [span EXCEPT !.at = @ + n, !.read = @ + n]
      /\ body' = IF body.kind = "memory" THEN body ELSE [body EXCEPT !.at = @ + n]
      /\ UNCHANGED <<plan, acked, compared, stored, phase, part, tries, outcome>>
  BY DEF SendChunk
<1>2. /\ part \in Parts /\ span \in [at : Nat, read : Nat, before : Nat] /\ wire \in Seq(Bytes)
      /\ tries \in Nat
      /\ body \in [kind : BodyKinds, at : Nat, spanned : BOOLEAN, failing : BOOLEAN]
      /\ tee \in [first : BOOLEAN, crc : Seq(Bytes), written : Nat, last : Nat, reported : Nat]
  BY DEF UploadInv, UploadTyped
<1>3. read \in Nat /\ size \in Nat /\ read + n \in Nat /\ read <= read + n /\ read + n <= size
  BY <1>1, LeftIsRest
<1>4. Sent(part, read, SubSeq(Left, 1, n)) = bytes
  <2>1. SubSeq(Left, 1, n) = Piece(PartText(part), read, read + n)
    BY <1>1, LeftIsRest
  <2>2. Sent(part, read, Piece(PartText(part), read, read + n)) = bytes
    BY <1>2, <1>3, PlanType, SentPiece DEF UploadInv
  <2> QED
    BY <2>1, <2>2
<1>5. Whole(part) \in Seq(Bytes) /\ Len(Whole(part)) = size
  BY <1>2, <1>3, PlanType, SentPiece DEF UploadInv
<1>6. bytes \in Seq(Bytes) /\ Len(bytes) = n
  <2>1. (read + n) - read = n
    BY <1>3
  <2> QED
    BY <1>3, <1>5, <2>1, PieceProperties
<1>7. /\ ~ tee.first /\ tee.written = read /\ tee.crc = Piece(Whole(part), 0, read)
      /\ Len(wire) = read /\ SameOrSpoilt(wire, tee.crc) /\ (~ spoilt => wire = tee.crc) /\ tries > 0
  BY <1>1 DEF UploadInv, Watched
<1>8. tee.crc \o bytes = Piece(Whole(part), 0, read + n)
  <2> DEFINE k == read + n
  <2>1. k \in Nat /\ read <= k /\ k <= Len(Whole(part)) /\ 0 \in Nat /\ 0 <= read /\ read \in Nat
    BY <1>3, <1>5
  <2> HIDE DEF k
  <2>2. Piece(Whole(part), 0, read) \o Piece(Whole(part), read, k) = Piece(Whole(part), 0, k)
    BY ONLY <1>5, <2>1, PiecesJoin
  <2> QED
    BY <1>7, <2>2 DEF k
<1>9. tee.crc \o bytes \in Seq(Bytes)
  BY <1>2, <1>6, ConcatProperties
<1> HIDE DEF bytes, read, size
<1>10. /\ tee' \in [first : BOOLEAN, crc : Seq(Bytes), written : Nat, last : Nat, reported : Nat]
       /\ ~ tee'.first /\ tee'.crc = Piece(Whole(part), 0, read + n)
       /\ tee'.written = read + n /\ tee'.last = tee.last
       /\ tee'.reported = IF read + n > tee.last THEN read + n ELSE tee.reported
  BY <1>1, <1>2, <1>3, <1>4, <1>6, <1>7, <1>8, <1>9 DEF Observed
<1>11. /\ wire' \in Seq(Bytes) /\ Len(wire') = read + n
       /\ SameOrSpoilt(wire', tee'.crc) /\ (~ spoilt' => wire' = tee'.crc)
  <2>0. tee'.crc = tee.crc \o bytes
    BY <1>8, <1>10
  <2>1. CASE wire' = wire \o bytes /\ UNCHANGED spoilt
    <3>1. wire \o bytes \in Seq(Bytes) /\ Len(wire \o bytes) = Len(wire) + Len(bytes)
      BY <1>2, <1>6, ConcatProperties
    <3>2. SameOrSpoilt(wire \o bytes, tee.crc \o bytes)
      BY <1>2, <1>6, <1>7, SameIsSame, SpoiltJoins
    <3> QED
      BY <1>6, <1>7, <2>0, <2>1, <3>1, <3>2
  <2>2. CASE wire' = wire \o [bytes EXCEPT ![n] = Spoilt(@)] /\ spoilt' = TRUE
    <3> DEFINE broken == [bytes EXCEPT ![n] = Spoilt(bytes[n])]
    <3>1. n \in 1 .. Len(bytes)
      BY <1>6
    <3>2. Spoilt(bytes[n]) \in Bytes
      BY <1>6, <3>1, ElementOfSeq, SpoiltType
    <3>4. /\ broken \in Seq(Bytes) /\ Len(broken) = n
          /\ \A i \in 1 .. Len(bytes) : broken[i] = IF i = n THEN Spoilt(bytes[n]) ELSE bytes[i]
      BY <1>6, <3>1, <3>2, ExceptSeq
    <3>5. SameOrSpoilt(broken, bytes)
      <4> HIDE DEF broken
      <4>1. \A i \in 1 .. Len(bytes) : broken[i] = bytes[i] \/ broken[i] = Spoilt(bytes[i])
        BY <3>4
      <4> QED
        BY <1>6, <3>4, <4>1 DEF SameOrSpoilt
    <3>6. wire' = wire \o broken
      BY <2>2
    <3> HIDE DEF broken
    <3>7. wire \o broken \in Seq(Bytes) /\ Len(wire \o broken) = Len(wire) + Len(broken)
      BY <1>2, <3>4, ConcatProperties
    <3>8. SameOrSpoilt(wire \o broken, tee.crc \o bytes)
      BY <1>2, <1>6, <1>7, <3>4, <3>5, SpoiltJoins
    <3> QED
      BY <1>7, <2>0, <2>2, <3>4, <3>6, <3>7, <3>8
  <2> QED
    BY <1>1, <1>4, <2>1, <2>2 DEF read
<1>12. /\ span' \in [at : Nat, read : Nat, before : Nat] /\ span'.read = read + n /\ span'.at = span.at + n
       /\ span'.before = span.before
       /\ body' \in [kind : BodyKinds, at : Nat, spanned : BOOLEAN, failing : BOOLEAN]
       /\ body'.kind = body.kind /\ body'.spanned = body.spanned /\ body'.failing = body.failing
       /\ body'.at = IF body.kind = "memory" THEN body.at ELSE body.at + n
  <2>1. /\ span' \in [at : Nat, read : Nat, before : Nat] /\ span'.read = read + n /\ span'.at = span.at + n
        /\ span'.before = span.before
    <3> DEFINE a == span.at + n
               b == read + n
    <3>1. a \in Nat /\ b \in Nat
      BY <1>2, <1>3
    <3>2. span' = [span EXCEPT !.at = a, !.read = b]
      BY <1>1 DEF read
    <3> HIDE DEF a, b
    <3>3. /\ span' \in [at : Nat, read : Nat, before : Nat] /\ span'.read = b /\ span'.at = a
          /\ span'.before = span.before
      BY ONLY <1>2, <3>1, <3>2
    <3> QED
      BY <3>3 DEF a, b
  <2>2. CASE body.kind = "memory"
    BY <1>1, <1>2, <2>1, <2>2
  <2>3. CASE body.kind # "memory"
    <3>1. body' = [body EXCEPT !.at = @ + n]
      BY <1>1, <2>3
    <3>2. /\ body' \in [kind : BodyKinds, at : Nat, spanned : BOOLEAN, failing : BOOLEAN]
          /\ body'.kind = body.kind /\ body'.spanned = body.spanned /\ body'.failing = body.failing
          /\ body'.at = body.at + n
      <4>1. body.at \in Nat /\ body.at + n \in Nat
        BY <1>2
      <4> DEFINE moved == body.at + n
      <4>2. body' = [body EXCEPT !.at = moved] /\ moved \in Nat
        BY <3>1, <4>1
      <4> HIDE DEF moved
      <4>3. /\ body' \in [kind : BodyKinds, at : Nat, spanned : BOOLEAN, failing : BOOLEAN]
            /\ body'.kind = body.kind /\ body'.spanned = body.spanned /\ body'.failing = body.failing
            /\ body'.at = moved
        BY ONLY <1>2, <4>2
      <4> QED
        BY <4>3 DEF moved
    <3> QED
      BY <2>1, <2>3, <3>2
  <2> QED
    BY <2>2, <2>3
<1>13. UploadTyped'
  BY <1>1, <1>2, <1>10, <1>11, <1>12, PlanFixed DEF UploadInv, UploadTyped
<1>14. Planned'
  BY <1>1, PlanFixed DEF UploadInv, Planned
<1>15. Sourced'
  <2>1. /\ ~ body.spanned => body.at = Pos
        /\ body.kind # "memory" => body.spanned
        /\ (IF body.kind = "memory" THEN span.at ELSE body.at) = Pos + read
    BY <1>1 DEF UploadInv, Sourced, Cursor, read
  <2>2. Cursor' = Pos + (read + n)
    <3>1. /\ span.at \in Nat /\ body.at \in Nat
          /\ Cursor' = IF body'.kind = "memory" THEN span'.at ELSE body'.at
      BY <1>2 DEF Cursor
    <3>2. CASE body.kind = "memory"
      BY ONLY <1>3, <1>12, <2>1, <3>1, <3>2, n \in Nat DEF Pos
    <3>3. CASE body.kind # "memory"
      BY ONLY <1>3, <1>12, <2>1, <3>1, <3>3, n \in Nat DEF Pos
    <3> QED
      BY <3>2, <3>3
  <2> QED
    BY <1>1, <1>12, <2>1, <2>2 DEF Sourced
<1>16. Watched'
  BY <1>1, <1>3, <1>7, <1>10, <1>11, <1>12, PlanFixed DEF Watched, size
<1>17. Reports'
  <2>1. tee.last <= size /\ tee.reported <= size /\ tee.last \in Nat /\ tee.reported \in Nat
    BY <1>1, <1>2 DEF UploadInv, Reports, size
  <2>2. IF read > tee.last THEN tee.reported = read ELSE tee.last <= tee.reported
    BY <1>1, <1>7 DEF UploadInv, Reports
  <2>3. /\ tee'.written <= size /\ tee'.last <= size /\ tee'.reported <= size
        /\ IF tee'.written > tee'.last THEN tee'.reported = tee'.written ELSE tee'.last <= tee'.reported
    BY ONLY <1>3, <1>10, <2>1, <2>2, n \in Nat
  <2>4. tee'.last = span'.before
    BY <1>1, <1>10, <1>12 DEF UploadInv, Reports
  <2> QED
    BY <1>1, <2>3, <2>4, PlanFixed DEF Reports, size
<1>18. Held'
  BY <1>1, PlanFixed DEF UploadInv, Held
<1> QED
  BY <1>13, <1>14, <1>15, <1>16, <1>17, <1>18 DEF UploadInv

LEMMA StoredStep == ASSUME UploadInv, Stored PROVE UploadInv'
<1>1. /\ phase = "send" /\ ~ body.failing /\ Due = 0 /\ phase' = "reply"
      /\ stored' = [stored EXCEPT ![part] = wire]
      /\ UNCHANGED <<plan, acked, compared, part, body, span, tee, wire, tries, spoilt, outcome>>
  BY DEF Stored
<1>2. /\ part \in Parts /\ part \in 1 .. Size /\ wire \in Seq(Bytes)
      /\ stored \in [1 .. Size -> Seq(Bytes)] /\ part \notin acked
  BY <1>1, PlanType, PartsAreWithin DEF UploadInv, UploadTyped, Held
<1>3. stored' \in [1 .. Size -> Seq(Bytes)] /\ stored'[part] = wire
  BY ONLY <1>1, <1>2
<1>4. span.read = Length(part)
  <2>1. span.read \in Nat /\ Length(part) \in Nat /\ Len(Left) = Length(part) - span.read
    BY <1>1, LeftIsRest
  <2>2. Len(wire) = span.read
    BY <1>1 DEF UploadInv, Watched
  <2>3. Due = IF HasLength(body.kind) THEN Length(part) - Len(wire) ELSE Len(Left)
    BY DEF Due, Length
  <2> QED
    BY ONLY <1>1, <2>1, <2>2, <2>3
<1>5. UploadTyped'
  BY <1>1, <1>3, PlanFixed DEF UploadInv, UploadTyped
<1>6. Planned' /\ Sourced' /\ Watched' /\ Reports'
  BY <1>1, PlanFixed DEF UploadInv, Planned, Sourced, Watched, Reports
<1>7. Held'
  <2>1. \A p \in acked' : SameOrSpoilt(stored'[p], Whole(p)') /\ (p \in compared' => stored'[p] = Whole(p)')
    <3> SUFFICES ASSUME NEW p \in acked
                 PROVE  SameOrSpoilt(stored'[p], Whole(p)') /\ (p \in compared => stored'[p] = Whole(p)')
      BY <1>1
    <3>1. SameOrSpoilt(stored[p], Whole(p)) /\ (p \in compared => stored[p] = Whole(p))
      BY DEF UploadInv, Held
    <3>2. Whole(p)' = Whole(p)
      BY <1>1, PlanFixed
    <3>3. p # part /\ p \in 1 .. Size
      BY <1>2, PlanType, PartsAreWithin DEF UploadInv, UploadTyped
    <3>4. stored'[p] = stored[p]
      BY <1>1, <1>2, <3>3
    <3> QED
      BY <3>1, <3>2, <3>4, Zenon
  <2>2. \A p \in 1 .. Size : p \notin Parts' => stored'[p] = <<>>
    <3>1. \A p \in 1 .. Size : p \notin Parts => stored[p] = <<>>
      BY DEF UploadInv, Held
    <3>2. Parts' = Parts
      BY <1>1, PlanFixed
    <3> QED
      BY <1>1, <1>2, <3>1, <3>2
  <2> QED
    BY <1>1, <1>3, <1>4, <2>1, <2>2, PlanFixed DEF UploadInv, Held
<1> QED
  BY <1>5, <1>6, <1>7 DEF UploadInv

\* A repetition finds the attempt's remains, which Begin clears.
LEMMA FailsStep ==
    ASSUME UploadInv, NEW error \in {"crc", "error"}, Fails(error),
           phase \in {"send", "reply"}, ~ body.failing, error = "crc" => spoilt,
           UNCHANGED <<plan, acked, compared, stored, part, body, span, tee, wire, tries, spoilt>>
    PROVE  UploadInv'
<1>1. \/ phase' = "begin" /\ ~ IsOneShot(body.kind) /\ outcome' = outcome
      \/ phase' = "done" /\ outcome' = error
  BY DEF Fails
<1>2. outcome = "none" /\ part \notin acked
  BY DEF UploadInv, Held
<1>3. UploadTyped' /\ Planned'
  BY <1>1, PlanFixed DEF UploadInv, UploadTyped, Planned
<1>4. Sourced'
  BY <1>1 DEF UploadInv, Sourced, IsOneShot
<1>5. Watched'
  BY <1>1, PlanFixed DEF UploadInv, Watched
<1>6. Reports'
  BY <1>1, PlanFixed DEF UploadInv, Reports
<1>7. Held'
  BY <1>1, <1>2, PlanFixed DEF UploadInv, Held
<1> QED
  BY <1>3, <1>4, <1>5, <1>6, <1>7 DEF UploadInv

LEMMA AttemptFailsStep == ASSUME UploadInv, AttemptFails PROVE UploadInv'
BY FailsStep DEF AttemptFails

LEMMA SourceFailsStep == ASSUME UploadInv, SourceFails PROVE UploadInv'
<1>1. /\ phase = "send" /\ phase' = "done" /\ outcome' = "error"
      /\ UNCHANGED <<plan, acked, compared, stored, part, body, span, tee, wire, tries, spoilt>>
  BY DEF SourceFails
<1>2. UploadTyped' /\ Planned' /\ Sourced' /\ Watched' /\ Reports'
  BY <1>1, PlanFixed DEF UploadInv, UploadTyped, Planned, Sourced, Watched, Reports
<1>3. Held'
  BY <1>1, PlanFixed DEF UploadInv, Held
<1> QED
  BY <1>2, <1>3 DEF UploadInv

\* The checksum is that of the whole part: a body that agrees with it is it.
LEMMA AnsweredStep == ASSUME UploadInv, Answered PROVE UploadInv'
<1>1. phase = "reply" /\ UNCHANGED <<plan, stored, part, body, span, tee, wire, tries, spoilt>>
  BY DEF Answered
<1>2. /\ part \in Parts /\ stored[part] = wire /\ span.read = Length(part)
      /\ tee.written = span.read /\ tee.crc = Piece(Whole(part), 0, span.read)
      /\ SameOrSpoilt(wire, tee.crc) /\ (~ spoilt => wire = tee.crc)
      /\ part \notin acked /\ compared \subseteq acked
  BY <1>1 DEF UploadInv, UploadTyped, Held, Watched
<1>3. PICK hashed \in BOOLEAN :
         IF CrcAgrees(hashed)
         THEN /\ phase' = "done" /\ outcome' = "ok" /\ acked' = acked \cup {part}
              /\ compared' = IF hashed THEN compared \cup {part} ELSE compared
         ELSE Fails("crc") /\ UNCHANGED <<acked, compared>>
  BY DEF Answered
<1>4. CASE CrcAgrees(hashed)
  <2>1. /\ phase' = "done" /\ outcome' = "ok" /\ acked' = acked \cup {part}
        /\ compared' = IF hashed THEN compared \cup {part} ELSE compared
    BY <1>3, <1>4
  <2>2. UploadTyped' /\ Planned' /\ Sourced' /\ Watched' /\ Reports'
    BY <1>1, <1>2, <2>1, PlanFixed DEF UploadInv, UploadTyped, Planned, Sourced, Watched, Reports
  <2>3. Whole(part) \in Seq(Bytes) /\ Len(Whole(part)) = Length(part) /\ Length(part) \in Nat
    BY <1>2, PlanType, PartTextType, SentPiece DEF UploadInv
  <2>4. Piece(Whole(part), 0, Length(part)) = Whole(part)
    BY <2>3, SubSeqFull DEF Piece
  <2>5. SameOrSpoilt(stored[part], Whole(part)) /\ (hashed => stored[part] = Whole(part))
    BY <1>2, <1>4, <2>4 DEF CrcAgrees
  <2>6. tee.reported = Length(part)
    <3>1. tee.written = Length(part) /\ tee.last <= Length(part) /\ tee.reported <= Length(part)
      BY <1>1, <1>2 DEF UploadInv, Reports
    <3>2. IF tee.written > tee.last THEN tee.reported = tee.written ELSE tee.last <= tee.reported
      BY <1>1 DEF UploadInv, Reports
    <3>3. tee.last \in Nat /\ tee.reported \in Nat
      BY DEF UploadInv, UploadTyped
    <3> QED
      BY ONLY <2>3, <3>1, <3>2, <3>3
  <2>7. compared' \subseteq acked'
    BY <1>2, <2>1
  <2>8. \A p \in acked' : SameOrSpoilt(stored[p], Whole(p)) /\ (p \in compared' => stored[p] = Whole(p))
    <3>1. \A p \in acked : SameOrSpoilt(stored[p], Whole(p)) /\ (p \in compared => stored[p] = Whole(p))
      BY DEF UploadInv, Held
    <3>2. \A p \in acked' : p = part \/ (p \in acked /\ (p \in compared' => p \in compared))
      BY <2>1
    <3>3. part \in compared' => hashed
      BY <1>2, <2>1
    <3> QED
      BY <2>5, <3>1, <3>2, <3>3, Zenon
  <2>9. Held'
    <3>1. \A p \in acked' : SameOrSpoilt(stored'[p], Whole(p)') /\ (p \in compared' => stored'[p] = Whole(p)')
      BY <1>1, <2>8, PlanFixed
    <3> QED
      BY <1>1, <2>1, <2>6, <2>7, <3>1, PlanFixed DEF UploadInv, Held
  <2> QED
    BY <2>2, <2>9 DEF UploadInv
<1>5. CASE ~ CrcAgrees(hashed)
  <2>1. Fails("crc") /\ UNCHANGED <<acked, compared>>
    BY <1>3, <1>5
  <2>2. spoilt
    BY <1>2, <1>5 DEF CrcAgrees
  <2>3. ~ body.failing
    BY <1>1 DEF UploadInv, Sourced
  <2> QED
    BY <1>1, <2>1, <2>2, <2>3, FailsStep
<1> QED
  BY <1>4, <1>5

LEMMA CompleteStep == ASSUME UploadInv, CompleteUpload PROVE UploadInv'
<1>1. /\ phase = "done" /\ phase' = "complete" /\ part' = 1 /\ body' = NewBody("memory")
      /\ span' = NoSpan /\ tee' = NewTee /\ wire' = <<>> /\ spoilt' = FALSE /\ outcome' = "none"
      /\ tries' = 0 /\ plan' = [plan EXCEPT !.size = Size]
      /\ acked' = {} /\ compared' = {} /\ stored' = [p \in 1 .. Size |-> <<>>]
  BY DEF CompleteUpload, Uploaded
<1>2. <<>> \in Seq(Bytes) /\ Size \in Nat \ {0} /\ plan \in [encrypted : BOOLEAN, size : Nat \ {0}]
  BY TransferAssumption, EmptySeq DEF UploadInv, UploadTyped
<1>3. plan' \in [encrypted : BOOLEAN, size : Nat \ {0}] /\ plan'.size = Size
  BY ONLY <1>1, <1>2
<1>4. 1 \in Parts'
  <2>1. Parts' = 1 .. ((Size + Size - 1) \div Size)
    BY <1>3 DEF Parts
  <2> QED
    BY <1>2, <2>1, FirstPart
<1>5. ~ Misaligned'
  BY <1>2, <1>3 DEF Misaligned
<1>6. UploadTyped'
  BY <1>1, <1>2, <1>3, <1>4 DEF UploadTyped, NewBody, BodyKinds, NoSpan, NewTee, Pos
<1>7. Planned' /\ Sourced' /\ Watched' /\ Reports'
  BY <1>1, <1>5 DEF Planned, Sourced, Watched, Reports, NewBody
<1>8. Held'
  BY <1>1 DEF Held
<1> QED
  BY <1>6, <1>7, <1>8 DEF UploadInv

LEMMA UploadStutter == ASSUME UploadInv, UNCHANGED uploadVars PROVE UploadInv'
<1>1. UNCHANGED <<plan, acked, compared, stored, phase, part, body, span, tee, wire, tries, spoilt, outcome>>
  BY DEF uploadVars, callVars
<1>2. UploadTyped' /\ Planned' /\ Watched' /\ Reports'
  BY <1>1, PlanFixed DEF UploadInv, UploadTyped, Planned, Watched, Reports
<1>3. Sourced'
  BY <1>1 DEF UploadInv, Sourced, Cursor
<1>4. Held'
  BY <1>1, PlanFixed DEF UploadInv, Held
<1> QED
  BY <1>2, <1>3, <1>4 DEF UploadInv

LEMMA UploadInvStep == ASSUME UploadInv, [Next]_vars PROVE UploadInv'
<1>1. CASE UploadNext
  <2>1. CASE RefuseParts
    BY <2>1, RefuseStep
  <2>2. ASSUME NEW p \in Parts, NEW kind \in BodyKinds, CallUpload(p, kind) PROVE UploadInv'
    BY <2>2, CallStep
  <2>3. CASE Begin
    BY <2>3, BeginStep
  <2>4. ASSUME NEW n \in ChunkSizes, SendChunk(n) PROVE UploadInv'
    <3>1. n \in Nat \ {0}
      BY TransferAssumption
    <3> QED
      BY <2>4, <3>1, SendStep
  <2>5. CASE Stored
    BY <2>5, StoredStep
  <2>6. CASE AttemptFails
    BY <2>6, AttemptFailsStep
  <2>7. CASE SourceFails
    BY <2>7, SourceFailsStep
  <2>8. CASE Answered
    BY <2>8, AnsweredStep
  <2> QED
    BY <1>1, <2>1, <2>2, <2>3, <2>4, <2>5, <2>6, <2>7, <2>8 DEF UploadNext
<1>2. CASE CompleteUpload
  BY <1>2, CompleteStep
<1>3. CASE UNCHANGED uploadVars
  BY <1>3, UploadStutter
<1> QED
  BY <1>1, <1>2, <1>3 DEF Next, vars

\* The inductive invariant of the upload.
THEOREM UploadInvAlways == Spec => []UploadInv
<1>1. Init => UploadInv
  BY UploadInvInit DEF Init
<1>2. UploadInv /\ [Next]_vars => UploadInv'
  BY UploadInvStep
<1> QED
  BY <1>1, <1>2, PTL DEF Spec

\* What the server holds of a part whose upload succeeded is, byte by byte, the
\* part of one pass of the cipher over the whole object: the rewound source and
\* the cipher moved to the part, for parts of any size.  A byte that is not was
\* spoilt on the way, and CRC64ResponseChecker had nothing to compare.
THEOREM StoredParts == Spec => []StoredIsBody
<1>1. UploadInv => StoredIsBody
  <2> SUFFICES ASSUME UploadInv, NEW p \in acked
               PROVE  LET want == SubSeq(ObjectBytes, Offset(p) + 1, Offset(p) + Len(PartText(p)))
                      IN  /\ Len(stored[p]) = Len(want)
                          /\ \A i \in DOMAIN want :
                                \/ stored[p][i] = want[i]
                                \/ p \notin compared /\ stored[p][i] = Spoilt(want[i])
    BY DEF StoredIsBody
  <2> DEFINE want == SubSeq(ObjectBytes, Offset(p) + 1, Offset(p) + Len(PartText(p)))
  <2>1. /\ p \in Parts /\ SameOrSpoilt(stored[p], Whole(p)) /\ ~ Misaligned
        /\ p \in compared => stored[p] = Whole(p)
    BY DEF UploadInv, UploadTyped, Held, Planned
  <2>2. Whole(p) = want
    <3>1. Whole(p) = Piece(ObjectBytes, Offset(p), Offset(p) + Length(p))
      BY <2>1, PlanType, WholeIsPiece DEF UploadInv
    <3> QED
      BY <3>1 DEF Piece, Length
  <2>3. want \in Seq(Bytes) /\ DOMAIN want = 1 .. Len(want)
    <3>1. Length(p) \in Nat
      BY <2>1, PlanType, PartTextType DEF UploadInv
    <3>2. Whole(p) \in Seq(Bytes)
      BY <2>1, <3>1, PlanType, SentPiece DEF UploadInv
    <3> QED
      BY <2>2, <3>2, LenProperties
  <2> HIDE DEF want
  <2>4. Len(stored[p]) = Len(want)
    BY <2>1, <2>2 DEF SameOrSpoilt
  <2>5. ASSUME NEW i \in DOMAIN want
        PROVE  stored[p][i] = want[i] \/ (p \notin compared /\ stored[p][i] = Spoilt(want[i]))
    <3>1. stored[p][i] = want[i] \/ stored[p][i] = Spoilt(want[i])
      BY <2>1, <2>2, <2>3 DEF SameOrSpoilt
    <3> QED
      BY <2>1, <2>2, <3>1
  <2> QED
    BY <2>4, <2>5 DEF want
<1> QED
  BY <1>1, UploadInvAlways, PTL

\* TeeByteContent's observers, which outlive the attempts: a checksum error is
\* the network's doing, and the progress is never behind the attempt under way
\* nor behind the one before it, and ends with the last byte.
THEOREM ObservedAttempts == Spec => []EachAttemptObserved
<1>1. UploadInv => EachAttemptObserved
  <2> SUFFICES ASSUME UploadInv PROVE EachAttemptObserved
    OBVIOUS
  <2>1. (outcome = "crc" => spoilt) /\ (outcome = "ok" => tee.reported = Len(PartText(part)))
    BY DEF UploadInv, Held, Length
  <2>2. ASSUME phase \in {"send", "reply"}
        PROVE  tee.reported >= span.read /\ tee.reported >= span.before
    <3>1. /\ tee.written \in Nat /\ tee.last \in Nat /\ tee.reported \in Nat
          /\ span.read \in Nat /\ span.before \in Nat
      BY DEF UploadInv, UploadTyped
    <3>2. tee.written = span.read
      BY <2>2 DEF UploadInv, Watched
    <3>3. /\ tee.last = span.before
          /\ IF tee.written > tee.last THEN tee.reported = tee.written ELSE tee.last <= tee.reported
      BY <2>2 DEF UploadInv, Reports
    <3> QED
      BY ONLY <3>1, <3>2, <3>3
  <2> QED
    BY <2>1, <2>2 DEF EachAttemptObserved
<1> QED
  BY <1>1, UploadInvAlways, PTL

-----------------------------------------------------------------------------
(* The frames of a select response.                                        *)

\* Bytes of an object: none of them has the value of a spoilt one.
Sound == [value : Nat \ {0}, keys : SUBSET Int]

\* How many bytes of its payload a frame has given when p of its own are read.
PayloadAt(f, p) == IF p <= HeaderLen THEN 0 ELSE IF p <= HeaderLen + f.len THEN p - HeaderLen ELSE f.len

\* Where a frame ends in its stream, and how much has been shown by then.
EndOf(f)   == f.start + f.len + 4
ShownBy(f) == f.lo + (IF f.type = DataFrame THEN f.len ELSE 0)

FramePayload(F, f, n) == Piece(F, f.start + HeaderLen, f.start + HeaderLen + n)

\* The stream F is made of the frames fs, whose data are together B.
IsLayout(F, fs, B) ==
    /\ Len(fs) >= 1 /\ fs[1].start = 0 /\ fs[1].lo = 0
    /\ \A k \in 1 .. Len(fs) :
          /\ EndOf(fs[k]) <= Len(F) /\ ShownBy(fs[k]) <= Len(B)
          /\ Len(B) - ShownBy(fs[k]) <= Len(F) - EndOf(fs[k])
          /\ F[fs[k].start + 1].value = fs[k].type
          /\ F[fs[k].start + 2].value = fs[k].len + OffsetLen
          /\ fs[k].type = DataFrame => FramePayload(F, fs[k], fs[k].len) = Piece(B, fs[k].lo, fs[k].lo + fs[k].len)
          /\ IF k < Len(fs)
             THEN fs[k + 1].start = EndOf(fs[k]) /\ fs[k + 1].lo = ShownBy(fs[k])
             ELSE EndOf(fs[k]) = Len(F) /\ ShownBy(fs[k]) = Len(B)

\* A frame whose checksum says nothing against its payload.
Intact(F, f) ==
    \/ F[EndOf(f)].value = 0
    \/ F[EndOf(f)].value = Checksum(EmptyChecksum, FramePayload(F, f, f.len))

\* The decoder has read p bytes of the frame f.
DecoderAt(d, F, f, p) ==
    /\ ~ d.error
    /\ d.header = Piece(F, f.start, f.start + Least(p, HeaderLen))
    /\ p >= HeaderLen =>
          /\ d.remains = f.len - PayloadAt(f, p)
          /\ d.crc = Checksum(EmptyChecksum, FramePayload(F, f, PayloadAt(f, p)))
    /\ d.tail = IF p <= HeaderLen + f.len THEN <<>> ELSE Piece(F, f.start + HeaderLen + f.len, f.start + p)

\* The decoder has read g bytes of the stream and its sink has what they show.
AllRead(d, data, F, fs, B, g) ==
    /\ g = Len(F) /\ d = NewDecoder /\ data = Piece(B, 0, Len(B))
    /\ \A j \in 1 .. Len(fs) : Intact(F, fs[j])
InFrame(d, data, F, fs, B, g, k, p) ==
    /\ g = fs[k].start + p /\ p < fs[k].len + 4
    /\ DecoderAt(d, F, fs[k], p)
    /\ data = Piece(B, 0, fs[k].lo + (IF fs[k].type = DataFrame THEN PayloadAt(fs[k], p) ELSE 0))
    /\ \A j \in 1 .. k - 1 : Intact(F, fs[j])
IsAt(d, data, F, fs, B, g) ==
    \/ AllRead(d, data, F, fs, B, g)
    \/ \E k \in 1 .. Len(fs) : \E p \in 0 .. fs[k].len + 3 : InFrame(d, data, F, fs, B, g, k, p)

\* The two framings of the model as layouts.
FrameOf(start, type, len, lo) == [start |-> start, type |-> type, len |-> len, lo |-> lo]
Layouts(n) ==
    { <<FrameOf(0, DataFrame, n, 0), FrameOf(n + 4, EndFrame, 1, n)>>,
      <<FrameOf(0, DataFrame, 1, 0), FrameOf(5, ContinuousFrame, 0, 1), FrameOf(9, DataFrame, n - 1, 1),
        FrameOf(n + 12, EndFrame, 1, n)>> }
Streams(source) ==
    { IF source.rotten THEN [F EXCEPT ![HeaderLen + 1] = Byte(0)] ELSE F :
        F \in Framings(source.version.bytes, source.checked) }

FrameInfo == [start : Nat, type : Nat, len : Nat, lo : Nat]
Decoders == [header : Seq(Bytes), remains : Int, tail : Seq(Bytes), crc : Nat, error : BOOLEAN]

\* Phase 1 of parseFrame.
LEMMA HeaderPhase ==
    ASSUME NEW F \in Seq(Bytes), NEW f \in FrameInfo, EndOf(f) <= Len(F),
           F[f.start + 2].value = f.len + OffsetLen,
           NEW d \in Decoders, NEW p \in 0 .. 1, DecoderAt(d, F, f, p),
           NEW n \in Nat \ {0}, p + n <= 2
    PROVE  /\ WithHeader(d, Piece(F, f.start + p, f.start + p + n)) \in Decoders
           /\ DecoderAt(WithHeader(d, Piece(F, f.start + p, f.start + p + n)), F, f, p + n)
<1> DEFINE a == f.start
           m == a + p
           r == a + p + n
           w == WithHeader(d, Piece(F, m, r))
<1>1. a \in Nat /\ f.len \in Nat /\ a + f.len + 4 <= Len(F) /\ Len(F) \in Nat
  BY LenProperties DEF FrameInfo, EndOf
<1>2. m \in Nat /\ r \in Nat /\ a <= m /\ m <= r /\ r <= Len(F) /\ r - a = p + n
  <2>1. p \in Nat /\ n \in Nat /\ p + n <= 2
    OBVIOUS
  <2> HIDE DEF a
  <2>2. m \in Nat /\ r \in Nat
    BY ONLY <1>1, <2>1
  <2>3. a <= m /\ m <= r /\ r - a = p + n
    BY ONLY <1>1, <2>1
  <2>4. r <= Len(F)
    BY ONLY <1>1, <2>1
  <2> QED
    BY <2>2, <2>3, <2>4
<1>3. ~ d.error /\ d.header = Piece(F, a, m) /\ d.tail = <<>>
  <2>1. Least(p, HeaderLen) = p /\ p <= HeaderLen + f.len
    BY <1>1 DEF Least, HeaderLen
  <2> QED
    BY <2>1 DEF DecoderAt
<1> HIDE DEF a, m, r
<1>4. d.header \o Piece(F, m, r) = Piece(F, a, r)
  <2>1. F \in Seq(Bytes) /\ a \in Nat /\ m \in Nat /\ r \in Nat /\ a <= m /\ m <= r /\ r <= Len(F)
    BY <1>1, <1>2
  <2>2. Piece(F, a, m) \o Piece(F, m, r) = Piece(F, a, r)
    BY ONLY <2>1, PiecesJoin
  <2> QED
    BY <1>3, <2>2
<1>5. /\ Piece(F, a, r) \in Seq(Bytes) /\ Len(Piece(F, a, r)) = r - a
      /\ \A i \in 1 .. r - a : Piece(F, a, r)[i] = F[a + i]
  <2>1. F \in Seq(Bytes) /\ a \in Nat /\ r \in Nat /\ a <= r /\ r <= Len(F)
    BY <1>1, <1>2
  <2> QED
    <3>1. PieceFacts(Bytes, F, a, r)
      BY ONLY <2>1, PieceIs
    <3> QED
      BY <3>1 DEF PieceFacts
<1>6. CASE p + n < 2
  <2>1. w = [d EXCEPT !.header = Piece(F, a, r)]
    BY <1>2, <1>4, <1>5, <1>6 DEF WithHeader, HeaderLen
  <2>2. /\ w \in Decoders /\ w.header = Piece(F, a, r) /\ w.tail = d.tail /\ w.error = d.error
    <3> DEFINE h == Piece(F, a, r)
    <3>1. h \in Seq(Bytes) /\ w = [d EXCEPT !.header = h]
      BY <1>5, <2>1
    <3> HIDE DEF h, w
    <3>2. w \in Decoders /\ w.header = h /\ w.tail = d.tail /\ w.error = d.error
      BY ONLY <3>1, d \in Decoders DEF Decoders
    <3> QED
      BY <3>2 DEF h
  <2>3. Least(p + n, HeaderLen) = p + n /\ a + (p + n) = r /\ p + n <= HeaderLen + f.len /\ ~ (p + n >= HeaderLen)
    BY <1>1, <1>6 DEF Least, HeaderLen, r
  <2>4. DecoderAt(w, F, f, p + n)
    <3> HIDE DEF w
    <3> QED
      BY <1>3, <2>2, <2>3 DEF DecoderAt, a
  <2> QED
    BY <2>2, <2>4 DEF a, m, r
<1>7. CASE p + n = 2
  <2>1. Piece(F, a, r)[2] = F[a + 2] /\ F[a + 2].value - OffsetLen = f.len
    BY <1>1, <1>2, <1>5, <1>7 DEF a, OffsetLen
  <2>2. w = [d EXCEPT !.header = Piece(F, a, r), !.remains = Piece(F, a, r)[2].value - OffsetLen, !.crc = EmptyChecksum]
    BY <1>2, <1>4, <1>5, <1>7 DEF WithHeader, HeaderLen
  <2>3. /\ w \in Decoders /\ w.header = Piece(F, a, r) /\ w.remains = f.len /\ w.crc = 1
        /\ w.tail = d.tail /\ w.error = d.error
    <3> DEFINE h == Piece(F, a, r)
               l == f.len
    <3>1. h \in Seq(Bytes) /\ l \in Int /\ w = [d EXCEPT !.header = h, !.remains = l, !.crc = 1]
      <4>1. Piece(F, a, r)[2].value - OffsetLen = l
        BY <2>1
      <4>2. w = [d EXCEPT !.header = h, !.remains = l, !.crc = 1]
        BY <2>2, <4>1, Zenon DEF EmptyChecksum
      <4> QED
        BY <1>1, <1>5, <4>2
    <3> HIDE DEF h, w, l
    <3>2. w \in Decoders /\ w.header = h /\ w.remains = l /\ w.crc = 1 /\ w.tail = d.tail /\ w.error = d.error
      BY ONLY <3>1, d \in Decoders DEF Decoders
    <3> QED
      BY <3>2 DEF h, l
  <2>4. /\ Least(p + n, HeaderLen) = 2 /\ a + 2 = r /\ p + n <= HeaderLen + f.len
        /\ PayloadAt(f, p + n) = 0 /\ f.len - 0 = f.len
    BY <1>1, <1>7 DEF Least, HeaderLen, r, PayloadAt
  <2>5. Checksum(EmptyChecksum, FramePayload(F, f, 0)) = 1
    <3>1. r \in Nat /\ f.start + HeaderLen + 0 = r /\ f.start + HeaderLen = r
      BY <1>1, <1>2, <2>4 DEF HeaderLen, a
    <3>2. FramePayload(F, f, 0) = <<>>
      BY <3>1, EmptyPiece DEF FramePayload
    <3> QED
      BY <3>2, ChecksumOfNone DEF EmptyChecksum
  <2>6. DecoderAt(w, F, f, p + n)
    <3> HIDE DEF w
    <3> QED
      BY <1>3, <2>3, <2>4, <2>5 DEF DecoderAt, a
  <2> QED
    BY <2>3, <2>6 DEF a, m, r
<1> QED
  BY <1>6, <1>7

\* Phase 2 of parseFrame, apart from the sink.
LEMMA PayloadPhase ==
    ASSUME NEW F \in Seq(Bytes), NEW f \in FrameInfo, EndOf(f) <= Len(F),
           NEW d \in Decoders, NEW p \in Nat, p >= 2, DecoderAt(d, F, f, p),
           NEW n \in Nat \ {0}, p + n <= 2 + f.len,
           NEW w, w = [d EXCEPT !.crc = Checksum(d.crc, Piece(F, f.start + p, f.start + p + n)),
                                !.remains = d.remains - Len(Piece(F, f.start + p, f.start + p + n))]
    PROVE  w \in Decoders /\ DecoderAt(w, F, f, p + n)
<1> DEFINE b == f.start
           l == f.len
           a == b + 2
           m == b + p
           r == b + p + n
           piece == Piece(F, m, r)
           known == Piece(F, a, m)
<1>0. p \in Nat /\ n \in Nat /\ n >= 1 /\ p >= 2 /\ p + n <= 2 + l
  OBVIOUS
<1>1. b \in Nat /\ l \in Nat /\ b + l + 4 <= Len(F) /\ Len(F) \in Nat
  BY LenProperties DEF FrameInfo, EndOf
<1> HIDE DEF b, l
<1>2. F \in Seq(Bytes) /\ a \in Nat /\ m \in Nat /\ r \in Nat /\ a <= m /\ m <= r /\ a <= r /\ r <= Len(F) /\ m <= Len(F)
  BY ONLY <1>0, <1>1, F \in Seq(Bytes)
<1>3. r - m = n /\ m = a + (p - 2) /\ r = a + (p + n - 2)
  BY ONLY <1>0, <1>1
<1>4. PayloadAt(f, p) = p - 2 /\ PayloadAt(f, p + n) = p + n - 2
  BY ONLY <1>0, <1>1 DEF PayloadAt, HeaderLen, l
<1>5. FramePayload(F, f, p - 2) = known /\ FramePayload(F, f, p + n - 2) = Piece(F, a, r)
  BY <1>3 DEF FramePayload, HeaderLen, b
<1>6. /\ ~ d.error /\ d.header = Piece(F, b, b + 2) /\ d.tail = <<>>
      /\ d.remains = l - (p - 2) /\ d.crc = Checksum(EmptyChecksum, known)
  <2>1. Least(p, HeaderLen) = 2 /\ p >= HeaderLen /\ p <= HeaderLen + f.len
    BY ONLY <1>0, <1>1 DEF Least, HeaderLen, l
  <2> QED
    BY <1>4, <1>5, <2>1 DEF DecoderAt, HeaderLen, b, l
<1> HIDE DEF a, m, r
<1>7. piece \in Seq(Bytes) /\ Len(piece) = n
  <2>1. Piece(F, m, r) \in Seq(Bytes) /\ Len(Piece(F, m, r)) = r - m
    BY ONLY <1>2, PieceProperties
  <2> QED
    BY <1>3, <2>1
<1>8. known \in Seq(Bytes)
  BY ONLY <1>2, PieceProperties
<1>9. Checksum(d.crc, piece) = Checksum(EmptyChecksum, Piece(F, a, r))
  <2>1. known \o piece = Piece(F, a, r)
    BY ONLY <1>2, PiecesJoin
  <2> HIDE DEF known, piece
  <2>2. Checksum(Checksum(EmptyChecksum, known), piece) = Checksum(EmptyChecksum, known \o piece)
    BY <1>7, <1>8, ChecksumGoesOn DEF EmptyChecksum
  <2> QED
    BY <1>6, <2>1, <2>2
<1>10. Checksum(d.crc, piece) \in Nat
  <2>1. d.crc \in Nat
    BY DEF Decoders
  <2> HIDE DEF piece
  <2> QED
    BY <1>7, <2>1, ChecksumType
<1>11. /\ w \in Decoders /\ w.header = d.header /\ w.tail = d.tail /\ w.error = d.error
       /\ w.crc = Checksum(d.crc, piece) /\ w.remains = l - (p + n - 2)
  <2> DEFINE c == Checksum(d.crc, piece)
             k == l - (p + n - 2)
  <2>1. d.remains - Len(piece) = k /\ k \in Int /\ c \in Nat
    <3> HIDE DEF piece
    <3> QED
      <4>1. /\ l \in Nat /\ p \in Nat /\ n \in Nat /\ d.remains = l - (p - 2) /\ Len(piece) = n
        BY <1>0, <1>1, <1>6, <1>7
      <4>2. d.remains - Len(piece) = k /\ k \in Int
        BY ONLY <4>1
      <4> QED
        BY <4>2, <1>10
  <2>2. w = [d EXCEPT !.crc = c, !.remains = d.remains - Len(piece)]
    BY DEF m, r, b
  <2>3. w = [d EXCEPT !.crc = c, !.remains = k]
    BY <2>1, <2>2, Zenon
  <2> HIDE DEF c, k
  <2>4. w \in Decoders /\ w.header = d.header /\ w.tail = d.tail /\ w.error = d.error /\ w.crc = c /\ w.remains = k
    BY ONLY <2>1, <2>3, d \in Decoders DEF Decoders
  <2> QED
    BY <2>4 DEF c, k
<1>12. Least(p + n, HeaderLen) = 2 /\ p + n <= HeaderLen + f.len
  BY ONLY <1>0, <1>1 DEF Least, HeaderLen, l
<1> HIDE DEF piece
<1> QED
  BY <1>4, <1>5, <1>6, <1>9, <1>11, <1>12 DEF DecoderAt, b, l, HeaderLen

\* Phase 3 of parseFrame.
LEMMA TailPhase ==
    ASSUME NEW F \in Seq(Bytes), NEW f \in FrameInfo, EndOf(f) <= Len(F),
           NEW d \in Decoders, NEW p \in Nat, p >= 2 + f.len, DecoderAt(d, F, f, p),
           NEW n \in Nat \ {0}, p + n <= f.len + 4,
           NEW w, w = WithTail(d, Piece(F, f.start + p, f.start + p + n))
    PROVE  /\ w \in Decoders
           /\ p + n < f.len + 4 => DecoderAt(w, F, f, p + n)
           /\ p + n = f.len + 4 => w.error \/ (w = NewDecoder /\ Intact(F, f))
<1> DEFINE b == f.start
           l == f.len
           a == b + 2 + l
           m == b + p
           r == b + p + n
           piece == Piece(F, m, r)
           whole == Piece(F, a, r)
<1>0. p \in Nat /\ n \in Nat /\ n >= 1 /\ p >= 2 + l /\ p + n <= l + 4
  OBVIOUS
<1>1. b \in Nat /\ l \in Nat /\ b + l + 4 <= Len(F) /\ Len(F) \in Nat
  BY LenProperties DEF FrameInfo, EndOf
<1> HIDE DEF b, l
<1>2. F \in Seq(Bytes) /\ a \in Nat /\ m \in Nat /\ r \in Nat /\ a <= m /\ m <= r /\ a <= r /\ r <= Len(F) /\ m <= Len(F)
  BY ONLY <1>0, <1>1, F \in Seq(Bytes)
<1>3. r - a = p + n - l - 2 /\ a + 2 = EndOf(f) /\ HeaderLen = 2
  <2>1. r - a = p + n - l - 2
    BY ONLY <1>0, <1>1
  <2>2. a + 2 = b + l + 4
    BY ONLY <1>0, <1>1
  <2>3. b + l + 4 = EndOf(f)
    BY DEF EndOf, b, l
  <2> QED
    BY <2>1, <2>2, <2>3 DEF HeaderLen
<1>4. PayloadAt(f, p) = l /\ PayloadAt(f, p + n) = l
  BY ONLY <1>0, <1>1 DEF PayloadAt, HeaderLen, l
<1>5. /\ ~ d.error /\ d.header = Piece(F, b, b + 2) /\ d.tail = Piece(F, a, m)
      /\ d.remains = 0 /\ d.crc = Checksum(EmptyChecksum, FramePayload(F, f, l))
  <2>1. Least(p, HeaderLen) = 2 /\ p >= HeaderLen /\ l - l = 0
    BY ONLY <1>0, <1>1 DEF Least, HeaderLen
  <2>2. d.tail = Piece(F, a, m)
    <3>1. CASE p = 2 + l
      <4>1. a = m /\ p <= HeaderLen + f.len
        <5>1. b + 2 + l = b + p
          BY ONLY <1>0, <1>1, <3>1
        <5>2. f.len = l
          BY DEF l
        <5>3. p <= 2 + l
          BY ONLY <1>0, <1>1, <3>1
        <5> QED
          BY <1>3, <5>1, <5>2, <5>3
      <4>2. d.tail = <<>>
        BY <4>1 DEF DecoderAt
      <4> QED
        BY <1>2, <4>1, <4>2, EmptyPiece
    <3>2. CASE p > 2 + l
      <4>1. ~ (p <= HeaderLen + f.len) /\ f.start + HeaderLen + f.len = a
        BY ONLY <1>0, <1>1, <1>3, <3>2 DEF b, l
      <4> QED
        BY <4>1 DEF DecoderAt, b
    <3> QED
      BY ONLY <1>0, <1>1, <3>1, <3>2
  <2> QED
    BY <1>4, <2>1, <2>2 DEF DecoderAt, HeaderLen, b, l
<1> HIDE DEF a, m, r
<1>6. d.tail \o piece = whole
  <2>1. Piece(F, a, m) \o Piece(F, m, r) = Piece(F, a, r)
    BY ONLY <1>2, PiecesJoin
  <2> QED
    BY <1>5, <2>1
<1>7. whole \in Seq(Bytes) /\ Len(whole) = p + n - l - 2 /\ \A i \in 1 .. r - a : whole[i] = F[a + i]
  <2>1. Piece(F, a, r) \in Seq(Bytes) /\ Len(Piece(F, a, r)) = r - a /\ \A i \in 1 .. r - a : Piece(F, a, r)[i] = F[a + i]
    <3>1. F \in Seq(Bytes) /\ a \in Nat /\ r \in Nat /\ a <= r /\ r <= Len(F)
      BY <1>2
    <3> QED
      BY ONLY <3>1, PieceProperties
  <2> QED
    BY <1>3, <2>1
<1>8. w = IF Len(whole) < 2 THEN [d EXCEPT !.tail = whole]
          ELSE IF whole[2].value # 0 /\ whole[2].value # d.crc THEN [d EXCEPT !.error = TRUE]
          ELSE NewDecoder
  BY <1>6, Zenon DEF WithTail, TailLen, m, r, b
<1>9. CASE p + n < l + 4
  <2>1. Len(whole) < 2
    BY ONLY <1>0, <1>1, <1>7, <1>9
  <2>2. w = [d EXCEPT !.tail = whole]
    BY <1>8, <2>1
  <2> HIDE DEF whole
  <2>3. /\ w \in Decoders /\ w.header = d.header /\ w.tail = whole /\ w.error = d.error
        /\ w.crc = d.crc /\ w.remains = d.remains
    BY ONLY <1>7, <2>2, d \in Decoders DEF Decoders
  <2>4. /\ Least(p + n, HeaderLen) = 2 /\ p + n >= HeaderLen /\ l - l = 0 /\ ~ (p + n <= HeaderLen + f.len)
        /\ f.start + HeaderLen + f.len = a /\ f.start + (p + n) = r
    <3>1. /\ Least(p + n, 2) = 2 /\ p + n >= 2 /\ l - l = 0 /\ ~ (p + n <= 2 + l)
          /\ b + 2 + l = a /\ b + (p + n) = r
      BY ONLY <1>0, <1>1 DEF Least, a, r
    <3> QED
      BY <1>3, <3>1 DEF b, l
  <2>5. DecoderAt(w, F, f, p + n)
    BY <1>4, <1>5, <2>3, <2>4, <1>3 DEF DecoderAt, whole, b, l
  <2> QED
    BY <1>0, <1>1, <1>9, <2>3, <2>5 DEF l
<1>10. CASE p + n = l + 4
  <2>1. Len(whole) = 2 /\ whole[2] = F[EndOf(f)]
    <3>1. Len(whole) = 2 /\ 2 \in 1 .. r - a
      BY ONLY <1>0, <1>1, <1>3, <1>7, <1>10
    <3>2. whole[2] = F[a + 2]
      BY ONLY <1>7, <3>1
    <3> QED
      BY ONLY <1>3, <3>1, <3>2
  <2> HIDE DEF whole
  <2>2. CASE w = NewDecoder /\ ~ (whole[2].value # 0 /\ whole[2].value # d.crc)
    <3>1. NewDecoder \in Decoders
      BY EmptySeq DEF NewDecoder, Decoders
    <3>2. Intact(F, f)
      BY <1>5, <2>1, <2>2 DEF Intact, l
    <3> QED
      BY <1>10, <2>2, <3>1, <3>2 DEF l
  <2>3. CASE w = [d EXCEPT !.error = TRUE]
    <3>1. w \in Decoders /\ w.error
      BY ONLY <2>3, d \in Decoders DEF Decoders
    <3> QED
      BY <1>10, <3>1 DEF l
  <2>4. ~ (Len(whole) < 2)
    BY ONLY <2>1
  <2>5. \/ w = NewDecoder /\ ~ (whole[2].value # 0 /\ whole[2].value # d.crc)
        \/ w = [d EXCEPT !.error = TRUE]
    BY ONLY <1>8, <2>4, Zenon
  <2> QED
    BY <2>2, <2>3, <2>5
<1> QED
  BY <1>0, <1>1, <1>9, <1>10 DEF l

-----------------------------------------------------------------------------
(* The sinks, and the decoder's phases in turn.                            *)

SinkStates == [kind : {"string", "file", "memory"}, data : Seq(Bytes), capacity : Nat,
               state : {"good", "fail", "bad"}]
SinkFits(sink) == sink.kind = "file" => Len(sink.data) <= sink.capacity

\* A sink takes the first bytes of what it is given; all of them, or it fails.
LEMMA SinkTakes ==
    ASSUME NEW s \in SinkStates, s.state = "good", SinkFits(s), NEW bytes \in Seq(Bytes)
    PROVE  /\ SinkWrite(s, bytes) \in SinkStates /\ SinkFits(SinkWrite(s, bytes))
           /\ Wrote(s, bytes) <=> SinkWrite(s, bytes).state = "good"
           /\ \E j \in 0 .. Len(bytes) :
                 /\ SinkWrite(s, bytes).data = s.data \o Piece(bytes, 0, j)
                 /\ SinkWrite(s, bytes).state = "good" => j = Len(bytes)
<1> DEFINE t == SinkWrite(s, bytes)
           room == Room(s)
<1>1. /\ s.data \in Seq(Bytes) /\ s.capacity \in Nat /\ Len(s.data) \in Nat /\ Len(bytes) \in Nat
      /\ s.kind \in {"string", "file", "memory"} /\ room = s.capacity - Len(s.data)
  BY LenProperties DEF SinkStates, Room
<1>2. \A j \in 0 .. Len(bytes) :
         /\ Piece(bytes, 0, j) \in Seq(Bytes) /\ Len(Piece(bytes, 0, j)) = j
         /\ s.data \o Piece(bytes, 0, j) \in Seq(Bytes)
         /\ Len(s.data \o Piece(bytes, 0, j)) = Len(s.data) + j
  <2> TAKE j \in 0 .. Len(bytes)
  <2> DEFINE z == 0
  <2>1. z \in Nat /\ j \in Nat /\ z <= j /\ j <= Len(bytes) /\ j - z = j
    BY <1>1
  <2> HIDE DEF z
  <2>2. Piece(bytes, z, j) \in Seq(Bytes) /\ Len(Piece(bytes, z, j)) = j - z
    BY <2>1, PieceProperties
  <2> DEFINE more == Piece(bytes, z, j)
  <2>3. more \in Seq(Bytes) /\ Len(more) = j
    BY <2>1, <2>2
  <2> HIDE DEF more
  <2>4. s.data \o more \in Seq(Bytes) /\ Len(s.data \o more) = Len(s.data) + Len(more)
    BY <1>1, <2>3, ConcatProperties
  <2> QED
    BY <2>3, <2>4 DEF more, z
<1>3. Piece(bytes, 0, Len(bytes)) = bytes
  BY FullPiece
<1>4. s.data \o Piece(bytes, 0, 0) = s.data
  <2>1. Piece(bytes, 0, 0) = <<>>
    BY EmptyPiece
  <2> QED
    BY <1>1, <2>1, ConcatEmptySeq
<1> HIDE DEF room
<1>5. CASE s.kind = "memory"
  <2>1. t = IF Len(bytes) > room THEN [s EXCEPT !.state = "fail"] ELSE [s EXCEPT !.data = s.data \o bytes]
    BY <1>5 DEF SinkWrite, MemoryWrite, room
  <2>2. Wrote(s, bytes) <=> Len(bytes) <= room
    BY <1>5 DEF Wrote, room
  <2>3. CASE Len(bytes) > room
    <3>1. t = [s EXCEPT !.state = "fail"] /\ ~ Wrote(s, bytes)
      BY <1>1, <2>1, <2>2, <2>3
    <3>2. t \in SinkStates /\ t.kind = "memory" /\ t.data = s.data /\ t.state = "fail"
      <4> HIDE DEF t
      <4> QED
        BY ONLY <1>5, <3>1, s \in SinkStates DEF SinkStates
    <3>3. 0 \in 0 .. Len(bytes)
      BY <1>1
    <3> HIDE DEF t
    <3>4. \E j \in 0 .. Len(bytes) : t.data = s.data \o Piece(bytes, 0, j) /\ (t.state = "good" => j = Len(bytes))
      BY <1>4, <3>2, <3>3
    <3> QED
      BY <3>1, <3>2, <3>4 DEF SinkFits, t
  <2>4. CASE ~ (Len(bytes) > room)
    <3> DEFINE more == s.data \o Piece(bytes, 0, Len(bytes))
    <3>1. t = [s EXCEPT !.data = more] /\ more \in Seq(Bytes)
      <4>1. Len(bytes) \in 0 .. Len(bytes)
        BY <1>1
      <4>2. more \in Seq(Bytes)
        BY <1>2, <4>1
      <4>3. t = [s EXCEPT !.data = s.data \o bytes]
        BY <2>1, <2>4, Zenon
      <4> QED
        BY <1>3, <4>2, <4>3, Zenon
    <3> HIDE DEF more
    <3>2. t \in SinkStates /\ t.kind = "memory" /\ t.data = more /\ t.state = "good"
      <4> HIDE DEF t
      <4> QED
        BY ONLY <1>5, <3>1, s \in SinkStates, s.state = "good" DEF SinkStates
    <3>3. Len(bytes) \in 0 .. Len(bytes) /\ Wrote(s, bytes)
      <4>1. room \in Int
        BY <1>1
      <4> QED
        BY ONLY <1>1, <2>2, <2>4, <4>1
    <3> HIDE DEF t
    <3>4. \E j \in 0 .. Len(bytes) : t.data = s.data \o Piece(bytes, 0, j) /\ (t.state = "good" => j = Len(bytes))
      BY <3>2, <3>3 DEF more
    <3> QED
      BY <3>2, <3>3, <3>4 DEF SinkFits, t
  <2> QED
    BY <2>3, <2>4
<1>6. CASE s.kind = "file"
  <2> DEFINE k == Least(Len(bytes), room)
             more == s.data \o Piece(bytes, 0, k)
  <2>1. Len(s.data) <= s.capacity
    BY <1>6 DEF SinkFits
  <2>2. /\ room \in Nat /\ k \in 0 .. Len(bytes) /\ k <= room
        /\ (Len(bytes) > room) => k # Len(bytes)
        /\ ~ (Len(bytes) > room) => k = Len(bytes)
        /\ Len(s.data) + k <= s.capacity
    BY ONLY <1>1, <2>1 DEF Least
  <2>3. t = [s EXCEPT !.data = s.data \o Take(bytes, k), !.state = IF Len(bytes) > room THEN "bad" ELSE "good"]
    BY <1>6 DEF SinkWrite, FileWrite, room
  <2>4. Take(bytes, k) = Piece(bytes, 0, k)
    BY DEF Take, Piece
  <2> HIDE DEF k
  <2>5. more \in Seq(Bytes) /\ Len(more) = Len(s.data) + k
    BY <1>2, <2>2
  <2> DEFINE state == IF Len(bytes) > room THEN "bad" ELSE "good"
  <2>6. t = [s EXCEPT !.data = more, !.state = state] /\ state \in {"good", "bad"}
    BY <2>3, <2>4
  <2> HIDE DEF more, state
  <2>7. t \in SinkStates /\ t.kind = "file" /\ t.data = more /\ t.state = state /\ t.capacity = s.capacity
    <3> HIDE DEF t
    <3> QED
      BY ONLY <1>6, <2>5, <2>6, s \in SinkStates DEF SinkStates
  <2>8. Wrote(s, bytes) <=> t.state = "good"
    BY <1>6 DEF Wrote
  <2>9. SinkFits(t)
    <3> HIDE DEF t
    <3> QED
      BY <2>2, <2>5, <2>7 DEF SinkFits
  <2>10. \E j \in 0 .. Len(bytes) : t.data = s.data \o Piece(bytes, 0, j) /\ (t.state = "good" => j = Len(bytes))
    <3> HIDE DEF t
    <3> QED
      BY <2>2, <2>7 DEF more, state
  <2> QED
    BY <2>7, <2>8, <2>9, <2>10
<1>7. CASE s.kind = "string"
  <2> DEFINE more == s.data \o Piece(bytes, 0, Len(bytes))
  <2>1. t = [s EXCEPT !.data = more] /\ more \in Seq(Bytes)
    <3>1. Len(bytes) \in 0 .. Len(bytes)
      BY <1>1
    <3>2. more \in Seq(Bytes)
      BY <1>2, <3>1
    <3>3. t = [s EXCEPT !.data = s.data \o bytes]
      BY <1>7 DEF SinkWrite
    <3> QED
      BY <1>3, <3>2, <3>3, Zenon
  <2> HIDE DEF more
  <2>2. t \in SinkStates /\ t.kind = "string" /\ t.data = more /\ t.state = "good"
    <3> HIDE DEF t
    <3> QED
      BY ONLY <1>7, <2>1, s \in SinkStates, s.state = "good" DEF SinkStates
  <2>3. Len(bytes) \in 0 .. Len(bytes) /\ Wrote(s, bytes)
    BY <1>1, <1>7 DEF Wrote
  <2> HIDE DEF t
  <2>4. \E j \in 0 .. Len(bytes) : t.data = s.data \o Piece(bytes, 0, j) /\ (t.state = "good" => j = Len(bytes))
    BY <2>2, <2>3 DEF more
  <2> QED
    BY <2>2, <2>3, <2>4 DEF SinkFits, t
<1> QED
  BY <1>1, <1>5, <1>6, <1>7

\* What is taken of a chunk and what is left of it, in the stream.
LEMMA ChunkTaken ==
    ASSUME NEW F \in Seq(Bytes), NEW g \in Nat, NEW e \in Nat, g <= e, e <= Len(F),
           NEW n \in Nat, g + n <= e
    PROVE  /\ Len(Piece(F, g, e)) = e - g
           /\ Take(Piece(F, g, e), n) = Piece(F, g, g + n)
           /\ Drop(Piece(F, g, e), n) = Piece(F, g + n, e)
<1> DEFINE c == Piece(F, g, e)
           z == 0
           l == e - g
<1>1. z \in Nat /\ z <= n /\ n <= l /\ l \in Nat /\ l <= l /\ g + z = g /\ g + l = e
  OBVIOUS
<1>2. Len(c) = l
  BY PieceProperties
<1>3. Take(c, n) = Piece(c, z, n) /\ Drop(c, n) = Piece(c, n, Len(c))
  BY DEF Take, Drop, Piece
<1> HIDE DEF z, l
<1>4. l <= e - g
  BY DEF l
<1>5. Piece(c, z, n) = Piece(F, g + z, g + n)
  BY <1>1, <1>4, PieceOfPiece
<1>6. Piece(c, n, l) = Piece(F, g + n, g + l)
  BY <1>1, <1>4, PieceOfPiece
<1> QED
  BY <1>1, <1>2, <1>3, <1>5, <1>6 DEF l

\* What a phase is given, at the stream's first e bytes: a sink with the first
\* bytes of B, and without an error a chunk that goes on where the decoder is.
Parsing == [decoder : Decoders, sink : SinkStates, chunk : Seq(Bytes)]
Starts(data, B) == Len(data) <= Len(B) /\ data = Piece(B, 0, Len(data))
Within(r, F, fs, B, e, least) ==
    /\ r \in Parsing /\ SinkFits(r.sink)
    /\ Starts(r.sink.data, B) /\ least <= Len(r.sink.data)
    /\ ~ r.decoder.error =>
          /\ r.sink.state = "good"
          /\ \E g \in 0 .. e : r.chunk = Piece(F, g, e) /\ IsAt(r.decoder, r.sink.data, F, fs, B, g)

LEMMA FirstPiece ==
    ASSUME NEW B \in Seq(Bytes), NEW x \in Nat, x <= Len(B)
    PROVE  Len(Piece(B, 0, x)) = x /\ Starts(Piece(B, 0, x), B)
<1> DEFINE z == 0
           data == Piece(B, z, x)
<1>1. z \in Nat /\ z <= x /\ x - z = x
  OBVIOUS
<1> HIDE DEF z
<1>2. Len(data) = x
  BY <1>1, PieceProperties
<1> QED
  BY <1>2 DEF Starts, z

LEMMA FrameFacts ==
    ASSUME NEW F \in Seq(Bytes), NEW B \in Seq(Bytes), NEW fs \in Seq(FrameInfo), IsLayout(F, fs, B),
           NEW k \in 1 .. Len(fs)
    PROVE  /\ fs[k] \in FrameInfo /\ fs[k].start \in Nat /\ fs[k].len \in Nat /\ fs[k].lo \in Nat
           /\ EndOf(fs[k]) <= Len(F) /\ ShownBy(fs[k]) <= Len(B)
           /\ Len(B) - ShownBy(fs[k]) <= Len(F) - EndOf(fs[k])
           /\ F[fs[k].start + 1].value = fs[k].type
           /\ F[fs[k].start + 2].value = fs[k].len + OffsetLen
           /\ fs[k].type = DataFrame =>
                 FramePayload(F, fs[k], fs[k].len) = Piece(B, fs[k].lo, fs[k].lo + fs[k].len)
<1>1. fs[k] \in FrameInfo
  BY ElementOfSeq
<1> QED
  BY <1>1 DEF IsLayout, FrameInfo

\* How much the sink has when the decoder has read so much.
LEMMA ShownSoFar ==
    ASSUME NEW F \in Seq(Bytes), NEW B \in Seq(Bytes), NEW fs \in Seq(FrameInfo), IsLayout(F, fs, B),
           NEW d, NEW data, NEW g \in Nat, IsAt(d, data, F, fs, B, g)
    PROVE  Starts(data, B) /\ g <= Len(F) /\ Len(B) - Len(data) <= Len(F) - g
<1>1. Len(B) \in Nat /\ Len(F) \in Nat
  BY LenProperties
<1>2. CASE AllRead(d, data, F, fs, B, g)
  <2>1. g = Len(F) /\ data = Piece(B, 0, Len(B))
    BY <1>2 DEF AllRead
  <2> QED
    BY <1>1, <2>1, FirstPiece
<1>3. ASSUME NEW k \in 1 .. Len(fs), NEW p \in 0 .. fs[k].len + 3, InFrame(d, data, F, fs, B, g, k, p)
      PROVE  Starts(data, B) /\ g <= Len(F) /\ Len(B) - Len(data) <= Len(F) - g
  <2> DEFINE f == fs[k]
             b == f.start
             l == f.len
             lo == f.lo
             x == lo + (IF f.type = DataFrame THEN PayloadAt(f, p) ELSE 0)
  <2>1. /\ b \in Nat /\ l \in Nat /\ lo \in Nat /\ b + l + 4 <= Len(F)
        /\ lo + (IF f.type = DataFrame THEN l ELSE 0) <= Len(B)
        /\ Len(B) - (lo + (IF f.type = DataFrame THEN l ELSE 0)) <= Len(F) - (b + l + 4)
    BY FrameFacts DEF EndOf, ShownBy
  <2>2. g = b + p /\ data = Piece(B, 0, x)
    BY <1>3 DEF InFrame
  <2>3. PayloadAt(f, p) = IF p <= 2 THEN 0 ELSE IF p <= 2 + l THEN p - 2 ELSE l
    BY DEF PayloadAt, HeaderLen
  <2>4. p \in Nat /\ p <= l + 3
    BY <2>1
  <2>5. x \in Nat /\ x <= Len(B) /\ g <= Len(F) /\ Len(B) - x <= Len(F) - g
    <3> DEFINE data2 == f.type = DataFrame
    <3> HIDE DEF b, l, lo
    <3>1. x = lo + (IF data2 THEN (IF p <= 2 THEN 0 ELSE IF p <= 2 + l THEN p - 2 ELSE l) ELSE 0)
      BY <2>3
    <3>2. /\ b \in Nat /\ l \in Nat /\ lo \in Nat /\ b + l + 4 <= Len(F)
          /\ lo + (IF data2 THEN l ELSE 0) <= Len(B)
          /\ Len(B) - (lo + (IF data2 THEN l ELSE 0)) <= Len(F) - (b + l + 4)
      BY <2>1
    <3> HIDE DEF x, data2
    <3>3. CASE data2
      BY ONLY <1>1, <2>2, <2>4, <3>1, <3>2, <3>3
    <3>4. CASE ~ data2
      BY ONLY <1>1, <2>2, <2>4, <3>1, <3>2, <3>4
    <3> QED
      BY <3>3, <3>4
  <2> HIDE DEF x
  <2>6. Len(data) = x /\ Starts(data, B)
    BY <2>2, <2>5, FirstPiece
  <2> QED
    BY <2>5, <2>6
<1> QED
  BY <1>2, <1>3 DEF IsAt

\* Where a phase ends without an error, and where it ends with one.
LEMMA GoesOnWithin ==
    ASSUME NEW F \in Seq(Bytes), NEW B \in Seq(Bytes), NEW fs \in Seq(FrameInfo), IsLayout(F, fs, B),
           NEW e \in Nat, e <= Len(F), NEW least \in Nat,
           NEW d \in Decoders, NEW s \in SinkStates, SinkFits(s), s.state = "good", least <= Len(s.data),
           NEW g \in Nat, g <= e, IsAt(d, s.data, F, fs, B, g), NEW r,
           r = [decoder |-> d, sink |-> s, chunk |-> Piece(F, g, e)]
    PROVE  Within(r, F, fs, B, e, least)
<1>1. Piece(F, g, e) \in Seq(Bytes) /\ g \in 0 .. e
  BY PieceProperties
<1>2. Starts(s.data, B)
  BY ShownSoFar
<1> DEFINE c == Piece(F, g, e)
<1>3. r \in Parsing /\ r.decoder = d /\ r.sink = s /\ r.chunk = c
  BY <1>1 DEF Parsing
<1> HIDE DEF c
<1>4. \E h \in 0 .. e : r.chunk = Piece(F, h, e) /\ IsAt(r.decoder, r.sink.data, F, fs, B, h)
  BY <1>1, <1>3 DEF c
<1> QED
  BY <1>2, <1>3, <1>4 DEF Within

LEMMA FailsWithin ==
    ASSUME NEW F, NEW B, NEW fs, NEW e, NEW least,
           NEW d \in Decoders, d.error, NEW s \in SinkStates, SinkFits(s), least <= Len(s.data),
           Starts(s.data, B), NEW c \in Seq(Bytes), NEW r, r = [decoder |-> d, sink |-> s, chunk |-> c]
    PROVE  Within(r, F, fs, B, e, least)
<1>1. r \in Parsing /\ r.decoder = d /\ r.sink = s
  BY DEF Parsing
<1> QED
  BY <1>1 DEF Within

\* What the decoder has of the frame f, p bytes into it, and of the chunk.
LEMMA InFrameFacts ==
    ASSUME NEW F \in Seq(Bytes), NEW f \in FrameInfo, EndOf(f) <= Len(F),
           F[f.start + 1].value = f.type,
           NEW d \in Decoders, NEW p \in 0 .. f.len + 3, DecoderAt(d, F, f, p)
    PROVE  /\ ~ d.error
           /\ Len(d.header) = Least(p, 2)
           /\ p >= 2 => /\ d.header[1].value = f.type
                        /\ d.remains = f.len - PayloadAt(f, p)
           /\ Len(d.tail) = IF p <= 2 + f.len THEN 0 ELSE p - 2 - f.len
<1> DEFINE b == f.start
           l == f.len
           h == Least(p, 2)
           e == b + h
           a == b + 2 + l
           q == b + p
<1>1. b \in Nat /\ l \in Nat /\ b + l + 4 <= Len(F) /\ Len(F) \in Nat
  BY LenProperties DEF FrameInfo, EndOf
<1> HIDE DEF b, l
<1>2. p \in Nat /\ p <= l + 3
  BY <1>1 DEF l
<1>3. h \in Nat /\ h <= p /\ (p >= 2 => h = 2)
  BY <1>2 DEF Least
<1>4. ~ d.error /\ d.header = Piece(F, b, e)
  BY DEF DecoderAt, HeaderLen, b
<1> HIDE DEF h
<1>5. b \in Nat /\ e \in Nat /\ b <= e /\ e <= Len(F) /\ e - b = h
  BY ONLY <1>1, <1>2, <1>3
<1>6. Len(d.header) = h /\ (p >= 2 => d.header[1] = F[b + 1])
  <2> HIDE DEF e
  <2>1. /\ Len(Piece(F, b, e)) = e - b
        /\ \A i \in 1 .. e - b : Piece(F, b, e)[i] = F[b + i]
    BY ONLY <1>5, F \in Seq(Bytes), PieceProperties
  <2>2. p >= 2 => 1 \in 1 .. e - b
    BY <1>3, <1>5
  <2> QED
    BY <1>4, <1>5, <2>1, <2>2
<1>7. p >= 2 => d.remains = l - PayloadAt(f, p)
  BY DEF DecoderAt, HeaderLen, l
<1>8. Len(d.tail) = IF p <= 2 + l THEN 0 ELSE p - 2 - l
  <2>1. CASE p <= 2 + l
    <3>1. d.tail = <<>>
      BY <2>1 DEF DecoderAt, HeaderLen, l
    <3> QED
      BY <2>1, <3>1, EmptySeq
  <2>2. CASE ~ (p <= 2 + l)
    <3>1. d.tail = Piece(F, a, q)
      BY <2>2 DEF DecoderAt, HeaderLen, l, b
    <3>2. F \in Seq(Bytes) /\ a \in Nat /\ q \in Nat /\ a <= q /\ q <= Len(F) /\ q - a = p - 2 - l
      BY <1>1, <1>2, <2>2
    <3> HIDE DEF a, q
    <3>3. Len(Piece(F, a, q)) = q - a
      BY ONLY <3>2, PieceProperties
    <3> QED
      BY <2>2, <3>1, <3>2, <3>3
  <2> QED
    BY <2>1, <2>2
<1> QED
  BY <1>4, <1>6, <1>7, <1>8 DEF h, b, l

\* The sink has its part of the payload, and the decoder stays in the frame.
LEMMA StaysInFrame ==
    ASSUME NEW F, NEW B, NEW fs, NEW g \in Nat, NEW n \in Nat,
           NEW k \in 1 .. Len(fs), fs[k] \in FrameInfo, NEW p \in Nat,
           g = fs[k].start + p, \A j \in 1 .. k - 1 : Intact(F, fs[j]),
           p + n < fs[k].len + 4,
           NEW d, DecoderAt(d, F, fs[k], p + n), NEW data,
           data = Piece(B, 0, fs[k].lo + (IF fs[k].type = DataFrame THEN PayloadAt(fs[k], p + n) ELSE 0))
    PROVE  IsAt(d, data, F, fs, B, g + n)
<1> DEFINE q == p + n
           b == fs[k].start
<1>1. fs[k].len \in Nat /\ b \in Nat
  BY DEF FrameInfo
<1>2. q \in 0 .. fs[k].len + 3 /\ q < fs[k].len + 4 /\ g + n = b + q
  <2> DEFINE l == fs[k].len
  <2>1. b \in Nat /\ l \in Nat /\ g = b + p /\ p \in Nat /\ n \in Nat /\ p + n < l + 4
    BY <1>1
  <2> HIDE DEF b, l
  <2>2. q \in 0 .. l + 3 /\ q < l + 4 /\ g + n = b + q
    BY ONLY <2>1
  <2> QED
    BY <2>2 DEF l
<1> HIDE DEF q
<1>3. /\ DecoderAt(d, F, fs[k], q)
      /\ data = Piece(B, 0, fs[k].lo + (IF fs[k].type = DataFrame THEN PayloadAt(fs[k], q) ELSE 0))
  BY DEF q
<1>4. InFrame(d, data, F, fs, B, g + n, k, q)
  BY <1>2, <1>3 DEF InFrame
<1> QED
  BY <1>2, <1>4 DEF IsAt

\* At the end of a frame the decoder is at the beginning of the next one, or
\* at the end of the stream.
LEMMA FrameEnds ==
    ASSUME NEW F \in Seq(Bytes), NEW B \in Seq(Bytes), NEW fs \in Seq(FrameInfo), IsLayout(F, fs, B),
           NEW k \in 1 .. Len(fs), \A j \in 1 .. k : Intact(F, fs[j]),
           NEW data, data = Piece(B, 0, ShownBy(fs[k]))
    PROVE  IsAt(NewDecoder, data, F, fs, B, EndOf(fs[k]))
<1>1. Len(fs) \in Nat
  BY LenProperties
<1>2. CASE k = Len(fs)
  <2>1. EndOf(fs[k]) = Len(F) /\ ShownBy(fs[k]) = Len(B)
    BY <1>2 DEF IsLayout
  <2>2. AllRead(NewDecoder, data, F, fs, B, EndOf(fs[k]))
    BY <1>2, <2>1 DEF AllRead
  <2> QED
    BY <2>2 DEF IsAt
<1>3. CASE k < Len(fs)
  <2> DEFINE f == fs[k + 1]
             b == f.start
  <2>1. k + 1 \in 1 .. Len(fs) /\ b = EndOf(fs[k]) /\ f.lo = ShownBy(fs[k])
    BY <1>1, <1>3 DEF IsLayout
  <2>2. f \in FrameInfo /\ b \in Nat /\ f.len \in Nat /\ f.lo \in Nat
    BY <2>1, FrameFacts
  <2>3. Least(0, HeaderLen) = 0 /\ PayloadAt(f, 0) = 0 /\ 0 <= HeaderLen + f.len /\ ~ (0 >= HeaderLen)
    BY <2>2 DEF Least, HeaderLen, PayloadAt
  <2>4. Piece(F, b, b) = <<>> /\ b + 0 = b
    BY <2>2, EmptyPiece
  <2>5. DecoderAt(NewDecoder, F, f, 0)
    BY <2>3, <2>4 DEF DecoderAt, NewDecoder
  <2>6. data = Piece(B, 0, f.lo + (IF f.type = DataFrame THEN PayloadAt(f, 0) ELSE 0))
    <3>1. f.lo + (IF f.type = DataFrame THEN PayloadAt(f, 0) ELSE 0) = f.lo
      BY <2>2, <2>3
    <3> QED
      BY <2>1, <3>1
  <2>7. \A j \in 1 .. (k + 1) - 1 : Intact(F, fs[j])
    OBVIOUS
  <2>8. 0 \in 0 .. f.len + 3 /\ 0 < f.len + 4 /\ b = b + 0
    BY <2>2
  <2> HIDE DEF b
  <2>9. InFrame(NewDecoder, data, F, fs, B, b, k + 1, 0)
    BY <2>5, <2>6, <2>7, <2>8 DEF InFrame, b
  <2> QED
    BY <2>1, <2>8, <2>9 DEF IsAt
<1> QED
  BY <1>1, <1>2, <1>3

\* A phase that takes n bytes of the chunk shortens it.
LEMMA ChunkShortens ==
    ASSUME NEW F \in Seq(Bytes), NEW g \in Nat, NEW e \in Nat, g < e, e <= Len(F),
           NEW n \in Nat \ {0}, g + n <= e
    PROVE  /\ Drop(Piece(F, g, e), n) = Piece(F, g + n, e)
           /\ Len(Piece(F, g + n, e)) < Len(Piece(F, g, e))
<1> DEFINE h == g + n
<1>1. h \in Nat /\ h <= e /\ g <= e /\ g < h
  OBVIOUS
<1>2. Len(Piece(F, g, e)) = e - g /\ Drop(Piece(F, g, e), n) = Piece(F, h, e)
  BY <1>1, ChunkTaken
<1> HIDE DEF h
<1>3. Len(Piece(F, h, e)) = e - h
  BY <1>1, PieceProperties
<1> QED
  BY <1>1, <1>2, <1>3 DEF h

LEMMA HeaderStep ==
    ASSUME NEW F \in Seq(Bytes), NEW B \in Seq(Bytes), NEW fs \in Seq(FrameInfo), IsLayout(F, fs, B),
           NEW e \in Nat, e <= Len(F), NEW least \in Nat,
           NEW r \in Parsing, SinkFits(r.sink), r.sink.state = "good", least <= Len(r.sink.data),
           NEW g \in Nat, g < e, r.chunk = Piece(F, g, e),
           NEW k \in 1 .. Len(fs), NEW p \in 0 .. 1, InFrame(r.decoder, r.sink.data, F, fs, B, g, k, p)
    PROVE  Within(ParsePhase(r), F, fs, B, e, least) /\ Len(ParsePhase(r).chunk) < Len(r.chunk)
<1> DEFINE f == fs[k]
           d == r.decoder
           s == r.sink
           n == Least(2 - p, e - g)
           w == WithHeader(d, Take(r.chunk, n))
           t == ParsePhase(r)
<1>1. d \in Decoders /\ s \in SinkStates
  BY DEF Parsing
<1>2. /\ f \in FrameInfo /\ f.start \in Nat /\ f.len \in Nat /\ EndOf(f) <= Len(F)
      /\ F[f.start + 1].value = f.type /\ F[f.start + 2].value = f.len + OffsetLen
  BY FrameFacts
<1>3. /\ g = f.start + p /\ DecoderAt(d, F, f, p) /\ \A j \in 1 .. k - 1 : Intact(F, fs[j])
      /\ s.data = Piece(B, 0, f.lo + (IF f.type = DataFrame THEN PayloadAt(f, p) ELSE 0))
  BY DEF InFrame
<1>4. n \in Nat \ {0} /\ n <= 2 - p /\ p + n <= 2 /\ g + n <= e /\ g <= e /\ p + n \in Nat
  BY ONLY p \in 0 .. 1, g \in Nat, e \in Nat, g < e DEF Least
<1>5. ~ d.error /\ Len(d.header) = p
  <2>1. p \in 0 .. f.len + 3 /\ Least(p, 2) = p
    <3>1. f.len \in Nat
      BY <1>2
    <3> HIDE DEF f
    <3> QED
      BY ONLY <3>1, p \in 0 .. 1 DEF Least
  <2>2. /\ F \in Seq(Bytes) /\ f \in FrameInfo /\ EndOf(f) <= Len(F) /\ F[f.start + 1].value = f.type
        /\ d \in Decoders /\ p \in 0 .. f.len + 3 /\ DecoderAt(d, F, f, p)
    BY <1>1, <1>2, <1>3, <2>1
  <2> HIDE DEF f, d
  <2>3. ~ d.error /\ Len(d.header) = Least(p, 2)
    BY ONLY <2>2, InFrameFacts
  <2> QED
    BY <2>1, <2>3
<1>6. Len(r.chunk) = e - g /\ Take(r.chunk, n) = Piece(F, g, g + n)
  <2>1. F \in Seq(Bytes) /\ g \in Nat /\ e \in Nat /\ g <= e /\ e <= Len(F) /\ n \in Nat /\ g + n <= e
    BY <1>4
  <2> HIDE DEF n
  <2>2. Len(Piece(F, g, e)) = e - g /\ Take(Piece(F, g, e), n) = Piece(F, g, g + n)
    BY ONLY <2>1, ChunkTaken
  <2>3. r.chunk = Piece(F, g, e)
    OBVIOUS
  <2> QED
    BY ONLY <2>2, <2>3
<1>7. t = [decoder |-> w, sink |-> s, chunk |-> Drop(r.chunk, n)]
  <2>1. ~ (Len(r.chunk) = 0 \/ d.error) /\ Len(d.header) < HeaderLen
    BY <1>5, <1>6 DEF HeaderLen
  <2>2. Least(HeaderLen - Len(d.header), Len(r.chunk)) = n
    BY <1>5, <1>6 DEF HeaderLen
  <2>3. t = [decoder |-> WithHeader(d, Take(r.chunk, Least(HeaderLen - Len(d.header), Len(r.chunk)))),
             sink |-> s, chunk |-> Drop(r.chunk, Least(HeaderLen - Len(d.header), Len(r.chunk)))]
    BY <2>1 DEF ParsePhase
  <2> HIDE DEF n
  <2> QED
    BY <2>2, <2>3, Zenon
<1> HIDE DEF n, t
<1>8. t = [decoder |-> w, sink |-> s, chunk |-> Piece(F, g + n, e)] /\ Len(t.chunk) < Len(r.chunk)
  <2>1. Drop(r.chunk, n) = Piece(F, g + n, e) /\ Len(Piece(F, g + n, e)) < Len(r.chunk)
    BY <1>4, ChunkShortens
  <2>2. t = [decoder |-> w, sink |-> s, chunk |-> Piece(F, g + n, e)]
    BY <1>7, <2>1, Zenon
  <2>3. t.chunk = Piece(F, g + n, e)
    BY <2>2
  <2> QED
    BY <2>1, <2>2, <2>3
<1>9. w \in Decoders /\ DecoderAt(w, F, f, p + n)
  <2> DEFINE v == WithHeader(d, Piece(F, f.start + p, f.start + p + n))
  <2>1. v \in Decoders /\ DecoderAt(v, F, f, p + n)
    BY <1>1, <1>2, <1>3, <1>4, HeaderPhase
  <2>2. w = v
    BY <1>3, <1>6, Zenon
  <2> QED
    BY <2>1, <2>2, Zenon
<1> HIDE DEF w
<1>10. IsAt(w, s.data, F, fs, B, g + n)
  <2>1. PayloadAt(f, p + n) = PayloadAt(f, p) /\ p + n < f.len + 4
    <3>1. f.len \in Nat /\ p \in Nat /\ n \in Nat /\ p + n <= 2 /\ p <= 2
      <4>1. f.len \in Nat
        BY <1>2
      <4> HIDE DEF f
      <4> QED
        BY ONLY <1>4, <4>1, p \in 0 .. 1
    <3> QED
      BY ONLY <3>1 DEF PayloadAt, HeaderLen
  <2>2. s.data = Piece(B, 0, f.lo + (IF f.type = DataFrame THEN PayloadAt(f, p + n) ELSE 0))
    BY <1>3, <2>1
  <2>3. n \in Nat /\ p \in Nat /\ g \in Nat
    BY <1>4
  <2> QED
    BY ONLY <1>2, <1>3, <1>9, <2>1, <2>2, <2>3, k \in 1 .. Len(fs), StaysInFrame
<1>11. Within(t, F, fs, B, e, least)
  <2> DEFINE h == g + n
  <2>1. h \in Nat /\ h <= e /\ IsAt(w, s.data, F, fs, B, h) /\ t = [decoder |-> w, sink |-> s, chunk |-> Piece(F, h, e)]
    BY <1>4, <1>8, <1>10
  <2> HIDE DEF h
  <2> QED
    BY <1>1, <1>9, <2>1, GoesOnWithin
<1> QED
  BY <1>8, <1>11 DEF t

LEMMA PayloadInside ==
    ASSUME NEW f \in FrameInfo, NEW i \in Nat, i >= 2, i <= 2 + f.len
    PROVE  PayloadAt(f, i) = i - 2
<1>1. f.len \in Nat
  BY DEF FrameInfo
<1> QED
  BY <1>1 DEF PayloadAt, HeaderLen

Follows(F, B, f, q, j) ==
    /\ f.lo + (q + j) <= Len(B)
    /\ Piece(B, 0, f.lo + q) \o Piece(F, f.start + 2 + q, f.start + 2 + q + j) = Piece(B, 0, f.lo + (q + j))

\* What a data frame passes on next follows what the sink has.
LEMMA PayloadFollows ==
    ASSUME NEW F \in Seq(Bytes), NEW B \in Seq(Bytes), NEW fs \in Seq(FrameInfo), IsLayout(F, fs, B),
           NEW k \in 1 .. Len(fs), fs[k].type = DataFrame,
           NEW q \in Nat, NEW j \in Nat, q + j <= fs[k].len
    PROVE  Follows(F, B, fs[k], q, j)
<1> DEFINE f == fs[k]
           b == f.start + 2
           l == f.len
           c == b + l
           lo == f.lo
           hi == lo + l
           m == lo + q
           r == lo + (q + j)
           u == q + j
           g == f.start + 2 + q
           h == f.start + 2 + q + j
<1>1. /\ b \in Nat /\ l \in Nat /\ lo \in Nat /\ c <= Len(F) /\ hi <= Len(B) /\ Len(F) \in Nat /\ Len(B) \in Nat
      /\ Piece(F, b, c) = Piece(B, lo, hi)
  <2>1. /\ f.start \in Nat /\ l \in Nat /\ lo \in Nat /\ EndOf(f) <= Len(F) /\ ShownBy(f) <= Len(B)
        /\ FramePayload(F, f, l) = Piece(B, lo, hi)
    BY FrameFacts
  <2>2. FramePayload(F, f, l) = Piece(F, b, c)
    BY DEF FramePayload, HeaderLen
  <2>3. hi <= Len(B) /\ f.start + l + 4 <= Len(F)
    BY <2>1 DEF ShownBy, EndOf
  <2>4. Len(F) \in Nat /\ Len(B) \in Nat
    BY LenProperties
  <2>5. b \in Nat /\ c <= Len(F)
    <3> DEFINE a == f.start
    <3>1. a \in Nat /\ l \in Nat /\ a + l + 4 <= Len(F)
      BY <2>1, <2>3
    <3> HIDE DEF a, l
    <3>2. a + 2 \in Nat /\ a + 2 + l <= Len(F)
      BY ONLY <2>4, <3>1
    <3> QED
      BY <3>2 DEF a
  <2>6. Piece(F, b, c) = Piece(B, lo, hi)
    BY <2>1, <2>2, Zenon
  <2> HIDE DEF b, c, hi
  <2> QED
    BY <2>1, <2>3, <2>4, <2>5, <2>6
<1> HIDE DEF b, l, lo
<1>2. /\ c \in Nat /\ b <= c /\ c - b = l /\ hi \in Nat /\ lo <= hi /\ hi - lo = l
      /\ u \in Nat /\ q <= u /\ u <= l /\ m \in Nat /\ r \in Nat /\ m <= r /\ r <= Len(B) /\ lo + u = r
  <2>1. b \in Nat /\ l \in Nat /\ lo \in Nat /\ q \in Nat /\ j \in Nat /\ q + j <= l /\ hi <= Len(B) /\ Len(B) \in Nat
    BY <1>1 DEF l
  <2>2. c \in Nat /\ b <= c /\ c - b = l
    BY ONLY <2>1
  <2>3. hi \in Nat /\ lo <= hi /\ hi - lo = l
    BY ONLY <2>1
  <2>4. u \in Nat /\ q <= u /\ u <= l
    BY ONLY <2>1
  <2>5. m \in Nat /\ r \in Nat /\ m <= r /\ r <= Len(B) /\ lo + u = r
    BY ONLY <2>1
  <2> QED
    BY ONLY <2>2, <2>3, <2>4, <2>5
<1> DEFINE z == 0
<1>a. z \in Nat /\ z <= m
  BY <1>2
<1> HIDE DEF c, hi, m, r, u, z
<1>3. Piece(Piece(F, b, c), q, u) = Piece(F, b + q, b + u)
  <2>1. F \in Seq(Bytes) /\ b \in Nat /\ c \in Nat /\ b <= c /\ c <= Len(F)
    BY <1>1, <1>2
  <2>2. q \in Nat /\ u \in Nat /\ q <= u /\ u <= c - b
    BY <1>2
  <2> QED
    BY ONLY <2>1, <2>2, PieceOfPiece
<1>4. Piece(Piece(B, lo, hi), q, u) = Piece(B, lo + q, lo + u)
  <2>1. B \in Seq(Bytes) /\ lo \in Nat /\ hi \in Nat /\ lo <= hi /\ hi <= Len(B)
    BY <1>1, <1>2
  <2>2. q \in Nat /\ u \in Nat /\ q <= u /\ u <= hi - lo
    BY <1>2
  <2> QED
    BY ONLY <2>1, <2>2, PieceOfPiece
<1>b. lo + q = m
  BY DEF m
<1>5. Piece(F, b + q, b + u) = Piece(B, m, r)
  <2>1. Piece(F, b + q, b + u) = Piece(Piece(B, lo, hi), q, u)
    BY <1>1, <1>3, Zenon
  <2>2. lo + u = r
    BY <1>2
  <2>3. Piece(F, b + q, b + u) = Piece(B, lo + q, lo + u)
    BY <1>4, <2>1, Zenon
  <2> QED
    BY <2>2, <2>3, <1>b, Zenon
<1>6. Piece(B, z, m) \o Piece(B, m, r) = Piece(B, z, r)
  <2>1. B \in Seq(Bytes) /\ z \in Nat /\ m \in Nat /\ r \in Nat /\ z <= m /\ m <= r /\ r <= Len(B)
    BY <1>2, <1>a
  <2> QED
    BY ONLY <2>1, PiecesJoin
<1>7. g = b + q /\ h = b + u
  <2>1. g = b + q
    BY DEF b
  <2> QED
    BY <1>1, <2>1 DEF u
<1>8. Piece(F, g, h) = Piece(B, m, r)
  BY <1>5, <1>7, Zenon
<1> QED
  BY <1>2, <1>6, <1>8 DEF m, r, z, lo, Follows

\* The payload's phase, with what the sink makes of it.
LEMMA PayloadStep ==
    ASSUME NEW F \in Seq(Bytes), NEW B \in Seq(Bytes), NEW fs \in Seq(FrameInfo), IsLayout(F, fs, B),
           NEW e \in Nat, e <= Len(F), NEW least \in Nat,
           NEW r \in Parsing, SinkFits(r.sink), r.sink.state = "good", least <= Len(r.sink.data),
           NEW g \in Nat, g < e, r.chunk = Piece(F, g, e),
           NEW k \in 1 .. Len(fs), NEW p \in Nat, p >= 2, p < 2 + fs[k].len,
           InFrame(r.decoder, r.sink.data, F, fs, B, g, k, p)
    PROVE  Within(ParsePhase(r), F, fs, B, e, least) /\ Len(ParsePhase(r).chunk) < Len(r.chunk)
<1> DEFINE f == fs[k]
           d == r.decoder
           s == r.sink
           l == f.len
           b == f.start
           lo == f.lo
           q == p - 2
           n == Least(l - (p - 2), e - g)
           piece == Take(r.chunk, n)
           passed == WithPayload(d, s, piece)
           t == ParsePhase(r)
<1>1. d \in Decoders /\ s \in SinkStates
  BY DEF Parsing
<1>2. /\ f \in FrameInfo /\ f.start \in Nat /\ l \in Nat /\ f.lo \in Nat /\ EndOf(f) <= Len(F)
      /\ F[f.start + 1].value = f.type /\ F[f.start + 2].value = f.len + OffsetLen
  BY FrameFacts
<1>3. /\ g = f.start + p /\ DecoderAt(d, F, f, p) /\ \A j \in 1 .. k - 1 : Intact(F, fs[j])
      /\ s.data = Piece(B, 0, f.lo + (IF f.type = DataFrame THEN PayloadAt(f, p) ELSE 0))
  BY DEF InFrame
<1>a. /\ q \in Nat /\ p = q + 2 /\ q < l /\ p \in Nat /\ g \in Nat /\ e \in Nat /\ g < e
      /\ l \in Nat /\ b \in Nat /\ lo \in Nat /\ g = b + p
  <2>1. l \in Nat /\ b \in Nat /\ lo \in Nat /\ g = b + p /\ p \in Nat /\ p >= 2 /\ p < 2 + l
    <3>1. l \in Nat /\ b \in Nat /\ lo \in Nat
      BY <1>2
    <3>2. g = b + p
      BY <1>3
    <3>3. p \in Nat /\ p >= 2 /\ p < 2 + l
      OBVIOUS
    <3> QED
      BY ONLY <3>1, <3>2, <3>3
  <2> HIDE DEF l, b, lo
  <2>2. p \in Nat /\ q \in Nat /\ p = q + 2 /\ q < l
    BY ONLY <2>1
  <2> QED
    BY ONLY <2>1, <2>2, g \in Nat, e \in Nat, g < e
<1> HIDE DEF l, b, lo, q
<1>4. n \in Nat \ {0} /\ p + n <= 2 + l /\ g + n <= e /\ g <= e /\ p + n \in Nat /\ n \in Nat
  BY ONLY <1>a DEF Least
<1>5. PayloadAt(f, p) = q /\ PayloadAt(f, p + n) = q + n
  <2> DEFINE x == p + n
  <2>1. /\ p >= 2 /\ p <= 2 + l /\ p - 2 = q
        /\ x \in Nat /\ x >= 2 /\ x <= 2 + l /\ x - 2 = q + n
    BY ONLY <1>a, <1>4
  <2> HIDE DEF x
  <2>2. p <= 2 + f.len /\ x <= 2 + f.len
    BY <2>1 DEF l
  <2>3. PayloadAt(f, p) = p - 2 /\ PayloadAt(f, x) = x - 2
    BY <1>2, <2>1, <2>2, PayloadInside
  <2> QED
    BY <2>1, <2>3 DEF x
<1>6. ~ d.error /\ Len(d.header) = 2 /\ d.header[1].value = f.type /\ d.remains = l - q
  <2>1. p \in 0 .. f.len + 3 /\ Least(p, 2) = 2 /\ p >= 2
    <3>1. p \in 0 .. l + 3 /\ Least(p, 2) = 2 /\ p >= 2
      BY ONLY <1>a DEF Least
    <3> QED
      BY <3>1 DEF l
  <2>2. /\ F \in Seq(Bytes) /\ f \in FrameInfo /\ EndOf(f) <= Len(F) /\ F[f.start + 1].value = f.type
        /\ d \in Decoders /\ p \in 0 .. f.len + 3 /\ DecoderAt(d, F, f, p)
    BY <1>1, <1>2, <1>3, <2>1
  <2> HIDE DEF f, d, l
  <2>3. ~ d.error /\ Len(d.header) = Least(p, 2) /\ (p >= 2 => d.header[1].value = f.type /\ d.remains = f.len - PayloadAt(f, p))
    BY ONLY <2>2, InFrameFacts
  <2> QED
    BY <1>5, <2>1, <2>3 DEF l
<1>7. Len(r.chunk) = e - g /\ piece = Piece(F, g, g + n)
  <2> HIDE DEF n
  <2>1. g \in Nat /\ e \in Nat /\ g <= e /\ e <= Len(F) /\ n \in Nat /\ g + n <= e
    BY <1>4
  <2>2. Len(Piece(F, g, e)) = e - g /\ Take(Piece(F, g, e), n) = Piece(F, g, g + n)
    BY ONLY <2>1, F \in Seq(Bytes), ChunkTaken
  <2> QED
    BY <2>2
<1>8. t = [decoder |-> passed.decoder, sink |-> passed.sink, chunk |-> Drop(r.chunk, n)]
  <2>1. ~ (Len(r.chunk) = 0 \/ d.error) /\ ~ (Len(d.header) < HeaderLen) /\ d.remains > 0
    <3>1. e - g # 0 /\ l - q > 0 /\ ~ (2 < 2)
      BY ONLY <1>a
    <3> QED
      BY <1>6, <1>7, <3>1 DEF HeaderLen
  <2>2. Least(d.remains, Len(r.chunk)) = n
    BY <1>6, <1>7 DEF q
  <2>3. t = [decoder |-> WithPayload(d, s, Take(r.chunk, Least(d.remains, Len(r.chunk)))).decoder,
             sink |-> WithPayload(d, s, Take(r.chunk, Least(d.remains, Len(r.chunk)))).sink,
             chunk |-> Drop(r.chunk, Least(d.remains, Len(r.chunk)))]
    BY <2>1 DEF ParsePhase
  <2> HIDE DEF n
  <2> QED
    BY <2>2, <2>3, Zenon
<1> HIDE DEF n, t, passed
<1>9. /\ t = [decoder |-> passed.decoder, sink |-> passed.sink, chunk |-> Piece(F, g + n, e)]
      /\ Len(t.chunk) < Len(r.chunk) /\ Piece(F, g + n, e) \in Seq(Bytes)
  <2>1. Drop(r.chunk, n) = Piece(F, g + n, e) /\ Len(Piece(F, g + n, e)) < Len(r.chunk)
    <3>1. F \in Seq(Bytes) /\ g \in Nat /\ e \in Nat /\ g < e /\ e <= Len(F) /\ n \in Nat \ {0} /\ g + n <= e
      BY <1>4
    <3>2. Drop(Piece(F, g, e), n) = Piece(F, g + n, e) /\ Len(Piece(F, g + n, e)) < Len(Piece(F, g, e))
      BY ONLY <3>1, ChunkShortens
    <3> QED
      BY <3>2, Zenon
  <2>2. t = [decoder |-> passed.decoder, sink |-> passed.sink, chunk |-> Piece(F, g + n, e)]
    BY <1>8, <2>1, Zenon
  <2>3. t.chunk = Piece(F, g + n, e)
    BY <2>2
  <2>4. g + n \in Nat
    BY <1>4
  <2>5. Piece(F, g + n, e) \in Seq(Bytes)
    BY <1>4, <2>4, PieceProperties
  <2> QED
    BY <2>1, <2>2, <2>3, <2>5
<1> DEFINE w == [d EXCEPT !.crc = Checksum(d.crc, piece), !.remains = d.remains - Len(piece)]
<1>10. w \in Decoders /\ DecoderAt(w, F, f, p + n)
  <2> DEFINE next == Piece(F, f.start + p, f.start + p + n)
             v == [d EXCEPT !.crc = Checksum(d.crc, next), !.remains = d.remains - Len(next)]
  <2>1. v \in Decoders /\ DecoderAt(v, F, f, p + n)
    BY <1>1, <1>2, <1>3, <1>4, PayloadPhase DEF l
  <2>2. piece = next
    BY <1>3, <1>7, Zenon
  <2>3. w = v
    BY <2>2, Zenon
  <2> QED
    BY <2>1, <2>3, Zenon
<1>11. piece \in Seq(Bytes) /\ Len(piece) = n
  <2>1. g + n \in Nat /\ g <= g + n /\ g + n <= Len(F) /\ (g + n) - g = n
    BY <1>4
  <2>2. Piece(F, g, g + n) \in Seq(Bytes) /\ Len(Piece(F, g, g + n)) = (g + n) - g
    BY <2>1, PieceProperties
  <2> QED
    BY <1>7, <2>1, <2>2
<1> HIDE DEF w, piece
<1>12. CASE f.type # DataFrame
  <2>1. passed = [decoder |-> w, sink |-> s]
    BY <1>6, <1>12 DEF passed, WithPayload, w
  <2>2. s.data = Piece(B, 0, f.lo + (IF f.type = DataFrame THEN PayloadAt(f, p + n) ELSE 0))
    BY <1>3, <1>12
  <2>3. p + n < f.len + 4
    BY <1>a, <1>4 DEF l
  <2>4. IsAt(w, s.data, F, fs, B, g + n)
    BY ONLY <1>2, <1>3, <1>4, <1>10, <2>2, <2>3, g \in Nat, p \in Nat, k \in 1 .. Len(fs), StaysInFrame
  <2>5. Within(t, F, fs, B, e, least)
    <3> DEFINE h == g + n
    <3>1. h \in Nat /\ h <= e /\ IsAt(w, s.data, F, fs, B, h) /\ t = [decoder |-> w, sink |-> s, chunk |-> Piece(F, h, e)]
      BY <1>4, <1>9, <2>1, <2>4
    <3> HIDE DEF h
    <3> QED
      BY <1>1, <1>10, <3>1, GoesOnWithin
  <2> QED
    BY <1>9, <2>5 DEF t
<1>13. CASE f.type = DataFrame
  <2> DEFINE inner == SinkWrite(s, piece)
  <2>1. /\ inner \in SinkStates /\ SinkFits(inner)
        /\ Wrote(s, piece) <=> inner.state = "good"
        /\ \E j \in 0 .. Len(piece) :
              inner.data = s.data \o Piece(piece, 0, j) /\ (inner.state = "good" => j = Len(piece))
    BY <1>1, <1>11, SinkTakes
  <2>2. PICK j \in 0 .. n : inner.data = s.data \o Piece(piece, 0, j) /\ (inner.state = "good" => j = n)
    BY <1>11, <2>1
  <2>3. passed = [decoder |-> IF inner.state # "good" THEN [d EXCEPT !.error = TRUE] ELSE w, sink |-> inner]
    BY <1>6, <1>13, <2>1 DEF passed, WithPayload, w
  <2> HIDE DEF inner
  <2>a. s.data = Piece(B, 0, lo + q)
    BY <1>3, <1>5, <1>13 DEF lo
  <2>4. lo + q + j \in Nat /\ lo + q + j <= Len(B) /\ inner.data = Piece(B, 0, lo + q + j)
    <3> DEFINE z == 0
               end == g + n
    <3>1. q \in Nat /\ j \in Nat /\ q + j <= l /\ lo + q + j \in Nat
      BY ONLY <1>a, <1>4, j \in 0 .. n
    <3>3. b + 2 + q = g /\ b + 2 + q + j = g + j /\ lo + q + j = lo + (q + j)
      BY ONLY <1>a, <3>1
    <3>4. lo + q + j <= Len(B) /\ Piece(B, 0, lo + q) \o Piece(F, g, g + j) = Piece(B, 0, lo + q + j)
      <4>1. fs[k].type = DataFrame /\ q + j <= fs[k].len
        BY <1>13, <3>1 DEF l
      <4>2. Follows(F, B, fs[k], q, j)
        BY <3>1, <4>1, PayloadFollows
      <4> QED
        BY <3>3, <4>2 DEF lo, b, Follows
    <3>5. /\ end \in Nat /\ g <= end /\ end <= Len(F) /\ z \in Nat /\ z <= j /\ j <= end - g /\ g + z = g
          /\ piece = Piece(F, g, end)
      BY <1>4, <1>7, <3>1
    <3> HIDE DEF end
    <3>6. Piece(piece, z, j) = Piece(F, g + z, g + j)
      <4> HIDE DEF z
      <4> QED
        BY <3>1, <3>5, PieceOfPiece
    <3>7. Piece(piece, 0, j) = Piece(F, g, g + j)
      BY <3>5, <3>6
    <3>8. inner.data = Piece(B, 0, lo + q) \o Piece(F, g, g + j)
      BY <2>2, <2>a, <3>7, Zenon
    <3> QED
      BY <3>1, <3>3, <3>4, <3>8
  <2>5. Starts(inner.data, B) /\ least <= Len(inner.data)
    <3> DEFINE x == lo + q + j
               y == lo + q
    <3>1. x \in Nat /\ x <= Len(B) /\ inner.data = Piece(B, 0, x)
      BY <2>4
    <3>2. y \in Nat /\ y <= x /\ Len(B) \in Nat
      <4>1. y \in Nat /\ y <= x
        BY ONLY <1>a, <1>4, j \in 0 .. n
      <4> QED
        BY <4>1, LenProperties
    <3>3. s.data = Piece(B, 0, y)
      BY <2>a
    <3> HIDE DEF x, y
    <3>4. y <= Len(B)
      BY ONLY <3>1, <3>2
    <3>5. Len(s.data) = y
      BY <3>2, <3>3, <3>4, FirstPiece
    <3>6. Len(inner.data) = x /\ Starts(inner.data, B)
      BY <3>1, FirstPiece
    <3>7. least <= y
      BY <3>5
    <3> QED
      BY ONLY <3>1, <3>2, <3>6, <3>7, least \in Nat
  <2>6. CASE inner.state # "good"
    <3> DEFINE v == [d EXCEPT !.error = TRUE]
    <3>1. v \in Decoders /\ v.error
      <4> HIDE DEF d
      <4> QED
        BY ONLY <1>1 DEF Decoders
    <3>2. passed.decoder = v /\ passed.sink = inner
      BY <2>3, <2>6
    <3> HIDE DEF v
    <3>3. t = [decoder |-> v, sink |-> inner, chunk |-> Piece(F, g + n, e)]
      BY <1>9, <3>2, Zenon
    <3>4. Within(t, F, fs, B, e, least)
      BY <1>9, <2>1, <2>5, <3>1, <3>3, FailsWithin
    <3> QED
      BY <1>9, <3>4 DEF t
  <2>7. CASE inner.state = "good"
    <3>1. passed.decoder = w /\ passed.sink = inner /\ j = n
      BY <2>2, <2>3, <2>7
    <3>2. t = [decoder |-> w, sink |-> inner, chunk |-> Piece(F, g + n, e)]
      BY <1>9, <3>1, Zenon
    <3>3. inner.data = Piece(B, 0, f.lo + (IF f.type = DataFrame THEN PayloadAt(f, p + n) ELSE 0))
      <4>1. lo + q + j = lo + (IF f.type = DataFrame THEN PayloadAt(f, p + n) ELSE 0)
        <5>1. lo + q + n = lo + (q + n)
          BY <1>a, <1>4
        <5> QED
          BY <1>5, <1>13, <3>1, <5>1
      <4> QED
        BY <2>4, <4>1, Zenon DEF lo
    <3>4. p + n < f.len + 4
      BY <1>a, <1>4 DEF l
    <3>5. IsAt(w, inner.data, F, fs, B, g + n)
      BY ONLY <1>2, <1>3, <1>4, <1>10, <3>3, <3>4, g \in Nat, p \in Nat, k \in 1 .. Len(fs), StaysInFrame
    <3>6. Within(t, F, fs, B, e, least)
      <4> DEFINE h == g + n
      <4>1. h \in Nat /\ h <= e /\ IsAt(w, inner.data, F, fs, B, h) /\ t = [decoder |-> w, sink |-> inner, chunk |-> Piece(F, h, e)]
        BY <1>4, <3>2, <3>5
      <4> HIDE DEF h
      <4> QED
        BY <1>10, <2>1, <2>5, <2>7, <4>1, GoesOnWithin
    <3> QED
      BY <1>9, <3>6 DEF t
  <2> QED
    BY <2>6, <2>7
<1> QED
  BY <1>12, <1>13

LEMMA PayloadBehind ==
    ASSUME NEW f \in FrameInfo, NEW i \in Nat, i >= 2 + f.len
    PROVE  PayloadAt(f, i) = f.len
<1>1. f.len \in Nat
  BY DEF FrameInfo
<1> QED
  BY <1>1 DEF PayloadAt, HeaderLen

LEMMA TailStep ==
    ASSUME NEW F \in Seq(Bytes), NEW B \in Seq(Bytes), NEW fs \in Seq(FrameInfo), IsLayout(F, fs, B),
           NEW e \in Nat, e <= Len(F), NEW least \in Nat,
           NEW r \in Parsing, SinkFits(r.sink), r.sink.state = "good", least <= Len(r.sink.data),
           NEW g \in Nat, g < e, r.chunk = Piece(F, g, e),
           NEW k \in 1 .. Len(fs), NEW p \in 0 .. fs[k].len + 3, p >= 2 + fs[k].len,
           InFrame(r.decoder, r.sink.data, F, fs, B, g, k, p)
    PROVE  Within(ParsePhase(r), F, fs, B, e, least) /\ Len(ParsePhase(r).chunk) < Len(r.chunk)
<1> DEFINE f == fs[k]
           d == r.decoder
           s == r.sink
           l == f.len
           b == f.start
           q == p - 2 - l
           n == Least(2 - q, e - g)
           w == WithTail(d, Take(r.chunk, n))
           t == ParsePhase(r)
<1>1. d \in Decoders /\ s \in SinkStates
  BY DEF Parsing
<1>2. /\ f \in FrameInfo /\ f.start \in Nat /\ l \in Nat /\ f.lo \in Nat /\ EndOf(f) <= Len(F)
      /\ F[f.start + 1].value = f.type /\ F[f.start + 2].value = f.len + OffsetLen
  BY FrameFacts
<1>3. /\ g = f.start + p /\ DecoderAt(d, F, f, p) /\ \A j \in 1 .. k - 1 : Intact(F, fs[j])
      /\ s.data = Piece(B, 0, f.lo + (IF f.type = DataFrame THEN PayloadAt(f, p) ELSE 0))
  BY DEF InFrame
<1>a. /\ q \in {0, 1} /\ p = q + 2 + l /\ p \in Nat /\ g \in Nat /\ e \in Nat /\ g < e
      /\ l \in Nat /\ b \in Nat /\ g = b + p
  <2>1. l \in Nat /\ b \in Nat /\ g = b + p /\ p \in 0 .. l + 3 /\ p >= 2 + l
    BY <1>2, <1>3
  <2> HIDE DEF l, b
  <2> QED
    BY ONLY <2>1, g \in Nat, e \in Nat, g < e
<1> HIDE DEF l, b, q
<1>4. n \in Nat \ {0} /\ p + n <= l + 4 /\ g + n <= e /\ g <= e /\ p + n \in Nat /\ n \in Nat
  <2>1. 2 - q \in {1, 2} /\ e - g \in Nat \ {0}
    BY ONLY <1>a
  <2>2. n = IF 2 - q < e - g THEN 2 - q ELSE e - g
    BY DEF Least
  <2> HIDE DEF n
  <2> QED
    <3>1. n \in Nat \ {0} /\ n <= 2 - q /\ n <= e - g
      BY ONLY <2>1, <2>2
    <3>2. p + n <= l + 4 /\ p + n \in Nat
      BY ONLY <1>a, <3>1
    <3>3. g + n <= e /\ g <= e
      BY ONLY <1>a, <3>1
    <3> QED
      BY ONLY <3>1, <3>2, <3>3
<1>5. PayloadAt(f, p) = l /\ PayloadAt(f, p + n) = l
  <2> DEFINE x == p + n
  <2>1. p \in Nat /\ p >= 2 + l /\ x \in Nat /\ x >= 2 + l
    BY ONLY <1>a, <1>4
  <2> HIDE DEF x
  <2>2. p >= 2 + f.len /\ x >= 2 + f.len
    BY <2>1 DEF l
  <2>3. PayloadAt(f, p) = f.len /\ PayloadAt(f, x) = f.len
    BY <1>2, <2>1, <2>2, PayloadBehind
  <2> QED
    BY <2>3 DEF x, l
<1>6. ~ d.error /\ Len(d.header) = 2 /\ d.remains = 0 /\ Len(d.tail) = q
  <2>1. p \in 0 .. f.len + 3 /\ Least(p, 2) = 2 /\ p >= 2 /\ l - l = 0
        /\ (IF p <= 2 + l THEN 0 ELSE p - 2 - l) = q
    <3>1. Least(p, 2) = 2 /\ p >= 2 /\ l - l = 0 /\ (IF p <= 2 + l THEN 0 ELSE p - 2 - l) = q
      BY ONLY <1>a DEF Least
    <3> QED
      BY <3>1
  <2>2. /\ F \in Seq(Bytes) /\ f \in FrameInfo /\ EndOf(f) <= Len(F) /\ F[f.start + 1].value = f.type
        /\ d \in Decoders /\ p \in 0 .. f.len + 3 /\ DecoderAt(d, F, f, p)
    BY <1>1, <1>2, <1>3, <2>1
  <2> HIDE DEF f, d
  <2>3. /\ ~ d.error /\ Len(d.header) = Least(p, 2)
        /\ (p >= 2 => d.header[1].value = f.type /\ d.remains = f.len - PayloadAt(f, p))
        /\ Len(d.tail) = IF p <= 2 + f.len THEN 0 ELSE p - 2 - f.len
    BY ONLY <2>2, InFrameFacts
  <2> QED
    BY <1>5, <2>1, <2>3 DEF l
<1>7. Len(r.chunk) = e - g /\ Take(r.chunk, n) = Piece(F, g, g + n)
  <2> HIDE DEF n
  <2>1. g \in Nat /\ e \in Nat /\ g <= e /\ e <= Len(F) /\ n \in Nat /\ g + n <= e
    BY <1>4
  <2>2. Len(Piece(F, g, e)) = e - g /\ Take(Piece(F, g, e), n) = Piece(F, g, g + n)
    BY ONLY <2>1, F \in Seq(Bytes), ChunkTaken
  <2> QED
    BY <2>2
<1>8. t = [decoder |-> w, sink |-> s, chunk |-> Drop(r.chunk, n)]
  <2>1. ~ (Len(r.chunk) = 0 \/ d.error) /\ ~ (Len(d.header) < HeaderLen) /\ ~ (d.remains > 0)
    <3>1. e - g # 0 /\ ~ (2 < 2)
      BY ONLY <1>a
    <3> QED
      BY <1>6, <1>7, <3>1 DEF HeaderLen
  <2>2. Least(TailLen - Len(d.tail), Len(r.chunk)) = n
    BY <1>6, <1>7 DEF TailLen
  <2>3. t = [decoder |-> WithTail(d, Take(r.chunk, Least(TailLen - Len(d.tail), Len(r.chunk)))),
             sink |-> s, chunk |-> Drop(r.chunk, Least(TailLen - Len(d.tail), Len(r.chunk)))]
    BY <2>1 DEF ParsePhase
  <2> HIDE DEF n
  <2> QED
    BY <2>2, <2>3, Zenon
<1> HIDE DEF n, t
<1>9. t = [decoder |-> w, sink |-> s, chunk |-> Piece(F, g + n, e)] /\ Len(t.chunk) < Len(r.chunk)
      /\ Piece(F, g + n, e) \in Seq(Bytes)
  <2>1. Drop(r.chunk, n) = Piece(F, g + n, e) /\ Len(Piece(F, g + n, e)) < Len(r.chunk)
    BY <1>4, ChunkShortens
  <2>2. t = [decoder |-> w, sink |-> s, chunk |-> Piece(F, g + n, e)]
    BY <1>8, <2>1, Zenon
  <2>3. t.chunk = Piece(F, g + n, e)
    BY <2>2
  <2>4. g + n \in Nat
    BY <1>4
  <2>5. Piece(F, g + n, e) \in Seq(Bytes)
    BY <1>4, <2>4, PieceProperties
  <2> QED
    BY <2>1, <2>2, <2>3, <2>5
<1>10. /\ w \in Decoders
       /\ p + n < l + 4 => DecoderAt(w, F, f, p + n)
       /\ p + n = l + 4 => w.error \/ (w = NewDecoder /\ Intact(F, f))
  <2> DEFINE v == WithTail(d, Piece(F, f.start + p, f.start + p + n))
  <2>1. /\ v \in Decoders
        /\ p + n < f.len + 4 => DecoderAt(v, F, f, p + n)
        /\ p + n = f.len + 4 => v.error \/ (v = NewDecoder /\ Intact(F, f))
    <3>1. p \in Nat /\ p >= 2 + f.len /\ p + n <= f.len + 4
      BY <1>a, <1>4 DEF l
    <3> HIDE DEF f, d
    <3>2. /\ F \in Seq(Bytes) /\ f \in FrameInfo /\ EndOf(f) <= Len(F) /\ F[f.start + 2].value = f.len + OffsetLen
          /\ d \in Decoders /\ DecoderAt(d, F, f, p) /\ n \in Nat \ {0}
      BY <1>1, <1>2, <1>3, <1>4
    <3> QED
      BY ONLY <3>1, <3>2, TailPhase
  <2>2. w = v
    BY <1>3, <1>7, Zenon
  <2> HIDE DEF w, v
  <2> QED
    BY <2>1, <2>2 DEF l
<1> HIDE DEF w
<1>11. s.data = Piece(B, 0, ShownBy(f)) /\ Starts(s.data, B)
  <2>1. ShownBy(f) = f.lo + (IF f.type = DataFrame THEN PayloadAt(f, p) ELSE 0)
    BY <1>5 DEF ShownBy, l
  <2>2. s.data = Piece(B, 0, ShownBy(f))
    BY <1>3, <2>1, Zenon
  <2>3. ShownBy(f) \in Nat /\ ShownBy(f) <= Len(B)
    <3>1. ShownBy(f) <= Len(B)
      BY FrameFacts
    <3>2. ShownBy(f) \in Nat
      <4>1. f.lo \in Nat /\ f.len \in Nat
        BY <1>2 DEF FrameInfo
      <4> QED
        BY ONLY <4>1 DEF ShownBy
    <3> QED
      BY <3>1, <3>2
  <2> QED
    BY <2>2, <2>3, FirstPiece
<1>12. CASE p + n < l + 4
  <2>1. s.data = Piece(B, 0, f.lo + (IF f.type = DataFrame THEN PayloadAt(f, p + n) ELSE 0))
    BY <1>3, <1>5
  <2>2. DecoderAt(w, F, f, p + n) /\ p + n < f.len + 4
    BY <1>10, <1>12 DEF l
  <2>3. IsAt(w, s.data, F, fs, B, g + n)
    BY ONLY <1>2, <1>3, <1>4, <1>a, <2>1, <2>2, k \in 1 .. Len(fs), StaysInFrame
  <2>4. Within(t, F, fs, B, e, least)
    <3> DEFINE h == g + n
    <3>1. h \in Nat /\ h <= e /\ IsAt(w, s.data, F, fs, B, h) /\ t = [decoder |-> w, sink |-> s, chunk |-> Piece(F, h, e)]
      <4>1. h \in Nat /\ h <= e
        BY ONLY <1>4, <1>a DEF h
      <4> QED
        BY <4>1, <1>9, <2>3, Zenon
    <3> HIDE DEF h
    <3> QED
      BY <1>1, <1>10, <3>1, GoesOnWithin
  <2> QED
    BY <1>9, <2>4 DEF t
<1>13. CASE p + n = l + 4 /\ w.error
  <2>1. Within(t, F, fs, B, e, least)
    BY <1>1, <1>9, <1>10, <1>11, <1>13, FailsWithin
  <2> QED
    BY <1>9, <2>1 DEF t
<1>14. CASE p + n = l + 4 /\ ~ w.error
  <2>1. w = NewDecoder /\ \A j \in 1 .. k : Intact(F, fs[j])
    <3>1. w = NewDecoder /\ Intact(F, f)
      BY <1>10, <1>14
    <3>2. \A j \in 1 .. k : j = k \/ j \in 1 .. k - 1
      BY LenProperties
    <3> QED
      BY <1>3, <3>1, <3>2
  <2>2. g + n = EndOf(f)
    <3>1. g + n = b + l + 4
      <4>1. g + n = b + (p + n)
        BY ONLY <1>a, <1>4
      <4> QED
        BY ONLY <1>a, <1>14, <4>1
    <3> QED
      BY <3>1 DEF EndOf, b, l
  <2>3. IsAt(NewDecoder, s.data, F, fs, B, EndOf(f))
    BY <1>11, <2>1, FrameEnds
  <2>4. Within(t, F, fs, B, e, least)
    <3> DEFINE h == g + n
    <3>1. h \in Nat /\ h <= e /\ IsAt(w, s.data, F, fs, B, h) /\ t = [decoder |-> w, sink |-> s, chunk |-> Piece(F, h, e)]
      <4>1. h = EndOf(f) /\ IsAt(w, s.data, F, fs, B, EndOf(f))
        BY <2>1, <2>2, <2>3
      <4>2. h \in Nat /\ h <= e
        BY ONLY <1>4, <1>a DEF h
      <4>3. t = [decoder |-> w, sink |-> s, chunk |-> Piece(F, h, e)]
        BY <1>9
      <4> HIDE DEF h
      <4> QED
        BY <4>1, <4>2, <4>3
    <3> HIDE DEF h
    <3> QED
      BY <1>1, <1>10, <3>1, GoesOnWithin
  <2> QED
    BY <1>9, <2>4 DEF t
<1> QED
  <2>1. p + n < l + 4 \/ p + n = l + 4
    BY ONLY <1>a, <1>4
  <2> QED
    BY <2>1, <1>12, <1>13, <1>14

LEMMA PhaseStep ==
    ASSUME NEW F \in Seq(Bytes), NEW B \in Seq(Bytes), NEW fs \in Seq(FrameInfo), IsLayout(F, fs, B),
           NEW e \in Nat, e <= Len(F), NEW least \in Nat, NEW r, Within(r, F, fs, B, e, least)
    PROVE  /\ Within(ParsePhase(r), F, fs, B, e, least)
           /\ r.decoder.error \/ Len(r.chunk) = 0 \/ Len(ParsePhase(r).chunk) < Len(r.chunk)
<1>1. r \in Parsing /\ SinkFits(r.sink) /\ least <= Len(r.sink.data)
  BY DEF Within
<1>2. CASE r.decoder.error \/ Len(r.chunk) = 0
  <2>1. ParsePhase(r) = r
    BY <1>2 DEF ParsePhase
  <2> QED
    BY <1>2, <2>1
<1>3. CASE ~ r.decoder.error /\ Len(r.chunk) # 0
  <2>1. r.sink.state = "good"
    BY <1>3 DEF Within
  <2>2. PICK g \in 0 .. e : r.chunk = Piece(F, g, e) /\ IsAt(r.decoder, r.sink.data, F, fs, B, g)
    BY <1>3 DEF Within
  <2>3. g \in Nat /\ g < e
    <3>1. Len(Piece(F, g, e)) = e - g
      BY PieceProperties
    <3> QED
      BY <1>3, <2>2, <3>1
  <2>4. ~ AllRead(r.decoder, r.sink.data, F, fs, B, g)
    BY <2>3, LenProperties DEF AllRead
  <2>a. PICK k \in 1 .. Len(fs) : \E p \in 0 .. fs[k].len + 3 : InFrame(r.decoder, r.sink.data, F, fs, B, g, k, p)
    BY <2>2, <2>4 DEF IsAt
  <2>5. PICK p \in 0 .. fs[k].len + 3 : InFrame(r.decoder, r.sink.data, F, fs, B, g, k, p)
    BY <2>a
  <2>6. fs[k].len \in Nat /\ p \in Nat
    BY FrameFacts
  <2>7. CASE p < 2
    <3>1. p \in 0 .. 1
      BY <2>6, <2>7
    <3> QED
      BY <1>1, <2>1, <2>2, <2>3, <2>5, <3>1, HeaderStep
  <2>8. CASE p >= 2 /\ p < 2 + fs[k].len
    BY <1>1, <2>1, <2>2, <2>3, <2>5, <2>6, <2>8, PayloadStep
  <2>9. CASE p >= 2 + fs[k].len
    BY <1>1, <2>1, <2>2, <2>3, <2>5, <2>9, TailStep
  <2>10. p < 2 \/ (p >= 2 /\ p < 2 + fs[k].len) \/ p >= 2 + fs[k].len
    BY <2>6
  <2> QED
    BY <2>7, <2>8, <2>9, <2>10
<1> QED
  BY <1>2, <1>3

\* processBuffer is as many phases as there are bytes, one after the other.
InTurn(after, d, s, chunk) ==
    /\ after[0] = [decoder |-> d, sink |-> s, chunk |-> chunk]
    /\ \A i \in 1 .. Len(chunk) : after[i] = ParsePhase(after[i - 1])
    /\ ProcessBuffer(d, s, chunk) = after[Len(chunk)]
LEMMA PhasesInTurn ==
    ASSUME NEW d, NEW s, NEW chunk \in Seq(Bytes)
    PROVE  \E after : InTurn(after, d, s, chunk)
<1> DEFINE n == Len(chunk)
           first == [decoder |-> d, sink |-> s, chunk |-> chunk]
           after == CHOOSE f : f = [i \in 0 .. Len(chunk) |-> IF i = 0 THEN first ELSE ParsePhase(f[i - 1])]
<1>1. ProcessBuffer(d, s, chunk) = after[Len(chunk)]
  BY DEF ProcessBuffer
<1>2. n \in Nat
  BY LenProperties
<1> HIDE DEF first
<1> DEFINE Good == {k \in Nat : \E g : g = [i \in 0 .. k |-> IF i = 0 THEN first ELSE ParsePhase(g[i - 1])]}
<1>3. 0 \in Good
  <2> DEFINE g == [i \in 0 .. 0 |-> first]
  <2>1. g = [i \in 0 .. 0 |-> IF i = 0 THEN first ELSE ParsePhase(g[i - 1])]
    OBVIOUS
  <2> QED
    BY <2>1
<1>4. ASSUME NEW k \in Nat, k \in Good
      PROVE  k + 1 \in Good
  <2> SUFFICES \E m : m = [i \in 0 .. k + 1 |-> IF i = 0 THEN first ELSE ParsePhase(m[i - 1])]
    <3>1. k + 1 \in Nat
      OBVIOUS
    <3> QED
      BY <3>1, Zenon
  <2>1. PICK g : g = [i \in 0 .. k |-> IF i = 0 THEN first ELSE ParsePhase(g[i - 1])]
    BY <1>4
  <2> DEFINE h == [i \in 0 .. k + 1 |-> IF i <= k THEN g[i] ELSE ParsePhase(g[k])]
  <2>2. h = [i \in 0 .. k + 1 |-> IF i = 0 THEN first ELSE ParsePhase(h[i - 1])]
    <3> SUFFICES ASSUME NEW i \in 0 .. k + 1
                 PROVE  h[i] = IF i = 0 THEN first ELSE ParsePhase(h[i - 1])
      OBVIOUS
    <3>1. CASE i <= k
      BY <2>1, <3>1
    <3>2. CASE i = k + 1
      BY <3>2
    <3> QED
      BY <3>1, <3>2
  <2> QED
    BY <2>2
<1>5. n \in Good
  <2> HIDE DEF Good
  <2>1. Nat \subseteq Good
    BY <1>3, <1>4, NatSetInduction
  <2> QED
    BY <1>2, <2>1
<1>6. after = [i \in 0 .. n |-> IF i = 0 THEN first ELSE ParsePhase(after[i - 1])]
  <2>1. \E g : g = [i \in 0 .. n |-> IF i = 0 THEN first ELSE ParsePhase(g[i - 1])]
    BY <1>5, Zenon
  <2> QED
    BY <2>1, Zenon
<1> HIDE DEF after, Good
<1>7. after[0] = first /\ \A i \in 1 .. n : after[i] = ParsePhase(after[i - 1])
  <2>1. 0 \in 0 .. n /\ \A i \in 1 .. n : i \in 0 .. n /\ i # 0
    BY <1>2
  <2>2. \A i \in 0 .. n : after[i] = IF i = 0 THEN first ELSE ParsePhase(after[i - 1])
    BY <1>6, Zenon
  <2> QED
    BY <2>1, <2>2, Zenon
<1> QED
  BY <1>1, <1>7 DEF first, InTurn

\* However the stream is cut: a chunk that goes on where the decoder is brings
\* it to the chunk's end, unless there is an error, and what the sink has are
\* the first bytes of what it is to have in any case.
LEMMA ChunkDecoded ==
    ASSUME NEW F \in Seq(Bytes), NEW B \in Seq(Bytes), NEW fs \in Seq(FrameInfo), IsLayout(F, fs, B),
           NEW d \in Decoders, NEW s \in SinkStates, SinkFits(s), s.state = "good",
           NEW g \in Nat, NEW e \in Nat, g <= e, e <= Len(F), IsAt(d, s.data, F, fs, B, g),
           NEW r, r = ProcessBuffer(d, s, Piece(F, g, e))
    PROVE  /\ r.decoder \in Decoders /\ r.sink \in SinkStates /\ SinkFits(r.sink)
           /\ Starts(r.sink.data, B) /\ Len(s.data) <= Len(r.sink.data)
           /\ ~ r.decoder.error => r.sink.state = "good" /\ IsAt(r.decoder, r.sink.data, F, fs, B, e)
<1> DEFINE chunk == Piece(F, g, e)
           least == Len(s.data)
           n == Len(chunk)
           first == [decoder |-> d, sink |-> s, chunk |-> chunk]
<1>1. chunk \in Seq(Bytes) /\ n \in Nat
  BY PieceProperties, LenProperties
<1>2. least \in Nat
  BY LenProperties DEF SinkStates
<1>3. Within(first, F, fs, B, e, least)
  <2>1. least <= Len(s.data)
    BY <1>2
  <2> HIDE DEF least
  <2> QED
    BY <1>2, <2>1, GoesOnWithin
<1> HIDE DEF chunk, least
<1>a. PICK after : InTurn(after, d, s, chunk)
  BY <1>1, PhasesInTurn
<1>4. /\ after[0] = [decoder |-> d, sink |-> s, chunk |-> chunk]
      /\ \A i \in 1 .. Len(chunk) : after[i] = ParsePhase(after[i - 1])
      /\ ProcessBuffer(d, s, chunk) = after[Len(chunk)]
  BY <1>a DEF InTurn
<1> HIDE DEF n
<1> DEFINE Done == {k \in Nat : k <= n => /\ Within(after[k], F, fs, B, e, least)
                                          /\ after[k].decoder.error \/ Len(after[k].chunk) <= n - k}
<1>5. 0 \in Done
  <2>1. after[0].chunk = chunk
    BY <1>4
  <2>2. Within(after[0], F, fs, B, e, least)
    BY <1>3, <1>4
  <2>3. Len(after[0].chunk) <= n - 0
    BY <1>1, <2>1 DEF n
  <2> QED
    BY <2>2, <2>3
<1>6. ASSUME NEW k \in Nat, k \in Done
      PROVE  k + 1 \in Done
  <2> SUFFICES ASSUME k + 1 <= n
               PROVE  /\ Within(after[k + 1], F, fs, B, e, least)
                      /\ after[k + 1].decoder.error \/ Len(after[k + 1].chunk) <= n - (k + 1)
    OBVIOUS
  <2>1. Within(after[k], F, fs, B, e, least) /\ (after[k].decoder.error \/ Len(after[k].chunk) <= n - k)
    BY <1>1, <1>6
  <2>2. after[k + 1] = ParsePhase(after[k])
    <3>1. k + 1 \in 1 .. Len(chunk) /\ (k + 1) - 1 = k
      BY <1>1 DEF n
    <3>2. after[k + 1] = ParsePhase(after[(k + 1) - 1])
      BY <1>4, <3>1, Zenon
    <3> QED
      BY <3>1, <3>2, Zenon
  <2> DEFINE x == after[k]
             y == after[k + 1]
  <2> HIDE DEF x, y
  <2>3. /\ Within(ParsePhase(x), F, fs, B, e, least)
        /\ x.decoder.error \/ Len(x.chunk) = 0 \/ Len(ParsePhase(x).chunk) < Len(x.chunk)
    BY <1>2, <2>1, PhaseStep DEF x
  <2>4. y = ParsePhase(x)
    BY <2>2 DEF x, y
  <2>5. x.decoder.error \/ Len(x.chunk) = 0 => y = x
    BY <2>4 DEF ParsePhase
  <2>6. x.chunk \in Seq(Bytes) /\ y.chunk \in Seq(Bytes)
    BY <2>1, <2>3, <2>4 DEF Within, Parsing, x
  <2>7. Len(x.chunk) \in Nat /\ Len(y.chunk) \in Nat
    BY <2>6, LenProperties
  <2>8. y.decoder.error \/ Len(y.chunk) <= n - (k + 1)
    <3>1. CASE x.decoder.error
      BY <2>5, <3>1
    <3>2. CASE Len(x.chunk) = 0
      <4>1. Len(y.chunk) = 0
        BY <2>5, <3>2
      <4> QED
        BY <1>1, <4>1
    <3>3. CASE ~ x.decoder.error /\ Len(y.chunk) < Len(x.chunk)
      <4>1. Len(x.chunk) <= n - k
        BY <2>1, <3>3 DEF x
      <4> QED
        BY <1>1, <2>7, <3>3, <4>1
    <3> QED
      BY <2>3, <2>4, <3>1, <3>2, <3>3
  <2> QED
    BY <2>3, <2>4, <2>8 DEF y
<1>7. n \in Done
  <2> HIDE DEF Done
  <2>1. Nat \subseteq Done
    BY <1>5, <1>6, NatSetInduction
  <2> QED
    BY <1>1, <2>1
<1>8. r = after[n]
  BY <1>4 DEF chunk, n
<1>9. Within(r, F, fs, B, e, least) /\ (r.decoder.error \/ Len(r.chunk) <= 0)
  BY <1>1, <1>7, <1>8
<1>10. ASSUME ~ r.decoder.error
       PROVE  r.sink.state = "good" /\ IsAt(r.decoder, r.sink.data, F, fs, B, e)
  <2>1. r.sink.state = "good"
    BY <1>9, <1>10 DEF Within
  <2>2. PICK h \in 0 .. e : r.chunk = Piece(F, h, e) /\ IsAt(r.decoder, r.sink.data, F, fs, B, h)
    BY ONLY <1>9, <1>10 DEF Within
  <2>a. h \in Nat /\ h <= e
    OBVIOUS
  <2>3. Len(Piece(F, h, e)) = e - h
    BY ONLY <2>a, F \in Seq(Bytes), e \in Nat, e <= Len(F), PieceProperties
  <2>4. Len(r.chunk) <= 0
    BY <1>9, <1>10
  <2>5. h = e
    BY <2>2, <2>3, <2>4
  <2> QED
    BY <2>1, <2>2, <2>5
<1>11. r \in Parsing
  BY <1>9 DEF Within
<1>12. r.decoder \in Decoders /\ r.sink \in SinkStates
  BY <1>11 DEF Parsing
<1> QED
  BY <1>9, <1>10, <1>12 DEF Within, least

\* A frame at its place in a stream.
Holds(F, start, type, payload, check) ==
    /\ F[start + 1].value = type
    /\ F[start + 2].value = Len(payload) + OffsetLen
    /\ \A i \in 1 .. Len(payload) : F[start + 2 + i] = payload[i]
    /\ F[start + Len(payload) + 4].value = check

Check(payload, checked) == IF checked THEN Checksum(EmptyChecksum, payload) ELSE 0

LEMMA FrameShape ==
    ASSUME NEW type \in Nat, NEW payload \in Seq(Bytes), NEW checked \in BOOLEAN
    PROVE  /\ Frame(type, payload, checked) \in Seq(Bytes)
           /\ Len(Frame(type, payload, checked)) = Len(payload) + 4
           /\ Holds(Frame(type, payload, checked), 0, type, payload, Check(payload, checked))
<1> DEFINE n == Len(payload)
           crc == Check(payload, checked)
           head == <<Byte(type), Byte(n + OffsetLen)>>
           tail == <<Byte(0), Byte(crc)>>
           some == head \o payload
           all == some \o tail
<1>1. n \in Nat /\ crc \in Nat
  <2>1. Checksum(EmptyChecksum, payload) \in Nat
    BY ChecksumType DEF EmptyChecksum
  <2> QED
    BY <2>1, LenProperties DEF Check
<1>2. Frame(type, payload, checked) = all
  BY DEF Frame, Check
<1> HIDE DEF n, crc
<1>3. /\ head \in Seq(Bytes) /\ Len(head) = 2 /\ head[1].value = type /\ head[2].value = n + OffsetLen
      /\ tail \in Seq(Bytes) /\ Len(tail) = 2 /\ tail[2].value = crc
  <2>1. Byte(type) \in Bytes /\ Byte(n + OffsetLen) \in Bytes /\ Byte(0) \in Bytes /\ Byte(crc) \in Bytes
    BY <1>1 DEF Byte, Bytes, OffsetLen
  <2>2. Byte(type).value = type /\ Byte(n + OffsetLen).value = n + OffsetLen /\ Byte(crc).value = crc
    BY DEF Byte
  <2> DEFINE a == Byte(type)
             b == Byte(n + OffsetLen)
             c == Byte(0)
             d == Byte(crc)
  <2> HIDE DEF a, b, c, d
  <2>3. a \in Bytes /\ b \in Bytes /\ c \in Bytes /\ d \in Bytes
    BY <2>1 DEF a, b, c, d
  <2>4. <<a, b>> \in Seq(Bytes) /\ Len(<<a, b>>) = 2 /\ <<c, d>> \in Seq(Bytes) /\ Len(<<c, d>>) = 2
    BY <2>3
  <2>5. <<a, b>>[1] = a /\ <<a, b>>[2] = b /\ <<c, d>>[2] = d
    OBVIOUS
  <2> QED
    BY <2>2, <2>4, <2>5 DEF a, b, c, d
<1> HIDE DEF head, tail
<1>4. /\ some \in Seq(Bytes) /\ Len(some) = 2 + n
      /\ \A i \in 1 .. 2 + n : some[i] = IF i <= 2 THEN head[i] ELSE payload[i - 2]
  <2>1. /\ some \in Seq(Bytes) /\ Len(some) = Len(head) + Len(payload)
        /\ \A i \in 1 .. Len(head) + Len(payload) : some[i] = IF i <= Len(head) THEN head[i] ELSE payload[i - Len(head)]
    BY <1>3, ConcatProperties
  <2>2. Len(payload) = n
    BY DEF n
  <2> HIDE DEF some
  <2> QED
    BY ONLY <1>3, <2>1, <2>2
<1> HIDE DEF some
<1>5. /\ all \in Seq(Bytes) /\ Len(all) = (2 + n) + 2
      /\ \A i \in 1 .. (2 + n) + 2 : all[i] = IF i <= 2 + n THEN some[i] ELSE tail[i - (2 + n)]
  <2>1. /\ all \in Seq(Bytes) /\ Len(all) = Len(some) + Len(tail)
        /\ \A i \in 1 .. Len(some) + Len(tail) : all[i] = IF i <= Len(some) THEN some[i] ELSE tail[i - Len(some)]
    BY <1>3, <1>4, ConcatProperties
  <2> HIDE DEF all
  <2> QED
    BY ONLY <1>3, <1>4, <2>1
<1> HIDE DEF all
<1>6. all[0 + 1].value = type /\ all[0 + 2].value = n + OffsetLen
  <2>1. 1 \in 1 .. (2 + n) + 2 /\ 1 <= 2 + n /\ 1 \in 1 .. 2 + n /\ 2 \in 1 .. (2 + n) + 2 /\ 2 <= 2 + n /\ 2 \in 1 .. 2 + n
    BY <1>1
  <2>2. all[1] = head[1] /\ all[2] = head[2]
    BY <1>4, <1>5, <2>1
  <2> QED
    BY <1>3, <2>2
<1>7. \A i \in 1 .. n : all[0 + 2 + i] = payload[i]
  <2> TAKE i \in 1 .. n
  <2>1. 2 + i \in 1 .. (2 + n) + 2 /\ 2 + i <= 2 + n /\ 2 + i \in 1 .. 2 + n /\ ~ (2 + i <= 2) /\ (2 + i) - 2 = i /\ 0 + 2 + i = 2 + i
    BY <1>1
  <2> QED
    BY <1>4, <1>5, <2>1
<1>8. all[0 + n + 4].value = crc
  <2>1. /\ 0 + n + 4 = (2 + n) + 2 /\ (2 + n) + 2 \in 1 .. (2 + n) + 2
        /\ ~ ((2 + n) + 2 <= 2 + n) /\ ((2 + n) + 2) - (2 + n) = 2
    BY <1>1
  <2>2. all[(2 + n) + 2] = tail[2]
    BY <1>5, <2>1
  <2> QED
    BY <1>3, <2>1, <2>2
<1>9. Len(all) = n + 4
  BY <1>1, <1>5
<1> QED
  BY <1>2, <1>5, <1>6, <1>7, <1>8, <1>9 DEF Holds, n, crc

\* A frame stays what it is with others before or after it.
LEMMA HoldsBefore ==
    ASSUME NEW F \in Seq(Bytes), NEW G \in Seq(Bytes), NEW start \in Nat, NEW type,
           NEW payload \in Seq(Bytes), NEW check,
           start + Len(payload) + 4 <= Len(F), Holds(F, start, type, payload, check)
    PROVE  Holds(F \o G, start, type, payload, check)
<1> DEFINE both == F \o G
           n == Len(payload)
<1>1. Len(F) \in Nat /\ Len(G) \in Nat /\ n \in Nat /\ start + n + 4 <= Len(F)
  BY LenProperties
<1>2. \A i \in 1 .. Len(F) : both[i] = F[i]
  <2>1. \A i \in 1 .. Len(F) + Len(G) : both[i] = IF i <= Len(F) THEN F[i] ELSE G[i - Len(F)]
    BY ConcatProperties
  <2> QED
    BY <1>1, <2>1
<1> HIDE DEF both, n
<1>3. /\ start + 1 \in 1 .. Len(F) /\ start + 2 \in 1 .. Len(F) /\ start + n + 4 \in 1 .. Len(F)
      /\ \A i \in 1 .. n : start + 2 + i \in 1 .. Len(F)
  BY <1>1
<1>4. /\ F[start + 1].value = type /\ F[start + 2].value = n + OffsetLen
      /\ \A i \in 1 .. n : F[start + 2 + i] = payload[i]
      /\ F[start + n + 4].value = check
  BY DEF Holds, n
<1>5. /\ both[start + 1].value = type /\ both[start + 2].value = n + OffsetLen
      /\ both[start + n + 4].value = check
  BY <1>2, <1>3, <1>4
<1>6. \A i \in 1 .. n : both[start + 2 + i] = payload[i]
  BY <1>2, <1>3, <1>4
<1> QED
  BY <1>5, <1>6 DEF Holds, both, n

LEMMA HoldsAfter ==
    ASSUME NEW F \in Seq(Bytes), NEW G \in Seq(Bytes), NEW type, NEW payload \in Seq(Bytes), NEW check,
           Len(G) = Len(payload) + 4, Holds(G, 0, type, payload, check)
    PROVE  Holds(F \o G, Len(F), type, payload, check)
<1> DEFINE both == F \o G
           n == Len(payload)
           m == Len(F)
<1>1. m \in Nat /\ Len(G) \in Nat /\ n \in Nat /\ Len(G) = n + 4
  BY LenProperties
<1>2. \A i \in 1 .. Len(G) : both[m + i] = G[i]
  <2>1. \A i \in 1 .. m + Len(G) : both[i] = IF i <= m THEN F[i] ELSE G[i - m]
    BY ConcatProperties
  <2> HIDE DEF both, m
  <2> TAKE i \in 1 .. Len(G)
  <2>2. m + i \in 1 .. m + Len(G) /\ ~ (m + i <= m) /\ (m + i) - m = i
    BY <1>1
  <2> QED
    BY <2>1, <2>2
<1> HIDE DEF both, n, m
<1>3. /\ G[0 + 1].value = type /\ G[0 + 2].value = n + OffsetLen
      /\ \A i \in 1 .. n : G[0 + 2 + i] = payload[i]
      /\ G[0 + n + 4].value = check
  BY DEF Holds, n
<1>4. both[m + 1].value = type /\ both[m + 2].value = n + OffsetLen
  <2>1. 1 \in 1 .. Len(G) /\ 2 \in 1 .. Len(G)
    BY <1>1
  <2> QED
    BY <1>2, <1>3, <2>1
<1>5. both[m + n + 4].value = check
  <2>1. n + 4 \in 1 .. Len(G) /\ m + (n + 4) = m + n + 4 /\ 0 + n + 4 = n + 4
    BY <1>1
  <2> QED
    BY <1>2, <1>3, <2>1
<1>6. \A i \in 1 .. n : both[m + 2 + i] = payload[i]
  <2> TAKE i \in 1 .. n
  <2>1. 2 + i \in 1 .. Len(G) /\ m + (2 + i) = m + 2 + i /\ 0 + 2 + i = 2 + i
    BY <1>1
  <2> QED
    BY <1>2, <1>3, <2>1
<1> QED
  BY <1>4, <1>5, <1>6 DEF Holds, both, n, m

\* What spoiling the third byte of a stream does to its first frame, and that
\* it does nothing to another.
LEMMA SpoiltFrame ==
    ASSUME NEW F \in Seq(Bytes), NEW type, NEW payload \in Seq(Bytes), NEW check,
           Len(payload) >= 1, Len(payload) + 4 <= Len(F), Holds(F, 0, type, payload, check)
    PROVE  Holds([F EXCEPT ![HeaderLen + 1] = Byte(0)], 0, type, [payload EXCEPT ![1] = Byte(0)], check)
<1> DEFINE G == [F EXCEPT ![3] = Byte(0)]
           wrong == [payload EXCEPT ![1] = Byte(0)]
           n == Len(payload)
<1>1. n \in Nat /\ n >= 1 /\ DOMAIN payload = 1 .. n /\ Len(F) \in Nat /\ n + 4 <= Len(F) /\ DOMAIN F = 1 .. Len(F)
  BY LenProperties
<1>2. wrong \in Seq(Bytes) /\ Len(wrong) = n /\ \A i \in 1 .. n : wrong[i] = IF i = 1 THEN Byte(0) ELSE payload[i]
  <2>1. Byte(0) \in Bytes
    BY DEF Byte, Bytes
  <2>2. 1 \in 1 .. Len(payload)
    BY <1>1
  <2>3. wrong \in Seq(Bytes) /\ Len(wrong) = n
    BY <2>1, <2>2, ExceptSeq
  <2> QED
    BY <1>1, <2>3
<1>3. \A i \in 1 .. Len(F) : G[i] = IF i = 3 THEN Byte(0) ELSE F[i]
  BY <1>1
<1> HIDE DEF G, wrong, n
<1>4. /\ F[0 + 1].value = type /\ F[0 + 2].value = n + OffsetLen
      /\ \A i \in 1 .. n : F[0 + 2 + i] = payload[i]
      /\ F[0 + n + 4].value = check
  BY DEF Holds, n
<1>5. G[0 + 1].value = type /\ G[0 + 2].value = n + OffsetLen /\ G[0 + n + 4].value = check
  <2>1. /\ 1 \in 1 .. Len(F) /\ 2 \in 1 .. Len(F) /\ n + 4 \in 1 .. Len(F)
        /\ 1 # 3 /\ 2 # 3 /\ n + 4 # 3 /\ 0 + n + 4 = n + 4
    BY <1>1
  <2> QED
    BY <1>3, <1>4, <2>1
<1>6. \A i \in 1 .. n : G[0 + 2 + i] = wrong[i]
  <2> TAKE i \in 1 .. n
  <2>1. 0 + 2 + i = 2 + i /\ 2 + i \in 1 .. Len(F) /\ (2 + i = 3 <=> i = 1)
    BY <1>1
  <2> QED
    BY <1>2, <1>3, <1>4, <2>1
<1>7. Holds(G, 0, type, wrong, check)
  BY <1>2, <1>5, <1>6 DEF Holds
<1> QED
  BY <1>7 DEF G, wrong, HeaderLen

LEMMA OtherFrameHolds ==
    ASSUME NEW F \in Seq(Bytes), NEW start \in Nat, start >= 5, NEW type, NEW payload \in Seq(Bytes), NEW check,
           start + Len(payload) + 4 <= Len(F), Holds(F, start, type, payload, check)
    PROVE  Holds([F EXCEPT ![HeaderLen + 1] = Byte(0)], start, type, payload, check)
<1> DEFINE G == [F EXCEPT ![3] = Byte(0)]
           n == Len(payload)
<1>1. n \in Nat /\ Len(F) \in Nat /\ start + n + 4 <= Len(F) /\ DOMAIN F = 1 .. Len(F)
  BY LenProperties
<1>2. \A i \in 1 .. Len(F) : i # 3 => G[i] = F[i]
  BY <1>1
<1> HIDE DEF G, n
<1>3. /\ F[start + 1].value = type /\ F[start + 2].value = n + OffsetLen
      /\ \A i \in 1 .. n : F[start + 2 + i] = payload[i]
      /\ F[start + n + 4].value = check
  BY DEF Holds, n
<1>4. /\ start + 1 \in 1 .. Len(F) /\ start + 2 \in 1 .. Len(F) /\ start + n + 4 \in 1 .. Len(F)
      /\ start + 1 # 3 /\ start + 2 # 3 /\ start + n + 4 # 3
      /\ \A i \in 1 .. n : start + 2 + i \in 1 .. Len(F) /\ start + 2 + i # 3
  BY <1>1
<1>5. G[start + 1].value = type /\ G[start + 2].value = n + OffsetLen /\ G[start + n + 4].value = check
  BY <1>2, <1>3, <1>4
<1>6. \A i \in 1 .. n : G[start + 2 + i] = payload[i]
  BY <1>2, <1>3, <1>4
<1>7. Holds(G, start, type, payload, check)
  BY <1>5, <1>6 DEF Holds, n
<1> QED
  BY <1>7 DEF G, HeaderLen

\* What a layout says of a frame that is at its place.
LaidAt(F, f, start, type, len, lo, payload, check) ==
    /\ f \in FrameInfo /\ f.start = start /\ f.type = type /\ f.len = len /\ f.lo = lo
    /\ EndOf(f) = start + len + 4
    /\ F[f.start + 1].value = f.type /\ F[f.start + 2].value = f.len + OffsetLen
    /\ FramePayload(F, f, f.len) = payload /\ F[EndOf(f)].value = check
LEMMA FrameLaid ==
    ASSUME NEW F \in Seq(Bytes), NEW start \in Nat, NEW type \in Nat, NEW payload \in Seq(Bytes), NEW check,
           NEW lo \in Nat, NEW len \in Nat, len = Len(payload),
           start + len + 4 <= Len(F), Holds(F, start, type, payload, check)
    PROVE  LaidAt(F, FrameOf(start, type, len, lo), start, type, len, lo, payload, check)
<1> DEFINE f == FrameOf(start, type, len, lo)
<1>1. f \in FrameInfo /\ f.start = start /\ f.type = type /\ f.len = len /\ f.lo = lo
  BY DEF FrameInfo, FrameOf
<1> HIDE DEF f
<1>2. EndOf(f) = start + len + 4
  BY <1>1 DEF EndOf
<1>3. F[start + 1].value = type /\ F[start + 2].value = len + OffsetLen /\ F[start + len + 4].value = check
  BY DEF Holds
<1>4. FramePayload(F, f, len) = payload
  <2> DEFINE m == start + 2
             n == start + 2 + len
  <2>1. FramePayload(F, f, len) = Piece(F, m, n)
    BY <1>1 DEF FramePayload, HeaderLen
  <2>2. m \in Nat /\ n \in Nat /\ m <= n /\ n <= Len(F) /\ n - m = len
    BY LenProperties
  <2>3. \A i \in 1 .. len : F[m + i] = payload[i]
    BY DEF Holds
  <2> HIDE DEF m, n
  <2>4. /\ Piece(F, m, n) \in Seq(Bytes) /\ Len(Piece(F, m, n)) = n - m
        /\ \A i \in 1 .. n - m : Piece(F, m, n)[i] = F[m + i]
    <3>1. PieceFacts(Bytes, F, m, n)
      BY ONLY F \in Seq(Bytes), <2>2, PieceIs
    <3> QED
      BY <3>1 DEF PieceFacts
  <2>5. Len(Piece(F, m, n)) = Len(payload) /\ \A i \in 1 .. Len(payload) : Piece(F, m, n)[i] = payload[i]
    BY <2>2, <2>3, <2>4
  <2>6. Piece(F, m, n) = payload
    BY <2>4, <2>5, SameSequence
  <2> QED
    BY <2>1, <2>6
<1>5. LaidAt(F, f, start, type, len, lo, payload, check)
  BY <1>1, <1>2, <1>3, <1>4 DEF LaidAt
<1> QED
  BY <1>5 DEF f

\* The stream is laid out, with this payload and checksum in its first frame.
Laid(F, B, first, check) ==
    \E fs \in Layouts(Len(B)) :
        /\ fs \in Seq(FrameInfo) /\ IsLayout(F, fs, B)
        /\ FramePayload(F, fs[1], fs[1].len) = first /\ F[EndOf(fs[1])].value = check

LEMMA OneFrameLaid ==
    ASSUME NEW F \in Seq(Bytes), NEW B \in Seq(Bytes), Len(B) >= 1, Len(F) = Len(B) + 9,
           NEW c, Holds(F, 0, DataFrame, B, c),
           NEW x \in Seq(Bytes), Len(x) = 1, NEW y, Holds(F, Len(B) + 4, EndFrame, x, y)
    PROVE  Laid(F, B, B, c)
<1> DEFINE n == Len(B)
           m == n + 4
           f1 == FrameOf(0, DataFrame, n, 0)
           f2 == FrameOf(m, EndFrame, 1, n)
           fs == <<f1, f2>>
<1>1. n \in Nat /\ n >= 1 /\ Len(F) = n + 9 /\ m \in Nat /\ m = n + 4 /\ DataFrame = 11 /\ EndFrame = 15
  BY LenProperties DEF DataFrame, EndFrame
<1>2. /\ f1 \in FrameInfo /\ f1.start = 0 /\ f1.type = DataFrame /\ f1.len = n /\ f1.lo = 0
      /\ EndOf(f1) = m
      /\ F[f1.start + 1].value = f1.type /\ F[f1.start + 2].value = f1.len + OffsetLen
      /\ FramePayload(F, f1, f1.len) = B /\ F[EndOf(f1)].value = c
  <2>1. 0 + n + 4 = m /\ m <= Len(F) /\ DataFrame \in Nat
    BY <1>1
  <2>2. LaidAt(F, FrameOf(0, DataFrame, n, 0), 0, DataFrame, n, 0, B, c)
    <3> HIDE DEF m
    <3> QED
      BY <1>1, <2>1, FrameLaid
  <2> HIDE DEF m
  <2> QED
    BY <1>1, <2>1, <2>2, Zenon DEF LaidAt, f1
<1>3. /\ f2 \in FrameInfo /\ f2.start = m /\ f2.type = EndFrame /\ f2.len = 1 /\ f2.lo = n
      /\ EndOf(f2) = n + 9
      /\ F[f2.start + 1].value = f2.type /\ F[f2.start + 2].value = f2.len + OffsetLen
  <2>1. m + 1 + 4 = n + 9 /\ n + 9 <= Len(F) /\ EndFrame \in Nat /\ Holds(F, m, EndFrame, x, y)
    BY <1>1
  <2>2. LaidAt(F, FrameOf(m, EndFrame, 1, n), m, EndFrame, 1, n, x, y)
    <3> HIDE DEF m
    <3> QED
      BY <1>1, <2>1, FrameLaid
  <2> HIDE DEF m
  <2> QED
    BY <1>1, <2>1, <2>2, Zenon DEF LaidAt, f2
<1> HIDE DEF m, f1, f2
<1>4. ShownBy(f1) = n /\ ShownBy(f2) = n
  BY <1>1, <1>2, <1>3 DEF ShownBy
<1>5. FramePayload(F, f1, f1.len) = Piece(B, f1.lo, f1.lo + f1.len)
  <2>1. Piece(B, 0, n) = B
    BY FullPiece
  <2>2. f1.lo + f1.len = n
    BY <1>1, <1>2
  <2> QED
    BY <1>2, <2>1, <2>2
<1>6. fs \in Seq(FrameInfo) /\ Len(fs) = 2 /\ fs[1] = f1 /\ fs[2] = f2
  BY <1>2, <1>3
<1>7. fs \in Layouts(Len(B))
  BY DEF Layouts, f1, f2, m
<1> HIDE DEF fs, n
<1>8. IsLayout(F, fs, B)
  <2>1. Len(B) = n
    BY DEF n
  <2>2. /\ EndOf(f1) <= Len(F) /\ ShownBy(f1) <= n /\ n - ShownBy(f1) <= Len(F) - EndOf(f1)
        /\ EndOf(f2) = Len(F) /\ EndOf(f2) <= Len(F) /\ ShownBy(f2) <= n /\ ShownBy(f2) = n
        /\ n - ShownBy(f2) <= Len(F) - EndOf(f2)
    <3>1. ShownBy(f1) = n /\ ShownBy(f2) = n /\ n <= n /\ n - n = 0 /\ n \in Nat
      BY <1>1, <1>4
    <3>2. EndOf(f1) <= Len(F) /\ EndOf(f2) = Len(F) /\ 0 <= Len(F) - EndOf(f1) /\ 0 <= Len(F) - EndOf(f2)
          /\ EndOf(f2) <= Len(F)
      BY <1>1, <1>2, <1>3
    <3> QED
      BY ONLY <3>1, <3>2
  <2>3. f2.type # DataFrame /\ f2.start = EndOf(f1) /\ f2.lo = ShownBy(f1)
    BY <1>1, <1>2, <1>3, <1>4
  <2>4. \A k \in 1 .. 2 : k = 1 \/ k = 2
    OBVIOUS
  <2>5. Len(fs) >= 1 /\ fs[1].start = 0 /\ fs[1].lo = 0
    BY <1>2, <1>6
  <2> SUFFICES ASSUME NEW k \in 1 .. Len(fs)
               PROVE  /\ EndOf(fs[k]) <= Len(F) /\ ShownBy(fs[k]) <= Len(B)
                      /\ Len(B) - ShownBy(fs[k]) <= Len(F) - EndOf(fs[k])
                      /\ F[fs[k].start + 1].value = fs[k].type
                      /\ F[fs[k].start + 2].value = fs[k].len + OffsetLen
                      /\ fs[k].type = DataFrame => FramePayload(F, fs[k], fs[k].len) = Piece(B, fs[k].lo, fs[k].lo + fs[k].len)
                      /\ IF k < Len(fs)
                         THEN fs[k + 1].start = EndOf(fs[k]) /\ fs[k + 1].lo = ShownBy(fs[k])
                         ELSE EndOf(fs[k]) = Len(F) /\ ShownBy(fs[k]) = Len(B)
    BY <2>5 DEF IsLayout
  <2>6. CASE k = 1
    <3>1. k < Len(fs) /\ fs[k + 1] = f2 /\ fs[k] = f1
      BY <1>6, <2>6
    <3> QED
      BY <1>2, <1>5, <2>1, <2>2, <2>3, <3>1
  <2>7. CASE k = 2
    <3>1. ~ (k < Len(fs)) /\ fs[k] = f2
      BY <1>6, <2>7
    <3> QED
      BY <1>3, <2>1, <2>2, <2>3, <3>1
  <2> QED
    BY <1>6, <2>4, <2>6, <2>7
<1> QED
  BY <1>2, <1>6, <1>7, <1>8 DEF Laid

LEMMA TwoFramesLaid ==
    ASSUME NEW F \in Seq(Bytes), NEW B \in Seq(Bytes), Len(B) >= 1, Len(F) = Len(B) + 17,
           NEW c, Holds(F, 0, DataFrame, Piece(B, 0, 1), c),
           NEW z \in Seq(Bytes), Len(z) = 0, NEW c2, Holds(F, 5, ContinuousFrame, z, c2),
           NEW c3, Holds(F, 9, DataFrame, Piece(B, 1, Len(B)), c3),
           NEW x \in Seq(Bytes), Len(x) = 1, NEW y, Holds(F, Len(B) + 12, EndFrame, x, y)
    PROVE  Laid(F, B, Piece(B, 0, 1), c)
<1> DEFINE n == Len(B)
           l == n - 1
           m == n + 12
           p1 == Piece(B, 0, 1)
           p3 == Piece(B, 1, n)
           f1 == FrameOf(0, DataFrame, 1, 0)
           f2 == FrameOf(5, ContinuousFrame, 0, 1)
           f3 == FrameOf(9, DataFrame, l, 1)
           f4 == FrameOf(m, EndFrame, 1, n)
           fs == <<f1, f2, f3, f4>>
<1>1. /\ n \in Nat /\ n >= 1 /\ Len(F) = n + 17 /\ m \in Nat /\ m = n + 12 /\ l \in Nat /\ l = n - 1 /\ 1 + l = n
      /\ DataFrame = 11 /\ EndFrame = 15 /\ ContinuousFrame = 14
  BY LenProperties DEF DataFrame, EndFrame, ContinuousFrame
<1>2. p1 \in Seq(Bytes) /\ Len(p1) = 1 /\ p3 \in Seq(Bytes) /\ Len(p3) = l
  <2>1. 0 \in Nat /\ 1 \in Nat /\ 0 <= 1 /\ 1 <= n /\ n <= Len(B) /\ 1 - 0 = 1 /\ n \in Nat
    BY <1>1
  <2>2. p3 \in Seq(Bytes) /\ Len(p3) = n - 1
    <3> DEFINE b == 1
    <3>1. b \in Nat /\ n \in Nat /\ b <= n /\ n <= Len(B)
      BY <2>1
    <3> HIDE DEF b, n
    <3>2. Piece(B, b, n) \in Seq(Bytes) /\ Len(Piece(B, b, n)) = n - b
      BY <3>1, PieceProperties
    <3> QED
      BY <3>2 DEF b
  <2>3. p1 \in Seq(Bytes) /\ Len(p1) = 1 - 0
    <3> DEFINE a == 0
               b == 1
    <3>1. a \in Nat /\ b \in Nat /\ a <= b /\ b <= Len(B)
      BY <2>1
    <3> HIDE DEF a, b
    <3>2. Piece(B, a, b) \in Seq(Bytes) /\ Len(Piece(B, a, b)) = b - a
      BY <3>1, PieceProperties
    <3> QED
      BY <3>2 DEF a, b
  <2> QED
    BY <2>2, <2>3
<1> HIDE DEF l, p1, p3
<1>3. /\ f1 \in FrameInfo /\ f1.start = 0 /\ f1.type = DataFrame /\ f1.len = 1 /\ f1.lo = 0
      /\ EndOf(f1) = 5
      /\ F[f1.start + 1].value = f1.type /\ F[f1.start + 2].value = f1.len + OffsetLen
      /\ FramePayload(F, f1, f1.len) = p1 /\ F[EndOf(f1)].value = c
  <2>1. 0 + 1 + 4 = 5 /\ 5 <= Len(F) /\ DataFrame \in Nat /\ Holds(F, 0, DataFrame, p1, c)
    BY <1>1 DEF p1
  <2>2. LaidAt(F, FrameOf(0, DataFrame, 1, 0), 0, DataFrame, 1, 0, p1, c)
    <3> DEFINE a == 0
               b == 1
    <3>1. a \in Nat /\ b \in Nat /\ b = Len(p1) /\ a + b + 4 <= Len(F) /\ Holds(F, a, DataFrame, p1, c)
      BY <1>2, <2>1
    <3> HIDE DEF a, b
    <3>2. LaidAt(F, FrameOf(a, DataFrame, b, a), a, DataFrame, b, a, p1, c)
      BY <1>2, <2>1, <3>1, FrameLaid
    <3> QED
      BY <3>2 DEF a, b
  <2> HIDE DEF m
  <2> QED
    BY <1>1, <2>1, <2>2, Zenon DEF LaidAt, f1
<1>4. /\ f2 \in FrameInfo /\ f2.start = 5 /\ f2.type = ContinuousFrame /\ f2.len = 0 /\ f2.lo = 1
      /\ EndOf(f2) = 9
      /\ F[f2.start + 1].value = f2.type /\ F[f2.start + 2].value = f2.len + OffsetLen
  <2>1. 5 + 0 + 4 = 9 /\ 9 <= Len(F) /\ ContinuousFrame \in Nat
    BY <1>1
  <2>2. LaidAt(F, FrameOf(5, ContinuousFrame, 0, 1), 5, ContinuousFrame, 0, 1, z, c2)
    <3> DEFINE a == 5
               b == 0
               d == 1
    <3>1. a \in Nat /\ b \in Nat /\ d \in Nat /\ b = Len(z) /\ a + b + 4 <= Len(F) /\ Holds(F, a, ContinuousFrame, z, c2)
      BY <2>1
    <3> HIDE DEF a, b, d
    <3>2. LaidAt(F, FrameOf(a, ContinuousFrame, b, d), a, ContinuousFrame, b, d, z, c2)
      BY <2>1, <3>1, FrameLaid
    <3> QED
      BY <3>2 DEF a, b, d
  <2> HIDE DEF m
  <2> QED
    BY <1>1, <2>1, <2>2, Zenon DEF LaidAt, f2
<1>5. /\ f3 \in FrameInfo /\ f3.start = 9 /\ f3.type = DataFrame /\ f3.len = l /\ f3.lo = 1
      /\ EndOf(f3) = m
      /\ F[f3.start + 1].value = f3.type /\ F[f3.start + 2].value = f3.len + OffsetLen
      /\ FramePayload(F, f3, f3.len) = p3
  <2>1. 9 + l + 4 = m /\ m <= Len(F) /\ DataFrame \in Nat /\ Holds(F, 9, DataFrame, p3, c3)
    BY <1>1 DEF p3
  <2>2. LaidAt(F, FrameOf(9, DataFrame, l, 1), 9, DataFrame, l, 1, p3, c3)
    <3> HIDE DEF m
    <3> QED
      BY <1>1, <2>1, <1>2, FrameLaid
  <2> HIDE DEF m
  <2> QED
    BY <1>1, <2>1, <2>2, Zenon DEF LaidAt, f3
<1>6. /\ f4 \in FrameInfo /\ f4.start = m /\ f4.type = EndFrame /\ f4.len = 1 /\ f4.lo = n
      /\ EndOf(f4) = n + 17
      /\ F[f4.start + 1].value = f4.type /\ F[f4.start + 2].value = f4.len + OffsetLen
  <2>1. m + 1 + 4 = n + 17 /\ n + 17 <= Len(F) /\ EndFrame \in Nat /\ Holds(F, m, EndFrame, x, y)
    BY <1>1
  <2>2. LaidAt(F, FrameOf(m, EndFrame, 1, n), m, EndFrame, 1, n, x, y)
    <3> HIDE DEF m
    <3> QED
      BY <1>1, <2>1, FrameLaid
  <2> HIDE DEF m
  <2> QED
    BY <1>1, <2>1, <2>2, Zenon DEF LaidAt, f4
<1> HIDE DEF m, f1, f2, f3, f4
<1>7. ShownBy(f1) = 1 /\ ShownBy(f2) = 1 /\ ShownBy(f3) = n /\ ShownBy(f4) = n
  BY <1>1, <1>3, <1>4, <1>5, <1>6 DEF ShownBy
<1>8. /\ FramePayload(F, f1, f1.len) = Piece(B, f1.lo, f1.lo + f1.len)
      /\ FramePayload(F, f3, f3.len) = Piece(B, f3.lo, f3.lo + f3.len)
  <2>1. f1.lo + f1.len = 1 /\ f3.lo + f3.len = n
    BY <1>1, <1>3, <1>5
  <2> QED
    BY <1>3, <1>5, <2>1 DEF p1, p3
<1>9. fs \in Seq(FrameInfo) /\ Len(fs) = 4 /\ fs[1] = f1 /\ fs[2] = f2 /\ fs[3] = f3 /\ fs[4] = f4
  BY <1>3, <1>4, <1>5, <1>6
<1>10. fs \in Layouts(Len(B))
  BY DEF Layouts, f1, f2, f3, f4, m, l
<1> HIDE DEF fs, n
<1>11. IsLayout(F, fs, B)
  <2>1. Len(B) = n
    BY DEF n
  <2>2. /\ EndOf(f1) <= Len(F) /\ ShownBy(f1) <= n /\ n - ShownBy(f1) <= Len(F) - EndOf(f1)
        /\ EndOf(f2) <= Len(F) /\ ShownBy(f2) <= n /\ n - ShownBy(f2) <= Len(F) - EndOf(f2)
        /\ EndOf(f3) <= Len(F) /\ ShownBy(f3) <= n /\ n - ShownBy(f3) <= Len(F) - EndOf(f3)
        /\ EndOf(f4) = Len(F) /\ EndOf(f4) <= Len(F) /\ ShownBy(f4) <= n /\ ShownBy(f4) = n
        /\ n - ShownBy(f4) <= Len(F) - EndOf(f4)
    <3>1. EndOf(f1) = 5 /\ EndOf(f2) = 9 /\ EndOf(f3) = m /\ EndOf(f4) = n + 17 /\ Len(F) = n + 17 /\ n \in Nat
          /\ n >= 1 /\ m = n + 12
      BY <1>1, <1>3, <1>4, <1>5, <1>6 DEF m, l
    <3>2. ShownBy(f1) = 1 /\ ShownBy(f2) = 1 /\ ShownBy(f3) = n /\ ShownBy(f4) = n
      BY <1>7
    <3> HIDE DEF m, n
    <3>3. /\ EndOf(f1) <= Len(F) /\ ShownBy(f1) <= n /\ n - ShownBy(f1) <= Len(F) - EndOf(f1)
          /\ EndOf(f2) <= Len(F) /\ ShownBy(f2) <= n /\ n - ShownBy(f2) <= Len(F) - EndOf(f2)
      BY ONLY <3>1, <3>2
    <3>4. /\ EndOf(f3) <= Len(F) /\ ShownBy(f3) <= n /\ n - ShownBy(f3) <= Len(F) - EndOf(f3)
          /\ EndOf(f4) = Len(F) /\ EndOf(f4) <= Len(F) /\ ShownBy(f4) <= n /\ ShownBy(f4) = n
          /\ n - ShownBy(f4) <= Len(F) - EndOf(f4)
      BY ONLY <3>1, <3>2
    <3> QED
      BY ONLY <3>3, <3>4
  <2>3. /\ f2.type # DataFrame /\ f4.type # DataFrame
        /\ f2.start = EndOf(f1) /\ f2.lo = ShownBy(f1)
        /\ f3.start = EndOf(f2) /\ f3.lo = ShownBy(f2)
        /\ f4.start = EndOf(f3) /\ f4.lo = ShownBy(f3)
    BY <1>1, <1>3, <1>4, <1>5, <1>6, <1>7
  <2>4. \A k \in 1 .. 4 : k = 1 \/ k = 2 \/ k = 3 \/ k = 4
    OBVIOUS
  <2>5. Len(fs) >= 1 /\ fs[1].start = 0 /\ fs[1].lo = 0
    BY <1>3, <1>9
  <2> SUFFICES ASSUME NEW k \in 1 .. Len(fs)
               PROVE  /\ EndOf(fs[k]) <= Len(F) /\ ShownBy(fs[k]) <= Len(B)
                      /\ Len(B) - ShownBy(fs[k]) <= Len(F) - EndOf(fs[k])
                      /\ F[fs[k].start + 1].value = fs[k].type
                      /\ F[fs[k].start + 2].value = fs[k].len + OffsetLen
                      /\ fs[k].type = DataFrame => FramePayload(F, fs[k], fs[k].len) = Piece(B, fs[k].lo, fs[k].lo + fs[k].len)
                      /\ IF k < Len(fs)
                         THEN fs[k + 1].start = EndOf(fs[k]) /\ fs[k + 1].lo = ShownBy(fs[k])
                         ELSE EndOf(fs[k]) = Len(F) /\ ShownBy(fs[k]) = Len(B)
    BY <2>5 DEF IsLayout
  <2>6. CASE k = 1
    <3>1. k < Len(fs) /\ fs[k + 1] = f2 /\ fs[k] = f1
      BY <1>9, <2>6
    <3> QED
      BY <1>3, <1>8, <2>1, <2>2, <2>3, <3>1
  <2>7. CASE k = 2
    <3>1. k < Len(fs) /\ fs[k + 1] = f3 /\ fs[k] = f2
      BY <1>9, <2>7
    <3> QED
      BY <1>4, <2>1, <2>2, <2>3, <3>1
  <2>8. CASE k = 3
    <3>1. k < Len(fs) /\ fs[k + 1] = f4 /\ fs[k] = f3
      BY <1>9, <2>8
    <3> QED
      BY <1>5, <1>8, <2>1, <2>2, <2>3, <3>1
  <2>9. CASE k = 4
    <3>1. ~ (k < Len(fs)) /\ fs[k] = f4
      BY <1>9, <2>9
    <3> QED
      BY <1>6, <2>1, <2>2, <2>3, <3>1
  <2> QED
    BY <1>9, <2>4, <2>6, <2>7, <2>8, <2>9
<1> QED
  BY <1>3, <1>9, <1>10, <1>11 DEF Laid, p1

\* The stream of one data frame, and of two with a sign of life between them.
InOne(F, b, check) ==
    /\ F \in Seq(Bytes) /\ Len(F) = Len(b) + 9
    /\ Holds(F, 0, DataFrame, b, check)
    /\ \E x \in Seq(Bytes), y \in Nat : Len(x) = 1 /\ Holds(F, Len(b) + 4, EndFrame, x, y)
InTwo(F, b, check) ==
    /\ F \in Seq(Bytes) /\ Len(F) = Len(b) + 17
    /\ Holds(F, 0, DataFrame, Piece(b, 0, 1), check)
    /\ \E y \in Nat : Holds(F, 5, ContinuousFrame, <<>>, y)
    /\ \E y \in Nat : Holds(F, 9, DataFrame, Piece(b, 1, Len(b)), y)
    /\ \E x \in Seq(Bytes), y \in Nat : Len(x) = 1 /\ Holds(F, Len(b) + 12, EndFrame, x, y)

LEMMA CheckType ==
    ASSUME NEW payload \in Seq(Bytes), NEW checked \in BOOLEAN
    PROVE  Check(payload, checked) \in Nat
<1>1. Checksum(EmptyChecksum, payload) \in Nat
  BY ChecksumType DEF EmptyChecksum
<1> QED
  BY <1>1 DEF Check

\* A frame that is put behind the others.
Appended(F, G, type, payload, check) ==
    /\ F \o G \in Seq(Bytes)
    /\ Len(F \o G) = Len(F) + Len(payload) + 4
    /\ Holds(F \o G, Len(F), type, payload, check)
LEMMA FrameAppended ==
    ASSUME NEW F \in Seq(Bytes), NEW type \in Nat, NEW payload \in Seq(Bytes), NEW checked \in BOOLEAN
    PROVE  Appended(F, Frame(type, payload, checked), type, payload, Check(payload, checked))
<1> DEFINE G == Frame(type, payload, checked)
           check == Check(payload, checked)
<1>1. G \in Seq(Bytes) /\ Len(G) = Len(payload) + 4 /\ Holds(G, 0, type, payload, check)
  BY FrameShape
<1>2. Len(F) \in Nat /\ Len(payload) \in Nat
  BY LenProperties
<1> HIDE DEF G, check
<1>3. F \o G \in Seq(Bytes) /\ Len(F \o G) = Len(F) + Len(G)
  BY <1>1, ConcatProperties
<1>4. Holds(F \o G, Len(F), type, payload, check)
  BY <1>1, HoldsAfter
<1>5. Len(F) + Len(G) = Len(F) + Len(payload) + 4
  BY <1>1, <1>2
<1> QED
  BY <1>3, <1>4, <1>5 DEF G, check, Appended

LEMMA FramingsHold ==
    ASSUME NEW b \in Seq(Bytes), Len(b) >= 1, NEW checked \in BOOLEAN, NEW F \in Framings(b, checked)
    PROVE  InOne(F, b, Check(b, checked)) \/ InTwo(F, b, Check(Piece(b, 0, 1), checked))
<1> DEFINE x == <<Byte(0)>>
           E == Frame(EndFrame, x, checked)
           p1 == Piece(b, 0, 1)
           p3 == Piece(b, 1, Len(b))
           n == Len(b)
           A == Frame(DataFrame, p1, checked)
           C == Frame(ContinuousFrame, <<>>, checked)
           D == Frame(DataFrame, p3, checked)
           W == Frame(DataFrame, b, checked)
<1>1. DataFrame \in Nat /\ EndFrame \in Nat /\ ContinuousFrame \in Nat
  BY DEF DataFrame, EndFrame, ContinuousFrame
<1>2. x \in Seq(Bytes) /\ Len(x) = 1
  <2>1. Byte(0) \in Bytes
    BY DEF Byte, Bytes
  <2> QED
    BY <2>1
<1>3. n \in Nat /\ n >= 1 /\ p1 \in Seq(Bytes) /\ Len(p1) = 1 /\ p3 \in Seq(Bytes) /\ Len(p3) = n - 1
  <2> DEFINE u == 0
             v == 1
  <2>1. u \in Nat /\ v \in Nat /\ u <= v /\ v <= n /\ n \in Nat /\ v - u = 1 /\ n - v = n - 1
    BY LenProperties
  <2> HIDE DEF u, v
  <2>2. Piece(b, u, v) \in Seq(Bytes) /\ Len(Piece(b, u, v)) = v - u
    <3>1. u \in Nat /\ v \in Nat /\ u <= v /\ v <= Len(b)
      BY <2>1
    <3> QED
      BY ONLY b \in Seq(Bytes), <3>1, PieceProperties
  <2>3. Piece(b, v, n) \in Seq(Bytes) /\ Len(Piece(b, v, n)) = n - v
    <3>1. n \in Nat /\ v \in Nat /\ v <= n /\ n <= Len(b)
      BY <2>1
    <3> QED
      BY ONLY b \in Seq(Bytes), <3>1, PieceProperties
  <2> QED
    BY <2>1, <2>2, <2>3 DEF u, v
<1>4. p1 = Take(b, 1) /\ p3 = Drop(b, 1)
  BY DEF Take, Drop, Piece
<1>5. F = W \o E \/ F = A \o C \o D \o E
  BY <1>4, Zenon DEF Framings
<1>6. CASE F = W \o E
  <2>1. W \in Seq(Bytes) /\ Len(W) = n + 4 /\ Holds(W, 0, DataFrame, b, Check(b, checked))
    BY <1>1, FrameShape
  <2> HIDE DEF W, x
  <2>2. /\ W \o E \in Seq(Bytes) /\ Len(W \o E) = Len(W) + Len(x) + 4
        /\ Holds(W \o E, Len(W), EndFrame, x, Check(x, checked))
    <3>1. Appended(W, E, EndFrame, x, Check(x, checked))
      BY <1>1, <1>2, <2>1, FrameAppended
    <3> QED
      BY <3>1, Zenon DEF Appended
  <2> HIDE DEF n
  <2>a. E \in Seq(Bytes)
    BY <1>1, <1>2, FrameShape
  <2> HIDE DEF E
  <2>3. Holds(W \o E, 0, DataFrame, b, Check(b, checked))
    <3> DEFINE z == 0
    <3>1. z \in Nat /\ z + Len(b) + 4 <= Len(W) /\ Holds(W, z, DataFrame, b, Check(b, checked))
      BY <1>3, <2>1 DEF n
    <3> HIDE DEF z
    <3>2. Holds(W \o E, z, DataFrame, b, Check(b, checked))
      BY <2>1, <2>a, <3>1, HoldsBefore
    <3> QED
      BY <3>2 DEF z
  <2>4. Len(W) + Len(x) + 4 = n + 9 /\ Check(x, checked) \in Nat
    BY <1>2, <1>3, <2>1, CheckType
  <2> QED
    BY <1>2, <1>6, <2>1, <2>2, <2>3, <2>4 DEF InOne, n
<1>7. CASE F = A \o C \o D \o E
  <2> DEFINE AC == A \o C
             ACD == AC \o D
             ca == Check(p1, checked)
             cc == Check(<<>>, checked)
             cd == Check(p3, checked)
             ce == Check(x, checked)
             z == 0
             n5 == 5
             n9 == 9
             m == n + 12
             none == <<>>
  <2>1. A \in Seq(Bytes) /\ Len(A) = 5 /\ Holds(A, z, DataFrame, p1, ca)
    <3> HIDE DEF p1
    <3>1. A \in Seq(Bytes) /\ Len(A) = Len(p1) + 4 /\ Holds(A, 0, DataFrame, p1, ca)
      BY <1>1, <1>3, FrameShape
    <3> QED
      BY <1>3, <3>1
  <2>2. none \in Seq(Bytes) /\ Len(none) = 0
    BY EmptySeq
  <2>3. C \in Seq(Bytes) /\ D \in Seq(Bytes) /\ E \in Seq(Bytes)
    <3> HIDE DEF p3, x, none
    <3>1. Frame(ContinuousFrame, none, checked) \in Seq(Bytes)
      BY <1>1, <2>2, FrameShape
    <3>2. D \in Seq(Bytes) /\ E \in Seq(Bytes)
      BY <1>1, <1>2, <1>3, FrameShape
    <3> QED
      BY <3>1, <3>2 DEF none
  <2>4. ca \in Nat /\ cc \in Nat /\ cd \in Nat /\ ce \in Nat
    <3> HIDE DEF p1, p3, x, none
    <3>1. Check(none, checked) \in Nat
      BY <2>2, CheckType
    <3>2. Check(p1, checked) \in Nat /\ Check(p3, checked) \in Nat /\ Check(x, checked) \in Nat
      BY <1>2, <1>3, CheckType
    <3> QED
      BY <3>1, <3>2 DEF none
  <2>5. /\ AC \in Seq(Bytes) /\ Len(AC) = 9 /\ Holds(AC, Len(A), ContinuousFrame, none, cc)
    <3> HIDE DEF A, none
    <3>1. /\ A \o Frame(ContinuousFrame, none, checked) \in Seq(Bytes)
          /\ Len(A \o Frame(ContinuousFrame, none, checked)) = Len(A) + Len(none) + 4
          /\ Holds(A \o Frame(ContinuousFrame, none, checked), Len(A), ContinuousFrame, none, Check(none, checked))
      <4>1. Appended(A, Frame(ContinuousFrame, none, checked), ContinuousFrame, none, Check(none, checked))
        BY <1>1, <2>1, <2>2, FrameAppended
      <4> QED
        BY <4>1, Zenon DEF Appended
    <3>2. Len(A) + Len(none) + 4 = 9
      BY <2>1, <2>2
    <3> QED
      BY <3>1, <3>2 DEF none
  <2> HIDE DEF AC, p1, p3, x
  <2>6. /\ ACD \in Seq(Bytes) /\ Len(ACD) = m /\ Holds(ACD, Len(AC), DataFrame, p3, cd)
    <3>1. /\ AC \o D \in Seq(Bytes) /\ Len(AC \o D) = Len(AC) + Len(p3) + 4
          /\ Holds(AC \o D, Len(AC), DataFrame, p3, cd)
      <4>1. Appended(AC, D, DataFrame, p3, cd)
        BY <1>1, <1>3, <2>5, FrameAppended
      <4> QED
        BY <4>1, Zenon DEF Appended
    <3>2. Len(AC) + Len(p3) + 4 = m
      BY <1>3, <2>5
    <3> QED
      BY <3>1, <3>2
  <2> HIDE DEF ACD
  <2>7. /\ ACD \o E \in Seq(Bytes) /\ Len(ACD \o E) = n + 17 /\ Holds(ACD \o E, Len(ACD), EndFrame, x, ce)
    <3>1. /\ ACD \o E \in Seq(Bytes) /\ Len(ACD \o E) = Len(ACD) + Len(x) + 4
          /\ Holds(ACD \o E, Len(ACD), EndFrame, x, ce)
      <4>1. Appended(ACD, E, EndFrame, x, ce)
        BY <1>1, <1>2, <2>6, FrameAppended
      <4> QED
        BY <4>1, Zenon DEF Appended
    <3>2. Len(ACD) + Len(x) + 4 = n + 17
      BY <1>2, <1>3, <2>6
    <3> QED
      BY <3>1, <3>2
  <2> HIDE DEF A, C, D, E, ca, cc, cd, ce, none
  <2>8. Holds(ACD \o E, z, DataFrame, p1, ca)
    <3>1. z \in Nat /\ z + Len(p1) + 4 <= Len(A) /\ z + Len(p1) + 4 <= Len(AC) /\ z + Len(p1) + 4 <= Len(ACD)
      BY <1>3, <2>1, <2>5, <2>6
    <3> HIDE DEF z
    <3>2. Holds(AC, z, DataFrame, p1, ca)
      BY <1>3, <2>1, <2>3, <3>1, HoldsBefore DEF AC
    <3>3. Holds(ACD, z, DataFrame, p1, ca)
      BY <1>3, <2>3, <2>5, <3>1, <3>2, HoldsBefore DEF ACD
    <3> QED
      BY <1>3, <2>3, <2>6, <3>1, <3>3, HoldsBefore
  <2>9. Holds(ACD \o E, n5, ContinuousFrame, none, cc)
    <3>1. n5 \in Nat /\ n5 + Len(none) + 4 <= Len(AC) /\ n5 + Len(none) + 4 <= Len(ACD)
      BY <1>3, <2>2, <2>5, <2>6
    <3>2. Holds(AC, n5, ContinuousFrame, none, cc)
      BY <2>1, <2>5
    <3> HIDE DEF n5
    <3>3. Holds(ACD, n5, ContinuousFrame, none, cc)
      BY <2>2, <2>3, <2>5, <3>1, <3>2, HoldsBefore DEF ACD
    <3> QED
      BY <2>2, <2>3, <2>6, <3>1, <3>3, HoldsBefore
  <2>10. Holds(ACD \o E, n9, DataFrame, p3, cd)
    <3>1. n9 \in Nat /\ n9 + Len(p3) + 4 <= Len(ACD)
      BY <1>3, <2>6
    <3>2. Holds(ACD, n9, DataFrame, p3, cd)
      BY <2>5, <2>6
    <3> HIDE DEF n9
    <3> QED
      BY <1>3, <2>3, <2>6, <3>1, <3>2, HoldsBefore
  <2>11. F = ACD \o E
    BY <1>7 DEF ACD, AC
  <2>12. Holds(ACD \o E, m, EndFrame, x, ce)
    BY <2>6, <2>7
  <2> QED
    BY <1>2, <2>4, <2>7, <2>8, <2>9, <2>10, <2>11, <2>12 DEF InTwo, ca, none, p1, p3
<1> QED
  BY <1>5, <1>6, <1>7

LEMMA SoundBytes == Sound \subseteq Bytes /\ Seq(Sound) \subseteq Seq(Bytes)
<1>1. Sound \subseteq Bytes
  BY DEF Sound, Bytes
<1> QED
  BY <1>1

\* A sequence of bytes with the first one spoilt.
SpoiltFirst(b) == [b EXCEPT ![1] = Byte(0)]

LEMMA SpoiltPieces ==
    ASSUME NEW b \in Seq(Bytes), Len(b) >= 1
    PROVE  /\ SpoiltFirst(b) \in Seq(Bytes) /\ Len(SpoiltFirst(b)) = Len(b)
           /\ \A i \in 1 .. Len(b) : SpoiltFirst(b)[i] = IF i = 1 THEN Byte(0) ELSE b[i]
           /\ Piece(SpoiltFirst(b), 0, 1) = SpoiltFirst(Piece(b, 0, 1))
           /\ Piece(SpoiltFirst(b), 1, Len(b)) = Piece(b, 1, Len(b))
<1> DEFINE s == SpoiltFirst(b)
           n == Len(b)
           u == 0
           v == 1
<1>1. n \in Nat /\ n >= 1 /\ DOMAIN b = 1 .. n /\ u \in Nat /\ v \in Nat /\ u <= v /\ v <= n /\ v - u = 1
  BY LenProperties
<1>2. s \in Seq(Bytes) /\ Len(s) = n /\ \A i \in 1 .. n : s[i] = IF i = 1 THEN Byte(0) ELSE b[i]
  <2>1. Byte(0) \in Bytes
    BY DEF Byte, Bytes
  <2>2. 1 \in 1 .. Len(b)
    BY <1>1
  <2>3. s \in Seq(Bytes) /\ Len(s) = n
    BY <2>1, <2>2, ExceptSeq DEF SpoiltFirst
  <2> QED
    BY <1>1, <2>3 DEF SpoiltFirst
<1> HIDE DEF s, n, u, v
<1>a. /\ b \in Seq(Bytes) /\ s \in Seq(Bytes) /\ u \in Nat /\ v \in Nat /\ n \in Nat /\ u <= v /\ v <= n
      /\ v <= Len(b) /\ n <= Len(b) /\ v <= Len(s) /\ n <= Len(s)
  BY <1>1, <1>2 DEF n
<1>3. /\ Piece(s, u, v) \in Seq(Bytes) /\ Len(Piece(s, u, v)) = v - u
      /\ \A i \in 1 .. v - u : Piece(s, u, v)[i] = s[u + i]
  BY ONLY <1>a, PieceProperties
<1>4. /\ Piece(b, u, v) \in Seq(Bytes) /\ Len(Piece(b, u, v)) = v - u
      /\ \A i \in 1 .. v - u : Piece(b, u, v)[i] = b[u + i]
  BY ONLY <1>a, PieceProperties
<1>5. /\ Piece(s, v, n) \in Seq(Bytes) /\ Len(Piece(s, v, n)) = n - v
      /\ \A i \in 1 .. n - v : Piece(s, v, n)[i] = s[v + i]
  BY ONLY <1>a, PieceProperties
<1>6. /\ Piece(b, v, n) \in Seq(Bytes) /\ Len(Piece(b, v, n)) = n - v
      /\ \A i \in 1 .. n - v : Piece(b, v, n)[i] = b[v + i]
  BY ONLY <1>a, PieceProperties
<1>7. Piece(s, u, v) = SpoiltFirst(Piece(b, u, v))
  <2> DEFINE p == Piece(b, u, v)
             q == Piece(s, u, v)
             r == SpoiltFirst(p)
  <2>1. p \in Seq(Bytes) /\ Len(p) = 1 /\ DOMAIN p = 1 .. 1
    BY <1>1, <1>4, LenProperties
  <2> HIDE DEF p
  <2>2. r \in Seq(Bytes) /\ Len(r) = 1 /\ r[1] = Byte(0)
    <3>1. Byte(0) \in Bytes /\ 1 \in 1 .. Len(p)
      BY <2>1 DEF Byte, Bytes
    <3>2. r \in Seq(Bytes) /\ Len(r) = Len(p)
      BY <2>1, <3>1, ExceptSeq DEF SpoiltFirst
    <3> QED
      BY <2>1, <3>2 DEF SpoiltFirst
  <2>3. q[1] = Byte(0)
    <3>1. 1 \in 1 .. v - u /\ u + 1 = 1 /\ 1 \in 1 .. n
      BY <1>1 DEF u
    <3>2. q[1] = s[u + 1]
      BY <1>3, <3>1
    <3> QED
      BY <1>2, <3>1, <3>2
  <2> HIDE DEF r, q
  <2>4. q \in Seq(Bytes) /\ Len(q) = 1
    BY <1>1, <1>3 DEF q
  <2>5. Len(q) = Len(r) /\ \A i \in 1 .. Len(q) : q[i] = r[i]
    BY <2>2, <2>3, <2>4
  <2> QED
    BY <2>2, <2>4, <2>5, SameSequence DEF q, r, p
<1>8. Piece(s, v, n) = Piece(b, v, n)
  <2>1. \A i \in 1 .. n - v : s[v + i] = b[v + i]
    BY <1>1, <1>2 DEF v
  <2>2. \A i \in 1 .. Len(Piece(s, v, n)) : Piece(s, v, n)[i] = Piece(b, v, n)[i]
    BY <1>5, <1>6, <2>1
  <2> QED
    BY <1>5, <1>6, <2>2, SameSequence
<1> QED
  BY <1>2, <1>7, <1>8 DEF s, n, u, v

\* The checksum that a frame was given says something against a spoilt byte.
LEMMA SpoiltIsSeen ==
    ASSUME NEW payload \in Seq(Bytes), Len(payload) >= 1, payload[1].value > 0
    PROVE  /\ Check(payload, TRUE) # 0
           /\ Check(payload, TRUE) # Checksum(EmptyChecksum, SpoiltFirst(payload))
<1> DEFINE s == SpoiltFirst(payload)
<1>1. s \in Seq(Bytes) /\ Len(s) = Len(payload) /\ Len(payload) \in Nat
  BY SpoiltPieces, LenProperties
<1>2. \A i \in 1 .. Len(payload) : s[i] = IF i = 1 THEN Byte(0) ELSE payload[i]
  BY SpoiltPieces
<1>3. s[1].value = 0 /\ \A i \in 2 .. Len(payload) : payload[i] = s[i]
  <2>1. s[1] = Byte(0) /\ \A i \in 2 .. Len(payload) : payload[i] = s[i]
    BY <1>1, <1>2
  <2> QED
    BY <2>1 DEF Byte
<1> HIDE DEF s
<1>4. EmptyChecksum \in Nat
  BY DEF EmptyChecksum
<1>5. payload[1].value > s[1].value
  BY <1>3
<1>6. Checksum(EmptyChecksum, payload) > Checksum(EmptyChecksum, s)
  BY <1>1, <1>3, <1>4, <1>5, ChecksumTells
<1>7. Checksum(EmptyChecksum, payload) \in Nat /\ Checksum(EmptyChecksum, s) \in Nat
  BY <1>1, <1>4, ChecksumType
<1> QED
  BY <1>6, <1>7 DEF Check, s

\* What a sink of a response of status 2xx is to receive, and the frames of it.
Spoilable(b, rotten) == IF rotten THEN SpoiltFirst(b) ELSE b
StreamOf(F, fs, B, dubious) ==
    /\ F \in Seq(Bytes) /\ B \in Seq(Bytes) /\ fs \in Seq(FrameInfo) /\ IsLayout(F, fs, B)
    /\ dubious => ~ Intact(F, fs[1]) /\ EndOf(fs[1]) + EndLength <= Len(F)

\* The end frame is behind the first one.
LEMMA EndIsBehind ==
    ASSUME NEW F \in Seq(Bytes), NEW B \in Seq(Bytes), Len(B) >= 1, NEW fs \in Layouts(Len(B)), IsLayout(F, fs, B)
    PROVE  EndOf(fs[1]) + EndLength <= Len(F)
<1> DEFINE n == Len(B)
           m == Len(F)
           l == Len(fs)
<1>1. n \in Nat /\ n >= 1 /\ m \in Nat
  BY LenProperties
<1>2. EndLength = 5
  BY DEF EndLength, HeaderLen, TailLen
<1>3. l \in 1 .. l => EndOf(fs[l]) = m
  BY DEF IsLayout
<1> HIDE DEF m
<1>4. CASE fs = <<FrameOf(0, DataFrame, n, 0), FrameOf(n + 4, EndFrame, 1, n)>>
  <2>1. l = 2 /\ fs[1] = FrameOf(0, DataFrame, n, 0) /\ fs[2] = FrameOf(n + 4, EndFrame, 1, n)
    BY <1>4
  <2> HIDE DEF n
  <2>2. EndOf(fs[1]) = 0 + n + 4 /\ EndOf(fs[2]) = n + 4 + 1 + 4
    BY <2>1 DEF EndOf, FrameOf
  <2>3. EndOf(fs[2]) = m
    BY <1>3, <2>1
  <2> QED
    BY <1>1, <1>2, <2>2, <2>3 DEF m
<1>5. CASE fs = <<FrameOf(0, DataFrame, 1, 0), FrameOf(5, ContinuousFrame, 0, 1), FrameOf(9, DataFrame, n - 1, 1),
                  FrameOf(n + 12, EndFrame, 1, n)>>
  <2>1. l = 4 /\ fs[1] = FrameOf(0, DataFrame, 1, 0) /\ fs[4] = FrameOf(n + 12, EndFrame, 1, n)
    BY <1>5
  <2> HIDE DEF n
  <2>2. EndOf(fs[1]) = 5 /\ EndOf(fs[4]) = n + 12 + 1 + 4
    BY <2>1 DEF EndOf, FrameOf
  <2>3. EndOf(fs[4]) = m
    BY <1>3, <2>1
  <2> QED
    BY <1>1, <1>2, <2>2, <2>3 DEF m
<1> QED
  BY <1>4, <1>5 DEF Layouts

LEMMA LaidIsStream ==
    ASSUME NEW F \in Seq(Bytes), NEW B \in Seq(Bytes), Len(B) >= 1, NEW first, NEW check,
           Laid(F, B, first, check),
           NEW dubious, dubious => check # 0 /\ check # Checksum(EmptyChecksum, first)
    PROVE  \E fs \in Layouts(Len(B)) : StreamOf(F, fs, B, dubious)
<1>1. PICK fs \in Layouts(Len(B)) :
         /\ fs \in Seq(FrameInfo) /\ IsLayout(F, fs, B)
         /\ FramePayload(F, fs[1], fs[1].len) = first /\ F[EndOf(fs[1])].value = check
  BY DEF Laid
<1>2. dubious => ~ Intact(F, fs[1]) /\ EndOf(fs[1]) + EndLength <= Len(F)
  <2>1. dubious => ~ Intact(F, fs[1])
    BY <1>1, Zenon DEF Intact
  <2>2. EndOf(fs[1]) + EndLength <= Len(F)
    BY <1>1, EndIsBehind
  <2> QED
    BY <2>1, <2>2
<1>3. StreamOf(F, fs, B, dubious)
  BY <1>1, <1>2 DEF StreamOf
<1> QED
  BY <1>3

LEMMA SoundFramingLaid ==
    ASSUME NEW b \in Seq(Bytes), Len(b) >= 1, NEW checked \in BOOLEAN, NEW F \in Framings(b, checked)
    PROVE  F \in Seq(Bytes) /\ \E fs \in Layouts(Len(b)) : StreamOf(F, fs, b, FALSE)
<1>1. CASE InOne(F, b, Check(b, checked))
  <2> DEFINE c == Check(b, checked)
  <2>1. F \in Seq(Bytes) /\ Len(F) = Len(b) + 9 /\ Holds(F, 0, DataFrame, b, c)
    BY <1>1 DEF InOne
  <2>2. PICK x \in Seq(Bytes) : \E y \in Nat : Len(x) = 1 /\ Holds(F, Len(b) + 4, EndFrame, x, y)
    BY <1>1 DEF InOne
  <2>3. PICK y \in Nat : Len(x) = 1 /\ Holds(F, Len(b) + 4, EndFrame, x, y)
    BY <2>2
  <2> HIDE DEF c
  <2>4. Laid(F, b, b, c)
    BY <2>1, <2>3, OneFrameLaid
  <2> QED
    BY <2>1, <2>4, LaidIsStream
<1>2. CASE InTwo(F, b, Check(Piece(b, 0, 1), checked))
  <2> DEFINE c == Check(Piece(b, 0, 1), checked)
             none == <<>>
  <2>1. F \in Seq(Bytes) /\ Len(F) = Len(b) + 17 /\ Holds(F, 0, DataFrame, Piece(b, 0, 1), c)
    BY <1>2 DEF InTwo
  <2>2. PICK x \in Seq(Bytes) : \E y \in Nat : Len(x) = 1 /\ Holds(F, Len(b) + 12, EndFrame, x, y)
    BY <1>2 DEF InTwo
  <2>3. PICK y \in Nat : Len(x) = 1 /\ Holds(F, Len(b) + 12, EndFrame, x, y)
    BY <2>2
  <2>4. PICK c2 \in Nat : Holds(F, 5, ContinuousFrame, none, c2)
    BY <1>2 DEF InTwo
  <2>5. PICK c3 \in Nat : Holds(F, 9, DataFrame, Piece(b, 1, Len(b)), c3)
    BY <1>2 DEF InTwo
  <2>6. none \in Seq(Bytes) /\ Len(none) = 0
    BY EmptySeq
  <2> HIDE DEF c, none
  <2>7. Laid(F, b, Piece(b, 0, 1), c)
    BY <2>1, <2>3, <2>4, <2>5, <2>6, TwoFramesLaid
  <2> QED
    BY <2>1, <2>7, LaidIsStream
<1> QED
  BY <1>1, <1>2, FramingsHold

LEMMA SpoiltFramingLaid ==
    ASSUME NEW b \in Seq(Bytes), Len(b) >= 1, b[1].value > 0, NEW checked \in BOOLEAN,
           NEW G \in Framings(b, checked), NEW F, F = [G EXCEPT ![HeaderLen + 1] = Byte(0)]
    PROVE  F \in Seq(Bytes) /\ \E fs \in Layouts(Len(SpoiltFirst(b))) : StreamOf(F, fs, SpoiltFirst(b), checked)
<1> DEFINE B == SpoiltFirst(b)
<1>1. /\ B \in Seq(Bytes) /\ Len(B) = Len(b) /\ Len(B) >= 1 /\ Len(b) \in Nat
      /\ Piece(B, 0, 1) = SpoiltFirst(Piece(b, 0, 1)) /\ Piece(B, 1, Len(B)) = Piece(b, 1, Len(b))
  BY SpoiltPieces, LenProperties
<1>2. Byte(0) \in Bytes
  BY DEF Byte, Bytes
<1> HIDE DEF B
<1>3. CASE InOne(G, b, Check(b, checked))
  <2> DEFINE c == Check(b, checked)
             m == Len(b) + 4
  <2>1. G \in Seq(Bytes) /\ Len(G) = Len(b) + 9 /\ Holds(G, 0, DataFrame, b, c)
    BY <1>3 DEF InOne
  <2>2. PICK x \in Seq(Bytes) : \E y \in Nat : Len(x) = 1 /\ Holds(G, Len(b) + 4, EndFrame, x, y)
    BY <1>3 DEF InOne
  <2>3. PICK y \in Nat : Len(x) = 1 /\ Holds(G, m, EndFrame, x, y)
    BY <2>2
  <2>4. F \in Seq(Bytes) /\ Len(F) = Len(B) + 9
    <3>1. HeaderLen + 1 \in 1 .. Len(G)
      BY <1>1, <2>1 DEF HeaderLen
    <3> QED
      BY <1>1, <1>2, <2>1, <3>1, ExceptSeq
  <2>5. checked => c # 0 /\ c # Checksum(EmptyChecksum, B)
    BY SpoiltIsSeen DEF B
  <2> HIDE DEF c
  <2>6. Holds(F, 0, DataFrame, B, c)
    <3>1. Len(b) + 4 <= Len(G)
      BY <1>1, <2>1
    <3> QED
      BY <2>1, <3>1, SpoiltFrame DEF B, SpoiltFirst
  <2>7. Holds(F, m, EndFrame, x, y)
    <3>1. m \in Nat /\ m >= 5 /\ m + Len(x) + 4 <= Len(G)
      BY <1>1, <2>1, <2>3
    <3> HIDE DEF m
    <3> QED
      BY <2>1, <2>3, <3>1, OtherFrameHolds
  <2>8. Holds(F, Len(B) + 4, EndFrame, x, y)
    BY <1>1, <2>7
  <2>9. Laid(F, B, B, c)
    BY <1>1, <2>3, <2>4, <2>6, <2>8, OneFrameLaid
  <2> QED
    BY <1>1, <2>4, <2>5, <2>9, LaidIsStream DEF B
<1>4. CASE InTwo(G, b, Check(Piece(b, 0, 1), checked))
  <2> DEFINE p == Piece(b, 0, 1)
             q == Piece(b, 1, Len(b))
             c == Check(p, checked)
             m == Len(b) + 12
             none == <<>>
             n5 == 5
             n9 == 9
  <2>1. G \in Seq(Bytes) /\ Len(G) = Len(b) + 17 /\ Holds(G, 0, DataFrame, p, c)
    BY <1>4 DEF InTwo
  <2>2. PICK x \in Seq(Bytes) : \E y \in Nat : Len(x) = 1 /\ Holds(G, Len(b) + 12, EndFrame, x, y)
    BY <1>4 DEF InTwo
  <2>3. PICK y \in Nat : Len(x) = 1 /\ Holds(G, m, EndFrame, x, y)
    BY <2>2
  <2>4. PICK c2 \in Nat : Holds(G, n5, ContinuousFrame, none, c2)
    BY <1>4 DEF InTwo
  <2>5. PICK c3 \in Nat : Holds(G, n9, DataFrame, q, c3)
    BY <1>4 DEF InTwo
  <2>6. none \in Seq(Bytes) /\ Len(none) = 0
    BY EmptySeq
  <2>7. F \in Seq(Bytes) /\ Len(F) = Len(B) + 17
    <3>1. HeaderLen + 1 \in 1 .. Len(G)
      BY <1>1, <2>1 DEF HeaderLen
    <3> QED
      BY <1>1, <1>2, <2>1, <3>1, ExceptSeq
  <2>8. p \in Seq(Bytes) /\ Len(p) = 1 /\ q \in Seq(Bytes) /\ Len(q) = Len(b) - 1 /\ p[1] = b[1]
    <3> DEFINE u == 0
               v == 1
               n == Len(b)
    <3>1. /\ u \in Nat /\ v \in Nat /\ n \in Nat /\ u <= v /\ v <= n /\ v <= Len(b) /\ n <= Len(b)
          /\ v - u = 1 /\ 1 \in 1 .. v - u /\ u + 1 = 1 /\ n - v = n - 1
      BY <1>1
    <3> HIDE DEF u, v, n
    <3>a. u \in Nat /\ v \in Nat /\ n \in Nat /\ u <= v /\ v <= n /\ v <= Len(b) /\ n <= Len(b)
      BY <3>1
    <3>2. /\ Piece(b, u, v) \in Seq(Bytes) /\ Len(Piece(b, u, v)) = v - u
          /\ \A i \in 1 .. v - u : Piece(b, u, v)[i] = b[u + i]
      <4>1. PieceFacts(Bytes, b, u, v)
        BY ONLY b \in Seq(Bytes), <3>a, PieceIs
      <4> QED
        BY <4>1 DEF PieceFacts
    <3>3. Piece(b, v, n) \in Seq(Bytes) /\ Len(Piece(b, v, n)) = n - v
      <4>1. PieceFacts(Bytes, b, v, n)
        BY ONLY b \in Seq(Bytes), <3>a, PieceIs
      <4> QED
        BY <4>1 DEF PieceFacts
    <3>4. Piece(b, u, v)[1] = b[1]
      BY <3>1, <3>2
    <3> QED
      BY <3>1, <3>2, <3>3, <3>4 DEF u, v, n
  <2> HIDE DEF p, q, none
  <2>9. checked => c # 0 /\ c # Checksum(EmptyChecksum, SpoiltFirst(p))
    <3>1. p[1].value > 0 /\ Len(p) >= 1
      BY <2>8
    <3> QED
      BY <2>8, <3>1, SpoiltIsSeen
  <2> HIDE DEF c
  <2>10. Holds(F, 0, DataFrame, SpoiltFirst(p), c)
    <3>1. Len(p) >= 1 /\ Len(p) + 4 <= Len(G)
      BY <1>1, <2>1, <2>8
    <3> QED
      BY <2>1, <2>8, <3>1, SpoiltFrame DEF SpoiltFirst
  <2>11. Holds(F, n5, ContinuousFrame, none, c2)
    <3>1. n5 \in Nat /\ n5 >= 5 /\ n5 + Len(none) + 4 <= Len(G)
      BY <1>1, <2>1, <2>6
    <3> HIDE DEF n5
    <3> QED
      BY <2>1, <2>4, <2>6, <3>1, OtherFrameHolds
  <2>12. Holds(F, n9, DataFrame, q, c3)
    <3>1. n9 \in Nat /\ n9 >= 5 /\ n9 + Len(q) + 4 <= Len(G)
      BY <1>1, <2>1, <2>8
    <3> HIDE DEF n9
    <3> QED
      BY <2>1, <2>5, <2>8, <3>1, OtherFrameHolds
  <2>13. Holds(F, m, EndFrame, x, y)
    <3>1. m \in Nat /\ m >= 5 /\ m + Len(x) + 4 <= Len(G)
      BY <1>1, <2>1, <2>3
    <3> HIDE DEF m
    <3> QED
      BY <2>1, <2>3, <3>1, OtherFrameHolds
  <2>14. Laid(F, B, Piece(B, 0, 1), c)
    <3>1. /\ Holds(F, 0, DataFrame, Piece(B, 0, 1), c)
          /\ Holds(F, 5, ContinuousFrame, none, c2)
          /\ Holds(F, 9, DataFrame, Piece(B, 1, Len(B)), c3)
          /\ Holds(F, Len(B) + 12, EndFrame, x, y)
      BY <1>1, <2>10, <2>11, <2>12, <2>13 DEF p, q
    <3> QED
      BY <1>1, <2>3, <2>6, <2>7, <3>1, TwoFramesLaid
  <2>15. checked => c # 0 /\ c # Checksum(EmptyChecksum, Piece(B, 0, 1))
    BY <1>1, <2>9 DEF p
  <2> QED
    BY <1>1, <2>7, <2>14, <2>15, LaidIsStream DEF B
<1> QED
  BY <1>3, <1>4, FramingsHold

\* Every stream that a query can be answered with.
LEMMA StreamsLaid ==
    ASSUME NEW source, source.version.bytes \in Seq(Sound), source.version.bytes # <<>>,
           source.checked \in BOOLEAN, NEW F \in Streams(source)
    PROVE  /\ F \in Seq(Bytes)
           /\ \E fs \in Layouts(Len(Spoilable(source.version.bytes, source.rotten))) :
                 StreamOf(F, fs, Spoilable(source.version.bytes, source.rotten), source.rotten /\ source.checked)
<1> DEFINE b == source.version.bytes
<1>1. PICK G \in Framings(b, source.checked) :
         F = IF source.rotten THEN [G EXCEPT ![HeaderLen + 1] = Byte(0)] ELSE G
  BY DEF Streams
<1>2. b \in Seq(Bytes) /\ b \in Seq(Sound) /\ Len(b) >= 1 /\ b[1].value > 0
  <2>1. Len(b) \in Nat /\ Len(b) # 0
    BY LenProperties, EmptySeq
  <2>2. b[1] \in Sound
    BY <2>1, ElementOfSeq
  <2>3. b[1].value > 0
    BY <2>2 DEF Sound
  <2> QED
    BY <2>1, <2>3, SoundBytes
<1> HIDE DEF b
<1>3. CASE source.rotten
  <2>1. F = [G EXCEPT ![HeaderLen + 1] = Byte(0)]
    BY <1>1, <1>3
  <2>2. /\ F \in Seq(Bytes)
        /\ \E fs \in Layouts(Len(SpoiltFirst(b))) : StreamOf(F, fs, SpoiltFirst(b), source.checked)
    BY <1>2, <2>1, SpoiltFramingLaid
  <2> QED
    BY <1>3, <2>2, Zenon DEF Spoilable, b, StreamOf
<1>4. CASE ~ source.rotten
  <2>1. F = G
    BY <1>1, <1>4
  <2>2. F \in Seq(Bytes) /\ \E fs \in Layouts(Len(b)) : StreamOf(F, fs, b, FALSE)
    BY <1>2, <2>1, SoundFramingLaid
  <2> QED
    BY <1>4, <2>2, Zenon DEF Spoilable, b, StreamOf
<1> QED
  BY <1>3, <1>4

-----------------------------------------------------------------------------
(* The invariant of a download.                                            *)

\* The end of the range in a text of n bytes, and what is skipped of a reply.
RangeEnd(n) == IF call.last = Rest THEN n ELSE Least(call.last + 1, n)
Skip == call.first - Requested
Reply(version) == InRange(version.bytes, Requested)
Opens(version) == call.decrypting /\ version.envelope = "ours"
OpenText(version) == IF Opens(version) THEN Process(IV, 0, version.bytes) ELSE version.bytes

\* How much of the range the first g bytes of the reply show, and how much of
\* them is still to be discarded.
Beyond(g) == IF g <= Skip THEN 0 ELSE g - Skip
ToDiscard(g) == IF g <= Skip THEN Skip - g ELSE 0

\* What a sink is to receive.
Delivered(source) == Spoilable(Expected(source.version), source.rotten)

Versions == [bytes : Seq(Sound), envelope : {"none", "ours", "foreign", "absent"}]
Sources == [version : Versions, checked : BOOLEAN, rotten : BOOLEAN, framed : BOOLEAN]
Chains == [asked : BOOLEAN, source : Sources, decrypts : BOOLEAN, iv : Int, at : Nat, discard : Nat,
           framed : BOOLEAN, decoder : Decoders, sink : SinkStates]

DownloadTyped ==
    /\ object \in Versions
    /\ call \in Calls \cup {NoCall}
    /\ step \in {"idle", "request", "body", "end"}
    /\ attempts \in Nat
    /\ served \in Sources
    /\ coming \in Seq(Bytes)
    /\ chain \in Chains
    /\ arrived \in Nat

\* Frames are the answer to a query, and they alone are spoilt or checked.
Shaped(source) ==
    /\ source.rotten \/ source.checked => source.framed
    /\ source.framed => call.op = "select" /\ source.version.bytes # <<>>

\* The position of a plain or decrypting chain in the reply.
PlainAt(c, left) ==
    \E g \in 0 .. Len(Reply(served.version)) :
        /\ left = Piece(Reply(served.version), g, Len(Reply(served.version)))
        /\ c.at = g /\ c.discard = ToDiscard(g)
        /\ c.sink.data = Piece(Expected(served.version), 0, Beyond(g))

\* The position of a decoder's chain in the frames.
FramedAt(c, left) ==
    \E F \in Seq(Bytes), fs \in Seq(FrameInfo) :
        /\ StreamOf(F, fs, Delivered(served), served.rotten /\ served.checked)
        /\ \E g \in 0 .. Len(F) :
              left = Piece(F, g, Len(F)) /\ IsAt(c.decoder, c.sink.data, F, fs, Delivered(served), g)

\* A chain that has failed lacks no more than the last chunk and what is left.
Lacks(c, most) == Len(Delivered(served)) - Len(c.sink.data) <= most

\* A checked frame is found spoilt by a chunk that has all that follows it.
Behind(most) == served.rotten /\ served.checked => most > EndLength

\* The chain of this response, with so much of it left, and the last chunk.
OnTheWay(c, left, last) ==
    /\ c.source = served /\ c.framed = served.framed
    /\ c.decrypts = Opens(served.version) /\ c.iv = SeekIV(IV, Requested)
    /\ Failed(c) => Lacks(c, last + Len(left)) /\ Behind(last + Len(left))
    /\ ~ Failed(c) => IF c.framed THEN FramedAt(c, left) ELSE PlainAt(c, left)

\* A response is on its way or has come completely.
Going == step = "body" \/ result = "ok"

Served ==
    /\ step = "idle" => served = NothingServed /\ chain = NoChain
    /\ step # "end" => result = "none"
    /\ result = "ok" => coming = <<>>
    /\ step = "body" => attempts >= 1
    /\ Shaped(served) /\ Shaped(chain.source)

Arriving ==
    /\ SinkFits(chain.sink)
    /\ chain.asked \/ chain.source # NothingServed => Starts(chain.sink.data, Delivered(chain.source))
    /\ chain.sink.data # <<>> => attempts >= 1
    /\ Going =>
          IF chain.asked THEN OnTheWay(chain, coming, arrived)
          ELSE /\ IF served.framed THEN coming \in Streams(served) ELSE coming = Reply(served.version)
               /\ chain.sink.data # <<>> => attempts >= 2

DownloadInv == DownloadTyped /\ Served /\ Arriving

-----------------------------------------------------------------------------
(* The range of a call, and its reply.                                     *)

\* What is known of a call.
CallFacts ==
    /\ call.first \in Nat /\ call.decrypting \in BOOLEAN /\ call.last \in Nat \cup {Rest}
    /\ call.to.kind \in {"string", "file", "memory"} /\ call.to.capacity \in Nat
    /\ Requested \in Nat /\ Requested <= Size /\ Skip \in Nat /\ call.first = Requested + Skip
    /\ IF call.decrypting THEN Requested % Block = 0 /\ DiscardCount = Skip ELSE Skip = 0
    /\ call.op = "select" => call.first = 0 /\ call.last = Rest /\ ~ call.decrypting

LEMMA SinkIsKnown ==
    ASSUME NEW t \in Sinks
    PROVE  t.kind \in {"string", "file", "memory"} /\ t.capacity \in Nat
<1> DEFINE more == 2 * Size
           less == Size - 1
<1>1. more \in Nat /\ less \in Nat
  BY TransferAssumption
<1>2. t \in [kind : {"string"}, capacity : {more}, oneShot : {FALSE}]
             \cup [kind : {"file", "memory"}, capacity : {less, more}, oneShot : BOOLEAN]
  BY DEF Sinks
<1> HIDE DEF more, less
<1> QED
  BY ONLY <1>1, <1>2

LEMMA CallIsKnown == ASSUME call \in Calls \cup {NoCall} PROVE CallFacts
<1>1. Size \in Nat \ {0} /\ Block \in Nat \ {0}
  BY TransferAssumption, CipherAssumption
<1>2. /\ call.first \in Nat /\ call.first <= Size /\ call.decrypting \in BOOLEAN
      /\ call.last \in Nat \cup {Rest}
      /\ call.to.kind \in {"string", "file", "memory"} /\ call.to.capacity \in Nat
      /\ call.op = "select" => call.first = 0 /\ call.last = Rest /\ ~ call.decrypting
  <2>1. CASE call \in Gets
    <3>1. call.first \in 0 .. Size - 1 /\ call.decrypting \in BOOLEAN /\ call.last \in {Rest} \cup (0 .. Size - 1)
          /\ call.to \in Sinks /\ call.op = "get"
      BY <2>1 DEF Gets
    <3>2. call.to.kind \in {"string", "file", "memory"} /\ call.to.capacity \in Nat
      BY <3>1, SinkIsKnown
    <3> QED
      BY <1>1, <3>1, <3>2
  <2>2. CASE call \in Selects
    <3>1. call.first = 0 /\ call.decrypting = FALSE /\ call.last = Rest /\ call.to \in Sinks
      BY <2>2 DEF Selects
    <3>2. call.to.kind \in {"string", "file", "memory"} /\ call.to.capacity \in Nat
      BY <3>1, SinkIsKnown
    <3>3. 0 <= Size /\ 0 \in Nat
      BY <1>1
    <3> QED
      BY <3>1, <3>2, <3>3
  <2>3. CASE call = NoCall
    BY <1>1, <2>3 DEF NoCall
  <2> QED
    BY <2>1, <2>2, <2>3 DEF Calls
<1> DEFINE q == call.first \div Block
           r == call.first % Block
<1>3. q \in Nat /\ r \in Nat /\ call.first = Block * q + r
  <2> DEFINE x == call.first
  <2>1. x \in Nat
    BY <1>2
  <2> HIDE DEF x
  <2>2. x = Block * (x \div Block) + (x % Block) /\ x \div Block \in Nat /\ x % Block \in 0 .. Block - 1
    BY <1>1, <2>1, Division
  <2>3. x % Block \in Nat
    BY <1>1, <2>2
  <2> QED
    BY <2>2, <2>3 DEF x
<1> HIDE DEF q, r
<1>4. q * Block \in Nat /\ call.first = q * Block + r
  BY <1>1, <1>2, <1>3
<1>5. CASE call.decrypting
  <2>1. Requested = q * Block /\ DiscardCount = call.first - q * Block
    BY <1>5 DEF Requested, AlignedStart, DiscardCount, q
  <2>2. (q * Block) % Block = 0
    <3>1. (Block * q + 0) % Block = 0 /\ q * Block = Block * q + 0
      BY <1>1, <1>3, QuotientAndRest
    <3> QED
      BY <3>1
  <2> DEFINE a == q * Block
  <2>3. a \in Nat /\ call.first = a + r /\ r \in Nat /\ call.first <= Size /\ call.first \in Nat
    BY <1>2, <1>3, <1>4
  <2> HIDE DEF a
  <2>4. a <= Size /\ call.first - a \in Nat /\ call.first = a + (call.first - a)
    BY <1>1, <2>3
  <2> QED
    BY <1>2, <1>5, <2>1, <2>2, <2>3, <2>4 DEF CallFacts, Skip, a
<1>6. CASE ~ call.decrypting
  <2>1. Requested = call.first
    BY <1>6 DEF Requested
  <2> QED
    BY <1>1, <1>2, <1>6, <2>1 DEF CallFacts, Skip
<1> QED
  BY <1>2, <1>5, <1>6

\* A range is a piece, which is empty when it begins past the end.
LEMMA RangeFacts ==
    ASSUME CallFacts, NEW S, NEW s \in Seq(S), NEW from \in Nat
    PROVE  /\ InRange(s, from) = Piece(s, from, RangeEnd(Len(s)))
           /\ RangeEnd(Len(s)) \in Nat /\ RangeEnd(Len(s)) <= Len(s)
           /\ InRange(s, from) \in Seq(S)
           /\ from <= RangeEnd(Len(s)) => Len(InRange(s, from)) = RangeEnd(Len(s)) - from
           /\ from > RangeEnd(Len(s)) => InRange(s, from) = <<>> /\ Len(InRange(s, from)) = 0
<1> DEFINE end == RangeEnd(Len(s))
<1>1. Len(s) \in Nat /\ call.last \in Nat \cup {-1}
  BY LenProperties DEF CallFacts, Rest
<1>2. end \in Nat /\ end <= Len(s)
  BY <1>1 DEF RangeEnd, Least, Rest
<1>3. InRange(s, from) = Piece(s, from, end)
  BY DEF InRange, Piece, RangeEnd
<1> HIDE DEF end
<1>4. CASE from <= end
  <2>1. Piece(s, from, end) \in Seq(S) /\ Len(Piece(s, from, end)) = end - from
    <3>1. s \in Seq(S) /\ from \in Nat /\ end \in Nat /\ from <= end /\ end <= Len(s)
      BY <1>1, <1>2, <1>4
    <3>2. PieceFacts(S, s, from, end)
      BY ONLY <3>1, PieceIs
    <3> QED
      BY <3>2 DEF PieceFacts
  <2> QED
    BY <1>2, <1>3, <1>4, <2>1 DEF end
<1>5. CASE from > end
  <2>1. from + 1 > end
    BY <1>2, <1>5
  <2>2. Piece(s, from, end) = <<>>
    BY <1>2, <1>5, <2>1, SubSeqEmpty DEF Piece
  <2>3. <<>> \in Seq(S) /\ Len(<<>>) = 0
    BY EmptySeq
  <2> QED
    BY <1>2, <1>3, <1>5, <2>2, <2>3 DEF end
<1> QED
  BY <1>2, <1>4, <1>5

\* The reply and the range in an object's text.
TextFacts(version) ==
    /\ version.bytes \in Seq(Bytes) /\ OpenText(version) \in Seq(Bytes)
    /\ Len(OpenText(version)) = Len(version.bytes)
    /\ Expected(version) = InRange(OpenText(version), call.first)
    /\ Expected(version) \in Seq(Bytes) /\ Reply(version) \in Seq(Bytes)
LEMMA TextIsKnown ==
    ASSUME CallFacts, NEW version \in Versions
    PROVE  TextFacts(version)
<1>1. version.bytes \in Seq(Bytes)
  BY SoundBytes DEF Versions
<1>2. OpenText(version) \in Seq(Bytes) /\ Len(OpenText(version)) = Len(version.bytes)
  <2>1. IV \in Int /\ 0 \in Int
    BY CipherAssumption
  <2>2. Process(IV, 0, version.bytes) \in Seq(Bytes) /\ Len(Process(IV, 0, version.bytes)) = Len(version.bytes)
    BY <1>1, <2>1, ProcessType
  <2> QED
    BY <1>1, <2>2 DEF OpenText
<1>3. Expected(version) = InRange(OpenText(version), call.first)
  BY DEF Expected, OpenText, Opens
<1>4. call.first \in Nat /\ Requested \in Nat
  BY DEF CallFacts
<1>5. InRange(OpenText(version), call.first) \in Seq(Bytes)
  BY <1>2, <1>4, RangeFacts
<1>6. Reply(version) \in Seq(Bytes)
  BY <1>1, <1>4, RangeFacts DEF Reply
<1> QED
  BY <1>1, <1>2, <1>3, <1>5, <1>6 DEF TextFacts

\* The reply's end is the end of the range.
LEMMA ReplyShows ==
    ASSUME CallFacts, NEW version \in Versions, NEW g \in Nat, g <= Len(Reply(version))
    PROVE  /\ Beyond(g) \in Nat /\ Beyond(g) <= Len(Expected(version))
           /\ Len(Expected(version)) - Beyond(g) <= Len(Reply(version)) - g
           /\ g = Len(Reply(version)) => Beyond(g) = Len(Expected(version))
<1> DEFINE l == Len(version.bytes)
           end == RangeEnd(l)
<1>1. TextFacts(version)
  BY TextIsKnown
<1>2. call.first \in Nat /\ Requested \in Nat /\ Skip \in Nat /\ call.first = Requested + Skip
  BY DEF CallFacts
<1>3. /\ end \in Nat
      /\ Requested <= end => Len(Reply(version)) = end - Requested
      /\ Requested > end => Len(Reply(version)) = 0
  BY <1>1, <1>2, RangeFacts DEF TextFacts, Reply
<1>4. /\ call.first <= end => Len(Expected(version)) = end - call.first
      /\ call.first > end => Len(Expected(version)) = 0
  <2> DEFINE text == OpenText(version)
             from == call.first
  <2>1. text \in Seq(Bytes) /\ end = RangeEnd(Len(text)) /\ Expected(version) = InRange(text, from) /\ from \in Nat
    BY <1>1, <1>2 DEF TextFacts
  <2> HIDE DEF text, from, end
  <2>2. /\ from <= RangeEnd(Len(text)) => Len(InRange(text, from)) = RangeEnd(Len(text)) - from
        /\ from > RangeEnd(Len(text)) => Len(InRange(text, from)) = 0
    BY <2>1, RangeFacts
  <2> QED
    BY <2>1, <2>2 DEF from
<1> HIDE DEF end
<1>5. Beyond(g) = IF g <= Skip THEN 0 ELSE g - Skip
  BY DEF Beyond
<1> QED
  BY ONLY <1>2, <1>3, <1>4, <1>5, g \in Nat, g <= Len(Reply(version))

\* What the cipher makes of a chunk of the reply, in the object's text.
OpensTo(version, g, n, opened) ==
    /\ opened = Piece(OpenText(version), Requested + g, Requested + g + n)
    /\ opened \in Seq(Bytes) /\ Len(opened) = n
    /\ Requested + g + n <= RangeEnd(Len(version.bytes))
LEMMA ChunkOpened ==
    ASSUME CallFacts, NEW version \in Versions, NEW g \in Nat, NEW n \in Nat \ {0}, g + n <= Len(Reply(version))
    PROVE  /\ Opens(version) =>
                 OpensTo(version, g, n, Process(SeekIV(IV, Requested), g, Piece(Reply(version), g, g + n)))
           /\ ~ Opens(version) => OpensTo(version, g, n, Piece(Reply(version), g, g + n))
<1> DEFINE b == version.bytes
           text == OpenText(version)
           end == RangeEnd(Len(b))
           from == Requested
           a == from + g
           e == from + g + n
           h == g + n
<1>1. /\ TextFacts(version) /\ b \in Seq(Bytes) /\ text \in Seq(Bytes) /\ Len(text) = Len(b)
  BY TextIsKnown DEF TextFacts
<1>2. from \in Nat
  BY DEF CallFacts
<1>3. /\ Reply(version) = Piece(b, from, end) /\ end \in Nat /\ end <= Len(b)
      /\ from <= end => Len(Reply(version)) = end - from
      /\ from > end => Len(Reply(version)) = 0
  BY <1>1, <1>2, RangeFacts DEF Reply
<1> HIDE DEF end, b, from
<1>4. from <= end /\ Len(Reply(version)) = end - from /\ h <= end - from
  BY <1>2, <1>3
<1>5. /\ a \in Nat /\ e \in Nat /\ h \in Nat /\ g <= h /\ a <= e /\ e - a = n /\ e <= end /\ e <= Len(b) /\ e <= Len(text)
      /\ from + g = a /\ from + h = e
  BY <1>1, <1>2, <1>3, <1>4
<1> HIDE DEF h, a, e
<1>6. Piece(Reply(version), g, h) = Piece(b, a, e)
  <2>1. Piece(Piece(b, from, end), g, h) = Piece(b, from + g, from + h)
    <3>1. b \in Seq(Bytes) /\ from \in Nat /\ end \in Nat /\ from <= end /\ end <= Len(b) /\ g \in Nat
          /\ h \in Nat /\ g <= h /\ h <= end - from
      BY <1>1, <1>2, <1>3, <1>4, <1>5
    <3> QED
      BY ONLY <3>1, PieceOfPiece
  <2> QED
    BY <1>3, <1>5, <2>1
<1>7. /\ Piece(text, a, e) \in Seq(Bytes) /\ Len(Piece(text, a, e)) = n
  <2>1. Piece(text, a, e) \in Seq(Bytes) /\ Len(Piece(text, a, e)) = e - a
    <3>1. text \in Seq(Bytes) /\ a \in Nat /\ e \in Nat /\ a <= e /\ e <= Len(text)
      BY <1>1, <1>5
    <3> QED
      BY ONLY <3>1, PieceProperties
  <2> QED
    BY <1>5, <2>1
<1>8. ASSUME NEW opened, opened = Piece(text, a, e) PROVE OpensTo(version, g, n, opened)
  BY <1>5, <1>7, <1>8 DEF OpensTo, a, e, from, end, b
<1>9. CASE Opens(version)
  <2> DEFINE iv == SeekIV(IV, from)
  <2>1. text = Process(IV, 0, b)
    BY <1>9 DEF OpenText, b
  <2>2. from % Block = 0 /\ from <= Size /\ IV \in Int /\ IV \in Nat
    BY <1>9, CipherAssumption DEF CallFacts, Opens, from
  <2>3. iv \in Nat /\ KeyAt(iv, 0) = KeyAt(IV, from)
    BY <1>2, <2>2, SeekAligned
  <2> HIDE DEF iv
  <2>4. /\ KeyAt(IV, from) = KeyAt(IV, 0) + from /\ KeyAt(iv, g) = KeyAt(iv, 0) + g
        /\ KeyAt(IV, 0) \in Int
    <3>1. iv \in Int /\ IV \in Int /\ from \in Int /\ g \in Int /\ 0 \in Int
      BY <1>2, <2>2, <2>3
    <3> QED
      BY <3>1, KeyAtMoves, KeyAtType
  <2>5. KeyAt(iv, g) = KeyAt(IV, 0) + a
    BY <1>2, <1>5, <2>3, <2>4
  <2>6. Process(iv, g, Piece(b, a, e)) = Piece(Process(IV, 0, b), a, e)
    <3>1. /\ IV \in Int /\ iv \in Int /\ 0 \in Int /\ g \in Int /\ b \in Seq(Bytes) /\ a \in Nat /\ e \in Nat
          /\ a <= e /\ e <= Len(b)
      BY <1>1, <1>5, <2>2, <2>3
    <3> QED
      BY ONLY <3>1, <2>5, ProcessOfPiece
  <2> QED
    BY <1>6, <1>8, <1>9, <2>1, <2>6 DEF iv, from, h
<1>10. CASE ~ Opens(version)
  <2>1. text = b
    BY <1>10 DEF OpenText, b
  <2> QED
    BY <1>6, <1>8, <1>10, <2>1 DEF h
<1> QED
  BY <1>9, <1>10

\* What is left of it when the first of a block's bytes are discarded.
KeptOf(version, g, n, opened) ==
    LET k == Least(ToDiscard(g), Len(opened))
    IN  /\ Drop(opened, k) = Piece(Expected(version), Beyond(g), Beyond(g + n))
        /\ Drop(opened, k) \in Seq(Bytes)
        /\ ToDiscard(g) - (Len(opened) - Len(Drop(opened, k))) = ToDiscard(g + n)
        /\ Beyond(g) \in Nat /\ Beyond(g + n) \in Nat /\ Beyond(g) <= Beyond(g + n)
        /\ Beyond(g + n) <= Len(Expected(version)) /\ ToDiscard(g + n) \in Nat
LEMMA ChunkKept ==
    ASSUME CallFacts, NEW version \in Versions, NEW g \in Nat, NEW n \in Nat \ {0}, g + n <= Len(Reply(version)),
           NEW opened, OpensTo(version, g, n, opened)
    PROVE  KeptOf(version, g, n, opened)
<1> DEFINE text == OpenText(version)
           end == RangeEnd(Len(text))
           from == Requested
           first == call.first
           skip == Skip
           a == from + g
           e == from + g + n
           k == Least(ToDiscard(g), n)
           E == Expected(version)
           x == Beyond(g)
           y == Beyond(g + n)
<1>1. /\ TextFacts(version) /\ text \in Seq(Bytes) /\ Len(text) = Len(version.bytes)
      /\ E = InRange(text, first) /\ E \in Seq(Bytes)
  BY TextIsKnown DEF TextFacts
<1>2. from \in Nat /\ skip \in Nat /\ first = from + skip /\ first \in Nat
  BY DEF CallFacts
<1>3. E = Piece(text, first, end) /\ end \in Nat /\ end <= Len(text)
  BY <1>1, <1>2, RangeFacts
<1>4. /\ opened = Piece(text, a, e) /\ Len(opened) = n /\ e <= end
  BY <1>1 DEF OpensTo
<1>5. /\ x = IF g <= skip THEN 0 ELSE g - skip
      /\ y = IF g + n <= skip THEN 0 ELSE (g + n) - skip
      /\ ToDiscard(g) = IF g <= skip THEN skip - g ELSE 0
      /\ ToDiscard(g + n) = IF g + n <= skip THEN skip - (g + n) ELSE 0
      /\ k = IF ToDiscard(g) < n THEN ToDiscard(g) ELSE n
  <2>1. \A i : /\ Beyond(i) = IF i <= skip THEN 0 ELSE i - skip
               /\ ToDiscard(i) = IF i <= skip THEN skip - i ELSE 0
    BY DEF Beyond, ToDiscard
  <2>2. k = IF ToDiscard(g) < n THEN ToDiscard(g) ELSE n
    BY DEF Least
  <2> HIDE DEF k, skip
  <2>3. x = IF g <= skip THEN 0 ELSE g - skip
    BY <2>1
  <2>4. y = IF g + n <= skip THEN 0 ELSE (g + n) - skip
    BY <2>1, Zenon
  <2>5. ToDiscard(g) = IF g <= skip THEN skip - g ELSE 0
    BY <2>1, Zenon
  <2>6. ToDiscard(g + n) = IF g + n <= skip THEN skip - (g + n) ELSE 0
    BY <2>1, Zenon
  <2> QED
    BY <2>2, <2>3, <2>4, <2>5, <2>6, Zenon
<1>6. x \in Nat /\ y \in Nat /\ y <= Len(E)
  <2>1. g <= Len(Reply(version)) /\ g + n \in Nat
    BY <1>1 DEF TextFacts
  <2> QED
    BY <2>1, ReplyShows
<1> HIDE DEF text, end, from, first, skip, E, x, y, k
<1>7. k \in Nat /\ k <= n /\ a \in Nat /\ e \in Nat /\ a + k <= e /\ a <= e /\ e <= Len(text) /\ e - a = n
      /\ a + k \in Nat /\ x <= y
  BY ONLY <1>1, <1>2, <1>3, <1>4, <1>5, <1>6, g \in Nat, n \in Nat \ {0}
<1> DEFINE b == a + k
<1>8. Drop(opened, k) = Piece(text, b, e) /\ b \in Nat /\ b <= e /\ e - b = n - k
  <2>1. Drop(Piece(text, a, e), k) = Piece(text, a + k, e)
    <3>1. text \in Seq(Bytes) /\ a \in Nat /\ e \in Nat /\ a <= e /\ e <= Len(text) /\ k \in Nat /\ a + k <= e
      BY <1>1, <1>7
    <3> HIDE DEF a, e
    <3> QED
      BY ONLY <3>1, ChunkTaken
  <2> QED
    BY <1>4, <1>7, <2>1
<1> HIDE DEF a, e, b
<1>9. Piece(text, b, e) \in Seq(Bytes) /\ Len(Piece(text, b, e)) = e - b
  <2>1. text \in Seq(Bytes) /\ b \in Nat /\ e \in Nat /\ b <= e /\ e <= Len(text)
    BY <1>1, <1>7, <1>8
  <2> QED
    BY ONLY <2>1, PieceProperties
<1>10. Piece(E, x, y) = Piece(text, b, e)
  <2>1. CASE k = n
    <3>1. x = y /\ b = e
      <4>1. g + n <= skip
        BY <1>2, <1>5, <2>1
      <4>2. b = e
        BY <1>7, <1>8, <2>1
      <4> QED
        BY <1>2, <1>5, <4>1, <4>2
    <3> QED
      BY <1>6, <1>7, <3>1, EmptyPiece
  <2>2. CASE k < n
    <3>1. g + n > skip /\ k = ToDiscard(g)
      BY <1>2, <1>5, <2>2
    <3>2. first + x = b /\ first + y = e /\ first <= end /\ y <= end - first
      BY <1>2, <1>3, <1>4, <1>5, <1>6, <3>1 DEF b, a, e
    <3>3. Piece(Piece(text, first, end), x, y) = Piece(text, first + x, first + y)
      <4>1. /\ text \in Seq(Bytes) /\ first \in Nat /\ end \in Nat /\ first <= end /\ end <= Len(text)
            /\ x \in Nat /\ y \in Nat /\ x <= y /\ y <= end - first
        BY <1>1, <1>2, <1>3, <1>6, <1>7, <3>2
      <4> QED
        BY ONLY <4>1, PieceOfPiece
    <3> QED
      BY <1>3, <3>2, <3>3
  <2> QED
    BY <1>7, <2>1, <2>2
<1>11. ToDiscard(g) - (n - (n - k)) = ToDiscard(g + n) /\ ToDiscard(g + n) \in Nat
  <2> DEFINE p == ToDiscard(g)
             q == ToDiscard(g + n)
  <2>1. /\ p = IF g <= skip THEN skip - g ELSE 0
        /\ q = IF g + n <= skip THEN skip - (g + n) ELSE 0
        /\ k = IF p < n THEN p ELSE n
    BY <1>5
  <2> HIDE DEF p, q
  <2>2. p - (n - (n - k)) = q /\ q \in Nat
    BY ONLY <1>2, <2>1, g \in Nat, n \in Nat \ {0}
  <2> QED
    BY <2>2 DEF p, q
<1>12. /\ Drop(opened, k) = Piece(E, x, y) /\ Drop(opened, k) \in Seq(Bytes) /\ Len(Drop(opened, k)) = n - k
  BY <1>8, <1>9, <1>10
<1>13. Len(opened) - Len(Drop(opened, k)) = n - (n - k)
  BY <1>4, <1>12
<1> QED
  BY <1>4, <1>6, <1>7, <1>11, <1>12, <1>13, Zenon DEF KeptOf, k, E, x, y

\* What write leaves of a chain.
SameChain(c, w) ==
    /\ w \in Chains /\ SinkFits(w.sink)
    /\ w.asked = c.asked /\ w.source = c.source /\ w.decrypts = c.decrypts /\ w.iv = c.iv /\ w.framed = c.framed

\* The sink goes on in the range, and takes all of what it is given or fails.
GoesOn(s, t, E, x, y) ==
    /\ t \in SinkStates /\ SinkFits(t)
    /\ \E j \in x .. y : t.data = Piece(E, 0, j) /\ (t.state = "good" => j = y)
LEMMA SinkGoesOn ==
    ASSUME NEW E \in Seq(Bytes), NEW x \in Nat, NEW y \in Nat, x <= y, y <= Len(E),
           NEW s \in SinkStates, s.state = "good", SinkFits(s), s.data = Piece(E, 0, x),
           NEW kept, kept = Piece(E, x, y)
    PROVE  GoesOn(s, IF kept = <<>> THEN s ELSE SinkWrite(s, kept), E, x, y)
<1>1. kept \in Seq(Bytes) /\ Len(kept) = y - x
  BY PieceProperties
<1>2. CASE kept = <<>>
  <2>1. x = y
    BY <1>1, <1>2, EmptySeq
  <2> QED
    BY <1>2, <2>1 DEF GoesOn
<1>3. CASE kept # <<>>
  <2> DEFINE t == SinkWrite(s, kept)
  <2>1. t \in SinkStates /\ SinkFits(t)
    BY <1>1, SinkTakes
  <2>2. PICK j \in 0 .. Len(kept) :
           t.data = s.data \o Piece(kept, 0, j) /\ (t.state = "good" => j = Len(kept))
    BY <1>1, SinkTakes
  <2> HIDE DEF t
  <2> DEFINE z == 0
             e == x + j
             l == y - x
  <2>3. /\ z \in Nat /\ e \in Nat /\ j \in Nat /\ j <= l /\ z <= j /\ z <= x /\ x <= e /\ e <= y /\ e <= Len(E)
        /\ x + z = x /\ l \in Nat /\ l = Len(kept) /\ (j = l => e = y)
    BY <1>1, <2>2
  <2> HIDE DEF z, e, l
  <2>4. Piece(kept, z, j) = Piece(E, x, e)
    <3>1. Piece(Piece(E, x, y), z, j) = Piece(E, x + z, x + j)
      <4>1. j <= y - x
        BY <2>3 DEF l
      <4>2. E \in Seq(Bytes) /\ x \in Nat /\ y \in Nat /\ x <= y /\ y <= Len(E) /\ z \in Nat /\ j \in Nat /\ z <= j
        BY <2>3
      <4> QED
        BY ONLY <4>1, <4>2, PieceOfPiece
    <3> QED
      BY <2>3, <3>1 DEF e
  <2>5. Piece(E, z, x) \o Piece(E, x, e) = Piece(E, z, e)
    <3>1. E \in Seq(Bytes) /\ z \in Nat /\ x \in Nat /\ e \in Nat /\ z <= x /\ x <= e /\ e <= Len(E)
      BY <2>3
    <3> QED
      BY ONLY <3>1, PiecesJoin
  <2>6. t.data = Piece(E, 0, e)
    BY <2>2, <2>4, <2>5 DEF z
  <2>7. e \in x .. y /\ (t.state = "good" => e = y)
    BY <2>2, <2>3
  <2> QED
    BY <1>3, <2>1, <2>6, <2>7 DEF GoesOn, t
<1> QED
  BY <1>2, <1>3

AfterPlain(version, c, g, n, w) ==
    /\ SameChain(c, w) /\ w.decoder = c.decoder
    /\ w.at = g + n /\ w.discard = ToDiscard(g + n)
    /\ GoesOn(c.sink, w.sink, Expected(version), Beyond(g), Beyond(g + n))
LEMMA PlainWritten ==
    ASSUME CallFacts, NEW version \in Versions, NEW c \in Chains, SinkFits(c.sink), c.sink.state = "good",
           ~ c.framed, c.decrypts = Opens(version), c.iv = SeekIV(IV, Requested),
           NEW g \in Nat, NEW n \in Nat \ {0}, g + n <= Len(Reply(version)),
           c.at = g, c.discard = ToDiscard(g), c.sink.data = Piece(Expected(version), 0, Beyond(g)),
           NEW w, w = Written(c, Piece(Reply(version), g, g + n))
    PROVE  AfterPlain(version, c, g, n, w)
<1> DEFINE E == Expected(version)
           x == Beyond(g)
           y == Beyond(g + n)
           bytes == Piece(Reply(version), g, g + n)
           opened == IF c.decrypts THEN Process(c.iv, c.at, bytes) ELSE bytes
           kept == Drop(opened, Least(c.discard, Len(opened)))
           at2 == c.at + Len(bytes)
           discard2 == c.discard - (Len(opened) - Len(kept))
           sink2 == IF kept = <<>> THEN c.sink ELSE SinkWrite(c.sink, kept)
<1>1. OpensTo(version, g, n, opened)
  BY ChunkOpened
<1>2. Len(bytes) = n
  <2> DEFINE h == g + n
  <2>1. h \in Nat /\ g <= h /\ h <= Len(Reply(version)) /\ h - g = n /\ Reply(version) \in Seq(Bytes)
    BY TextIsKnown DEF TextFacts
  <2> HIDE DEF h
  <2>2. Len(Piece(Reply(version), g, h)) = h - g
    BY <2>1, PieceProperties
  <2> QED
    BY <2>1, <2>2 DEF h
<1>3. w = [c EXCEPT !.at = at2, !.discard = discard2, !.sink = sink2]
  BY DEF Written
<1> HIDE DEF bytes, opened
<1>4. KeptOf(version, g, n, opened)
  BY <1>1, ChunkKept
<1>5. /\ kept = Piece(E, x, y) /\ discard2 = ToDiscard(g + n) /\ discard2 \in Nat
      /\ x \in Nat /\ y \in Nat /\ x <= y /\ y <= Len(E)
  BY <1>4 DEF KeptOf
<1>6. at2 = g + n /\ at2 \in Nat
  BY <1>2
<1> HIDE DEF kept, at2, discard2, x, y, E
<1>7. E \in Seq(Bytes)
  BY TextIsKnown DEF TextFacts, E
<1>8. c.sink \in SinkStates /\ c.sink.data = Piece(E, 0, x)
  BY DEF Chains, E, x
<1>9. GoesOn(c.sink, sink2, E, x, y)
  BY <1>5, <1>7, <1>8, SinkGoesOn
<1> HIDE DEF sink2
<1>10. sink2 \in SinkStates /\ SinkFits(sink2)
  BY <1>9 DEF GoesOn
<1>11. /\ w \in Chains /\ w.sink = sink2 /\ w.at = at2 /\ w.discard = discard2 /\ w.decoder = c.decoder
       /\ w.asked = c.asked /\ w.source = c.source /\ w.decrypts = c.decrypts /\ w.iv = c.iv /\ w.framed = c.framed
  BY ONLY <1>3, <1>5, <1>6, <1>10, c \in Chains DEF Chains
<1> QED
  BY <1>5, <1>6, <1>9, <1>10, <1>11 DEF AfterPlain, SameChain, E, x, y

\* The same of a chain with a decoder.
LEMMA FramesWritten ==
    ASSUME NEW B \in Seq(Bytes), NEW F \in Seq(Bytes), NEW fs \in Seq(FrameInfo), IsLayout(F, fs, B),
           NEW c \in Chains, SinkFits(c.sink), c.sink.state = "good", c.framed, ~ c.decrypts,
           NEW g \in Nat, NEW e \in Nat, g <= e, e <= Len(F), IsAt(c.decoder, c.sink.data, F, fs, B, g),
           NEW w, w = Written(c, Piece(F, g, e))
    PROVE  /\ SameChain(c, w)
           /\ Starts(w.sink.data, B) /\ Len(c.sink.data) <= Len(w.sink.data)
           /\ ~ w.decoder.error => w.sink.state = "good" /\ IsAt(w.decoder, w.sink.data, F, fs, B, e)
<1> DEFINE r == ProcessBuffer(c.decoder, c.sink, Piece(F, g, e))
           d2 == r.decoder
           s2 == r.sink
<1>1. c.decoder \in Decoders /\ c.sink \in SinkStates
  BY DEF Chains
<1>2. /\ d2 \in Decoders /\ s2 \in SinkStates /\ SinkFits(s2)
      /\ Starts(s2.data, B) /\ Len(c.sink.data) <= Len(s2.data)
      /\ ~ d2.error => s2.state = "good" /\ IsAt(d2, s2.data, F, fs, B, e)
  BY <1>1, ChunkDecoded
<1>3. w = [c EXCEPT !.decoder = d2, !.sink = s2]
  BY DEF Written
<1> HIDE DEF d2, s2
<1>4. /\ w \in Chains /\ w.sink = s2 /\ w.decoder = d2
      /\ w.asked = c.asked /\ w.source = c.source /\ w.decrypts = c.decrypts /\ w.iv = c.iv /\ w.framed = c.framed
  BY ONLY <1>2, <1>3, c \in Chains DEF Chains
<1> QED
  BY <1>2, <1>4 DEF SameChain

-----------------------------------------------------------------------------
(* The chain of a response, from the supplier's answer to the last chunk.  *)

\* What a sink is to receive has the length of the range.
LEMMA DeliveredFacts ==
    ASSUME CallFacts, NEW source \in Sources, Shaped(source)
    PROVE  /\ Delivered(source) \in Seq(Bytes) /\ Len(Delivered(source)) = Len(Expected(source.version))
           /\ Expected(source.version) \in Seq(Bytes)
           /\ \A i \in 1 .. Len(Expected(source.version)) :
                 Delivered(source)[i] # Expected(source.version)[i] => source.rotten /\ i = 1
           /\ ~ source.rotten => Delivered(source) = Expected(source.version)
           /\ source.framed => Delivered(source) = Spoilable(source.version.bytes, source.rotten)
<1> DEFINE version == source.version
           E == Expected(version)
           b == version.bytes
<1>1. version \in Versions /\ source.rotten \in BOOLEAN
  BY DEF Sources
<1>2. TextFacts(version) /\ E \in Seq(Bytes) /\ b \in Seq(Bytes)
  BY <1>1, TextIsKnown DEF TextFacts
<1>3. CASE ~ source.framed
  <2>1. ~ source.rotten
    BY <1>3 DEF Shaped
  <2> QED
    BY <1>2, <1>3, <2>1 DEF Delivered, Spoilable
<1>4. CASE source.framed
  <2>1. b # <<>> /\ call.first = 0 /\ call.last = Rest /\ ~ call.decrypting
    BY <1>4 DEF Shaped, CallFacts
  <2>2. E = b
    <3>1. E = InRange(b, call.first)
      BY <1>2, <2>1 DEF TextFacts, OpenText, Opens
    <3>2. InRange(b, call.first) = Piece(b, call.first, Len(b))
      BY <1>2, <2>1, RangeFacts DEF RangeEnd
    <3>3. Piece(b, 0, Len(b)) = b
      BY <1>2, FullPiece
    <3> QED
      BY <2>1, <3>1, <3>2, <3>3
  <2>3. Len(b) >= 1
    BY <1>2, <2>1, LenProperties, EmptySeq
  <2> HIDE DEF E, b
  <2>4. Delivered(source) = Spoilable(b, source.rotten)
    BY <2>2 DEF Delivered, E, version
  <2>5. CASE source.rotten
    <3>1. Delivered(source) = SpoiltFirst(b)
      BY <2>4, <2>5 DEF Spoilable
    <3>2. /\ SpoiltFirst(b) \in Seq(Bytes) /\ Len(SpoiltFirst(b)) = Len(b)
          /\ \A i \in 1 .. Len(b) : SpoiltFirst(b)[i] = IF i = 1 THEN Byte(0) ELSE b[i]
      BY <1>2, <2>3, SpoiltPieces
    <3>3. \A i \in 1 .. Len(b) : SpoiltFirst(b)[i] # b[i] => i = 1
      BY <3>2
    <3> QED
      BY <1>2, <2>2, <2>4, <2>5, <3>1, <3>2, <3>3 DEF E, b, version
  <2>6. CASE ~ source.rotten
    <3>1. Delivered(source) = b
      BY <2>4, <2>6 DEF Spoilable
    <3> QED
      BY <1>2, <2>2, <2>4, <2>6, <3>1 DEF E, b, version
  <2> QED
    BY <2>5, <2>6
<1> QED
  BY <1>3, <1>4

\* The chain that the suppliers give.
LEMMA SupplyFacts ==
    ASSUME CallFacts, served \in Sources
    PROVE  /\ Supply \in Chains /\ SinkFits(Supply.sink) /\ Supply.sink.data = <<>>
           /\ Supply.asked /\ Supply.source = served /\ Supply.framed = served.framed
           /\ Supply.decrypts = Opens(served.version) /\ Supply.iv = SeekIV(IV, Requested)
           /\ Supply.at = 0 /\ Supply.discard = Skip /\ Supply.decoder = NewDecoder
           /\ (call.op = "select" => ~ Supply.decrypts)
<1> DEFINE sink == NewSink(call.to.kind, call.to.capacity)
           envelope == IF call.decrypting THEN served.version.envelope ELSE "none"
           sink2 == IF envelope = "foreign" THEN [sink EXCEPT !.state = "bad"] ELSE sink
           opens == envelope = "ours"
           iv == SeekIV(IV, Requested)
           discard == IF call.decrypting THEN DiscardCount ELSE 0
<1>1. sink2 \in SinkStates /\ SinkFits(sink2) /\ sink2.data = <<>>
  <2> DEFINE kind == call.to.kind
             capacity == call.to.capacity
  <2>1. kind \in {"string", "file", "memory"} /\ capacity \in Nat /\ <<>> \in Seq(Bytes) /\ Len(<<>>) = 0
    BY EmptySeq DEF CallFacts
  <2> DEFINE none == <<>>
  <2>a. none \in Seq(Bytes) /\ sink = [kind |-> kind, data |-> none, capacity |-> capacity, state |-> "good"]
    BY <2>1 DEF NewSink
  <2> HIDE DEF kind, capacity, envelope, sink, none
  <2>b. sink \in SinkStates /\ sink.data = none /\ sink.capacity = capacity
    BY ONLY <2>a, <2>1 DEF SinkStates
  <2>2. sink \in SinkStates /\ sink.data = <<>> /\ sink.capacity = capacity
    BY <2>b DEF none
  <2>3. sink2 \in SinkStates /\ sink2.data = <<>> /\ sink2.capacity = capacity
    BY <2>2 DEF SinkStates
  <2> QED
    BY <2>1, <2>3 DEF SinkFits
<1>2. opens = Opens(served.version) /\ opens \in BOOLEAN
  BY DEF Opens
<1>3. iv \in Int
  <2>1. IV \in Nat /\ Wrap \in Nat \ {0} /\ Block \in Nat \ {0} /\ Requested \in Nat
    BY CipherAssumption DEF CallFacts
  <2> QED
    BY <2>1 DEF SeekIV
<1>4. discard = Skip /\ discard \in Nat
  BY DEF CallFacts
<1>5. NewDecoder \in Decoders
  <2>1. <<>> \in Seq(Bytes)
    BY EmptySeq
  <2> QED
    BY <2>1 DEF NewDecoder, Decoders
<1>6. Supply = [asked |-> TRUE, source |-> served, decrypts |-> opens, iv |-> iv, at |-> 0,
                discard |-> discard, framed |-> served.framed, decoder |-> NewDecoder, sink |-> sink2]
  BY DEF Supply
<1>7. served.framed \in BOOLEAN
  BY DEF Sources
<1>8. call.op = "select" => ~ Opens(served.version)
  BY DEF CallFacts, Opens
<1> HIDE DEF sink2, opens, iv, discard
<1>9. Supply \in Chains
  BY <1>1, <1>2, <1>3, <1>4, <1>5, <1>6, <1>7 DEF Chains
<1> QED
  BY <1>1, <1>2, <1>4, <1>6, <1>8, <1>9 DEF iv

\* A decoder before the first byte.
LEMMA DecoderBegins ==
    ASSUME NEW F, NEW B, NEW fs, IsLayout(F, fs, B), fs \in Seq(FrameInfo)
    PROVE  IsAt(NewDecoder, <<>>, F, fs, B, 0)
<1>1. Len(fs) \in Nat /\ Len(fs) >= 1 /\ fs[1].start = 0 /\ fs[1].lo = 0
  BY LenProperties DEF IsLayout
<1>2. fs[1].len \in Nat
  <2>1. 1 \in 1 .. Len(fs)
    BY <1>1
  <2>2. fs[1] \in FrameInfo
    BY <2>1, ElementOfSeq
  <2> QED
    BY <2>2 DEF FrameInfo
<1>3. /\ Piece(F, 0, 0) = <<>> /\ Piece(B, 0, 0) = <<>> /\ Least(0, HeaderLen) = 0 /\ PayloadAt(fs[1], 0) = 0
      /\ ~ (0 >= HeaderLen) /\ 0 <= HeaderLen + fs[1].len
  BY <1>2, EmptyPiece DEF Least, HeaderLen, PayloadAt
<1>4. DecoderAt(NewDecoder, F, fs[1], 0)
  BY <1>1, <1>3 DEF DecoderAt, NewDecoder
<1>5. InFrame(NewDecoder, <<>>, F, fs, B, 0, 1, 0)
  <2>1. 0 < fs[1].len + 4 /\ fs[1].start + 0 = 0 /\ fs[1].lo + (IF fs[1].type = DataFrame THEN PayloadAt(fs[1], 0) ELSE 0) = 0
    BY <1>1, <1>2, <1>3
  <2>2. \A j \in 1 .. 1 - 1 : Intact(F, fs[j])
    OBVIOUS
  <2> QED
    BY <1>3, <1>4, <2>1, <2>2 DEF InFrame
<1>6. 1 \in 1 .. Len(fs) /\ 0 \in 0 .. fs[1].len + 3
  BY <1>1, <1>2
<1> QED
  BY <1>5, <1>6 DEF IsAt

\* The chain that is asked for is before the first byte of the response.
LEMMA SupplyReady ==
    ASSUME CallFacts, served \in Sources, Shaped(served), Accepts(Supply),
           IF served.framed THEN coming \in Streams(served) ELSE coming = Reply(served.version)
    PROVE  coming \in Seq(Bytes) /\ OnTheWay(Supply, coming, 0)
<1> DEFINE version == served.version
<1>1. version \in Versions /\ TextFacts(version)
  BY TextIsKnown DEF Sources
<1>2. ~ Failed(Supply)
  BY DEF Accepts
<1>3. CASE ~ served.framed
  <2> DEFINE R == Reply(version)
             z == 0
  <2>1. R \in Seq(Bytes) /\ Len(R) \in Nat /\ coming = R
    BY <1>1, <1>3, LenProperties DEF TextFacts
  <2>2. Piece(R, 0, Len(R)) = R
    BY <2>1, FullPiece
  <2>3. ToDiscard(0) = Skip /\ Beyond(0) = 0
    BY DEF ToDiscard, Beyond, CallFacts
  <2>4. Piece(Expected(version), 0, 0) = <<>>
    BY EmptyPiece
  <2>5. PlainAt(Supply, coming)
    <3>1. 0 \in 0 .. Len(R)
      BY <2>1
    <3> QED
      BY <2>1, <2>2, <2>3, <2>4, <3>1, SupplyFacts DEF PlainAt
  <2> QED
    BY <1>2, <1>3, <2>1, <2>5, SupplyFacts DEF OnTheWay
<1>4. CASE served.framed
  <2> DEFINE B == Spoilable(version.bytes, served.rotten)
  <2>1. /\ version.bytes \in Seq(Sound) /\ version.bytes # <<>> /\ served.checked \in BOOLEAN
    BY <1>1, <1>4 DEF Versions, Shaped, Sources
  <2>2. /\ coming \in Seq(Bytes)
        /\ \E fs \in Layouts(Len(B)) : StreamOf(coming, fs, B, served.rotten /\ served.checked)
    BY <1>4, <2>1, StreamsLaid
  <2>3. PICK fs \in Layouts(Len(B)) : StreamOf(coming, fs, B, served.rotten /\ served.checked)
    BY <2>2
  <2>4. Delivered(served) = B
    BY <1>4, DeliveredFacts
  <2> HIDE DEF B
  <2>5. fs \in Seq(FrameInfo) /\ IsAt(NewDecoder, <<>>, coming, fs, B, 0)
    BY <2>3, DecoderBegins DEF StreamOf
  <2>6. Len(coming) \in Nat /\ 0 \in 0 .. Len(coming) /\ coming = Piece(coming, 0, Len(coming))
    BY <2>2, LenProperties, FullPiece
  <2>7. FramedAt(Supply, coming)
    BY <2>2, <2>3, <2>4, <2>5, <2>6, SupplyFacts DEF FramedAt
  <2> QED
    BY <1>2, <1>4, <2>2, <2>7, SupplyFacts DEF OnTheWay
<1> QED
  BY <1>3, <1>4

\* While there is no error the decoder is not past a frame that has one.
LEMMA StaysInFirst ==
    ASSUME NEW F \in Seq(Bytes), NEW B \in Seq(Bytes), NEW fs \in Seq(FrameInfo), StreamOf(F, fs, B, TRUE),
           NEW d, NEW data, NEW g \in Nat, IsAt(d, data, F, fs, B, g)
    PROVE  g < EndOf(fs[1])
<1>1. IsLayout(F, fs, B) /\ ~ Intact(F, fs[1]) /\ Len(fs) \in Nat /\ 1 \in 1 .. Len(fs)
  BY LenProperties DEF StreamOf, IsLayout
<1>2. ~ AllRead(d, data, F, fs, B, g)
  BY <1>1 DEF AllRead
<1>3. PICK k \in 1 .. Len(fs) : \E p \in 0 .. fs[k].len + 3 : InFrame(d, data, F, fs, B, g, k, p)
  BY <1>2 DEF IsAt
<1>4. PICK p \in 0 .. fs[k].len + 3 : InFrame(d, data, F, fs, B, g, k, p)
  BY <1>3
<1>5. k = 1
  <2>1. \A j \in 1 .. k - 1 : Intact(F, fs[j])
    BY <1>4 DEF InFrame
  <2>2. ~ (1 \in 1 .. k - 1)
    BY <1>1, <2>1
  <2> QED
    BY <1>1, <2>2
<1>6. g = fs[1].start + p /\ p < fs[1].len + 4
  BY <1>4, <1>5 DEF InFrame
<1>7. fs[1].start \in Nat /\ fs[1].len \in Nat
  BY <1>1, FrameFacts
<1>8. p \in Nat
  BY <1>5, <1>7
<1> DEFINE b == fs[1].start
           l == fs[1].len
<1>9. EndOf(fs[1]) = b + l + 4
  BY DEF EndOf
<1>10. g = b + p /\ p < l + 4 /\ b \in Nat /\ l \in Nat
  BY <1>6, <1>7
<1> HIDE DEF b, l
<1>11. g < b + l + 4
  BY ONLY <1>8, <1>10
<1> QED
  BY <1>9, <1>11, Zenon

\* A chunk takes the chain on its way.
LEMMA ChunkOnTheWay ==
    ASSUME CallFacts, served \in Sources, Shaped(served), NEW c \in Chains, SinkFits(c.sink),
           NEW left \in Seq(Bytes), NEW last, OnTheWay(c, left, last), Accepts(c),
           NEW n \in Nat \ {0}, n <= Len(left), NEW w, w = Written(c, Take(left, n))
    PROVE  /\ SameChain(c, w) /\ Starts(w.sink.data, Delivered(served))
           /\ Drop(left, n) \in Seq(Bytes) /\ OnTheWay(w, Drop(left, n), n)
<1> DEFINE version == served.version
           D == Delivered(served)
           rest == Drop(left, n)
<1>1. version \in Versions /\ TextFacts(version)
  BY TextIsKnown DEF Sources
<1>2. D \in Seq(Bytes) /\ Len(D) = Len(Expected(version)) /\ Len(D) \in Nat
  BY DeliveredFacts, LenProperties
<1>3. ~ Failed(c) /\ ~ c.decoder.error /\ c.sink.state = "good"
  BY DEF Accepts, Failed
<1>4. /\ c.source = served /\ c.framed = served.framed
      /\ c.decrypts = Opens(version) /\ c.iv = SeekIV(IV, Requested)
      /\ IF c.framed THEN FramedAt(c, left) ELSE PlainAt(c, left)
  BY <1>3 DEF OnTheWay
\* The chunk in what the response is made of.
<1>5. ASSUME NEW F \in Seq(Bytes), NEW g \in 0 .. Len(F), left = Piece(F, g, Len(F))
      PROVE  /\ g \in Nat /\ g + n \in Nat /\ g + n <= Len(F) /\ g <= Len(F) /\ Len(F) \in Nat
             /\ Take(left, n) = Piece(F, g, g + n) /\ rest = Piece(F, g + n, Len(F))
             /\ rest \in Seq(Bytes) /\ n + Len(rest) = Len(F) - g
  <2> DEFINE e == Len(F)
             h == g + n
  <2>1. e \in Nat /\ g \in Nat /\ g <= e /\ e <= Len(F) /\ h \in Nat
    BY LenProperties
  <2> HIDE DEF e
  <2>2. Len(left) = e - g
    BY <1>5, <2>1, PieceProperties DEF e
  <2>3. h <= e
    BY <2>1, <2>2
  <2>4. Take(Piece(F, g, e), n) = Piece(F, g, g + n) /\ Drop(Piece(F, g, e), n) = Piece(F, g + n, e)
    <3>1. F \in Seq(Bytes) /\ g \in Nat /\ e \in Nat /\ g <= e /\ e <= Len(F) /\ n \in Nat /\ g + n <= e
      BY <2>1, <2>3
    <3> QED
      BY ONLY <3>1, ChunkTaken
  <2> HIDE DEF h
  <2>5. Piece(F, h, e) \in Seq(Bytes) /\ Len(Piece(F, h, e)) = e - h
    <3>1. F \in Seq(Bytes) /\ h \in Nat /\ e \in Nat /\ h <= e /\ e <= Len(F)
      BY <2>1, <2>3
    <3> QED
      BY ONLY <3>1, PieceProperties
  <2>6. n + (e - h) = e - g
    BY <2>1, <2>3 DEF h
  <2>7. rest = Piece(F, h, e)
    BY <1>5, <2>4 DEF e, h
  <2> QED
    BY <1>5, <2>1, <2>3, <2>4, <2>5, <2>6, <2>7 DEF e, h
<1>6. CASE ~ served.framed
  <2>0. Behind(n + Len(rest))
    BY <1>6 DEF Shaped, Behind
  <2> DEFINE R == Reply(version)
             E == Expected(version)
  <2>1. R \in Seq(Bytes) /\ E \in Seq(Bytes) /\ D = E
    <3>1. ~ served.rotten
      BY <1>6 DEF Shaped
    <3> QED
      BY <1>1, <3>1, DeliveredFacts DEF TextFacts
  <2>2. PICK g \in 0 .. Len(R) :
           left = Piece(R, g, Len(R)) /\ c.at = g /\ c.discard = ToDiscard(g) /\ c.sink.data = Piece(E, 0, Beyond(g))
    BY <1>4, <1>6 DEF PlainAt
  <2>3. /\ g \in Nat /\ g + n \in Nat /\ g + n <= Len(R) /\ g <= Len(R) /\ Len(R) \in Nat
        /\ Take(left, n) = Piece(R, g, g + n) /\ rest = Piece(R, g + n, Len(R))
        /\ rest \in Seq(Bytes) /\ n + Len(rest) = Len(R) - g
    <3> HIDE DEF R
    <3> QED
      BY <1>5, <2>1, <2>2
  <2>4. /\ SameChain(c, w) /\ w.decoder = c.decoder /\ w.at = g + n /\ w.discard = ToDiscard(g + n)
        /\ GoesOn(c.sink, w.sink, E, Beyond(g), Beyond(g + n))
    <3>1. ~ c.framed /\ w = Written(c, Piece(Reply(version), g, g + n)) /\ g + n <= Len(Reply(version))
      BY <1>4, <1>6, <2>3
    <3>2. AfterPlain(version, c, g, n, w)
      BY <1>1, <1>3, <1>4, <2>2, <2>3, <3>1, PlainWritten
    <3> QED
      BY <3>2 DEF AfterPlain
  <2>5. /\ Beyond(g) \in Nat /\ Beyond(g + n) \in Nat /\ Beyond(g + n) <= Len(E)
        /\ Len(E) - Beyond(g) <= Len(R) - g
    BY <1>1, <2>3, ReplyShows
  <2> DEFINE x == Beyond(g)
             y == Beyond(g + n)
  <2>6. PICK j \in x .. y : w.sink.data = Piece(E, 0, j) /\ (w.sink.state = "good" => j = y)
    BY <2>4 DEF GoesOn
  <2> HIDE DEF R, E, x, y
  <2>7. j \in Nat /\ j <= Len(E) /\ x \in Nat /\ x <= j /\ y \in Nat /\ Len(E) \in Nat
    BY <2>1, <2>5, <2>6, LenProperties DEF x, y
  <2>8. Len(w.sink.data) = j /\ Starts(w.sink.data, E)
    BY <2>1, <2>6, <2>7, FirstPiece
  <2>9. Lacks(w, n + Len(rest))
    <3>1. Len(E) - j <= Len(R) - g
      BY <2>3, <2>5, <2>7 DEF x
    <3> QED
      BY <2>1, <2>3, <2>8, <3>1 DEF Lacks
  <2>10. ~ Failed(w) => PlainAt(w, rest)
    <3> SUFFICES ASSUME ~ Failed(w) PROVE PlainAt(w, rest)
      OBVIOUS
    <3>1. w.sink.data = Piece(E, 0, y)
      BY <2>6 DEF Failed
    <3>2. g + n \in 0 .. Len(R)
      BY <2>3
    <3> QED
      BY <2>3, <2>4, <3>1, <3>2 DEF PlainAt, R, E, y
  <2> QED
    BY <1>4, <1>6, <2>0, <2>1, <2>3, <2>4, <2>8, <2>9, <2>10 DEF OnTheWay, SameChain
<1>7. CASE served.framed
  <2>1. PICK F \in Seq(Bytes) : \E fs \in Seq(FrameInfo) :
           /\ StreamOf(F, fs, D, served.rotten /\ served.checked)
           /\ \E g \in 0 .. Len(F) : left = Piece(F, g, Len(F)) /\ IsAt(c.decoder, c.sink.data, F, fs, D, g)
    BY <1>4, <1>7 DEF FramedAt
  <2>2. PICK fs \in Seq(FrameInfo) :
           /\ StreamOf(F, fs, D, served.rotten /\ served.checked)
           /\ \E g \in 0 .. Len(F) : left = Piece(F, g, Len(F)) /\ IsAt(c.decoder, c.sink.data, F, fs, D, g)
    BY <2>1
  <2>3. PICK g \in 0 .. Len(F) : left = Piece(F, g, Len(F)) /\ IsAt(c.decoder, c.sink.data, F, fs, D, g)
    BY <2>2
  <2>4. /\ g \in Nat /\ g + n \in Nat /\ g + n <= Len(F) /\ g <= Len(F) /\ Len(F) \in Nat
        /\ Take(left, n) = Piece(F, g, g + n) /\ rest = Piece(F, g + n, Len(F))
        /\ rest \in Seq(Bytes) /\ n + Len(rest) = Len(F) - g
    BY <1>5, <2>3
  <2>5. IsLayout(F, fs, D) /\ ~ c.decrypts
    <3>1. call.op = "select"
      BY <1>7 DEF Shaped
    <3> QED
      BY <1>4, <2>2, <3>1 DEF StreamOf, CallFacts, Opens
  <2>6. /\ Starts(c.sink.data, D) /\ Len(D) - Len(c.sink.data) <= Len(F) - g
    BY <1>2, <2>3, <2>4, <2>5, ShownSoFar
  <2> DEFINE e == g + n
  <2>7. e \in Nat /\ g <= e /\ e <= Len(F) /\ w = Written(c, Piece(F, g, e))
    BY <2>4
  <2> HIDE DEF D, e
  <2>8. /\ SameChain(c, w)
        /\ Starts(w.sink.data, D) /\ Len(c.sink.data) <= Len(w.sink.data)
        /\ ~ w.decoder.error => w.sink.state = "good" /\ IsAt(w.decoder, w.sink.data, F, fs, D, e)
    <3>1. /\ D \in Seq(Bytes) /\ F \in Seq(Bytes) /\ fs \in Seq(FrameInfo) /\ IsLayout(F, fs, D)
          /\ c \in Chains /\ SinkFits(c.sink) /\ c.sink.state = "good" /\ c.framed /\ ~ c.decrypts
      BY <1>2, <1>3, <1>4, <1>7, <2>5
    <3>2. /\ g \in Nat /\ e \in Nat /\ g <= e /\ e <= Len(F) /\ IsAt(c.decoder, c.sink.data, F, fs, D, g)
          /\ w = Written(c, Piece(F, g, e))
      BY <2>3, <2>4, <2>7
    <3> QED
      BY ONLY <3>1, <3>2, FramesWritten
  <2>9. Lacks(w, n + Len(rest))
    <3>1. Len(c.sink.data) \in Nat /\ Len(w.sink.data) \in Nat
      <4>1. c.sink.data \in Seq(Bytes) /\ w.sink.data \in Seq(Bytes)
        BY <2>8 DEF SameChain, Chains, SinkStates
      <4> QED
        BY <4>1, LenProperties
    <3>2. Len(D) - Len(w.sink.data) <= Len(F) - g
      <4> DEFINE was == Len(c.sink.data)
                 is == Len(w.sink.data)
                 all == Len(D)
                 size == Len(F)
      <4>1. was \in Nat /\ is \in Nat /\ all \in Nat /\ size \in Nat /\ g \in Nat
            /\ was <= is /\ all - was <= size - g
        BY <1>2, <2>4, <2>6, <2>8, <3>1 DEF D
      <4> HIDE DEF was, is, all, size
      <4>2. all - is <= size - g
        BY ONLY <4>1
      <4> QED
        BY <4>2 DEF is, all, size
    <3> QED
      BY <2>4, <3>2 DEF Lacks, D
  <2>11. Behind(n + Len(rest))
    <3> SUFFICES ASSUME served.rotten /\ served.checked PROVE n + Len(rest) > EndLength
      BY DEF Behind
    <3>1. StreamOf(F, fs, D, TRUE)
      BY <2>2
    <3>2. g < EndOf(fs[1])
      <4>1. /\ F \in Seq(Bytes) /\ D \in Seq(Bytes) /\ fs \in Seq(FrameInfo) /\ g \in Nat
            /\ IsAt(c.decoder, c.sink.data, F, fs, D, g)
        BY <1>2, <2>3, <2>4 DEF D
      <4> QED
        BY ONLY <3>1, <4>1, StaysInFirst
    <3>3. EndOf(fs[1]) + EndLength <= Len(F) /\ EndOf(fs[1]) \in Int /\ EndLength \in Nat
      <4>1. 1 \in 1 .. Len(fs) /\ D \in Seq(Bytes)
        BY <1>2, <2>5, LenProperties DEF IsLayout, D
      <4>2. fs[1].start \in Nat /\ fs[1].len \in Nat
        BY <2>5, <4>1, FrameFacts
      <4> QED
        BY <3>1, <4>2 DEF StreamOf, EndOf, EndLength, HeaderLen, TailLen
    <3> QED
      BY <2>4, <3>2, <3>3
  <2>10. ~ Failed(w) => FramedAt(w, rest)
    <3> SUFFICES ASSUME ~ Failed(w) PROVE FramedAt(w, rest)
      OBVIOUS
    <3>1. IsAt(w.decoder, w.sink.data, F, fs, D, e)
      BY <2>8 DEF Failed
    <3>2. e \in 0 .. Len(F) /\ rest = Piece(F, e, Len(F))
      BY <2>4 DEF e
    <3> QED
      BY <2>2, <3>1, <3>2 DEF FramedAt, D
  <2> QED
    BY <1>4, <1>7, <2>4, <2>8, <2>9, <2>10, <2>11 DEF OnTheWay, SameChain, D
<1> QED
  BY <1>6, <1>7

-----------------------------------------------------------------------------
(* The steps of a download.                                                *)

\* The cipher leaves the values of the bytes alone.
LEMMA ProcessSound ==
    ASSUME NEW iv \in Int, NEW bytes \in Seq(Sound)
    PROVE  Process(iv, 0, bytes) \in Seq(Sound)
<1> DEFINE t == Process(iv, 0, bytes)
<1>1. bytes \in Seq(Bytes) /\ Len(bytes) \in Nat
  BY SoundBytes, LenProperties
<1>2. /\ t \in Seq(Bytes) /\ Len(t) = Len(bytes)
      /\ \A i \in 1 .. Len(bytes) : t[i] = Combined(bytes[i], KeyAt(iv, 0) + i - 1)
  BY <1>1, ProcessType
<1> HIDE DEF t
<1>3. ASSUME NEW i \in 1 .. Len(bytes) PROVE t[i] \in Sound
  <2> DEFINE k == KeyAt(iv, 0) + i - 1
             b == bytes[i]
  <2>1. b \in Sound
    BY ElementOfSeq
  <2>2. k \in Int
    <3>1. KeyAt(iv, 0) \in Int /\ i \in Int
      BY KeyAtType
    <3> QED
      BY <3>1
  <2> HIDE DEF k, b
  <2>3. Combined(b, k) \in Sound
    <3> DEFINE keys == IF k \in b.keys THEN b.keys \ {k} ELSE b.keys \cup {k}
    <3>1. keys \in SUBSET Int
      BY <2>1, <2>2 DEF Sound
    <3>2. Combined(b, k) = [b EXCEPT !.keys = keys]
      BY DEF Combined
    <3> HIDE DEF keys
    <3> QED
      BY ONLY <2>1, <3>1, <3>2 DEF Sound
  <2> QED
    BY <1>2, <2>3 DEF k, b
<1>4. t \in [1 .. Len(bytes) -> Sound]
  <2>1. DOMAIN t = 1 .. Len(bytes) /\ t = [i \in DOMAIN t |-> t[i]]
    BY <1>2, LenProperties
  <2> QED
    BY <1>3, <2>1
<1> QED
  BY <1>1, <1>4, IsASeq DEF t

LEMMA TextSound == Text \in Seq(Sound)
<1>1. Size \in Nat \ {0}
  BY TransferAssumption
<1>2. Text \in [1 .. Size -> Sound]
  BY <1>1 DEF Text, Byte, Sound
<1> QED
  BY <1>1, <1>2, IsASeq

LEMMA ReplacementsType == Replacements \subseteq Versions
<1>1. <<>> \in Seq(Sound)
  BY EmptySeq
<1>2. [i \in 1 .. Size |-> Byte(50 + i)] \in Seq(Sound)
  <2>1. Size \in Nat \ {0}
    BY TransferAssumption
  <2>2. [i \in 1 .. Size |-> Byte(50 + i)] \in [1 .. Size -> Sound]
    BY <2>1 DEF Byte, Sound
  <2> QED
    BY <2>1, <2>2, IsASeq
<1>3. Process(IV, 0, Text) \in Seq(Sound)
  BY CipherAssumption, TextSound, ProcessSound
<1> DEFINE other == [i \in 1 .. Size |-> Byte(50 + i)]
           secret == Process(IV, 0, Text)
<1>4. /\ Plain(<<>>) \in Versions /\ Plain(other) \in Versions
  <2> HIDE DEF other
  <2> QED
    BY <1>1, <1>2 DEF Plain, Versions, other
<1>5. [Encrypted(Text) EXCEPT !.envelope = "foreign"] \in Versions
  <2>1. Encrypted(Text) = [bytes |-> secret, envelope |-> "ours"]
    BY DEF Encrypted
  <2> HIDE DEF secret
  <2> QED
    BY <1>3, <2>1 DEF Versions, secret
<1> QED
  BY <1>4, <1>5 DEF Replacements

\* What the server joins of the parts is an object.
LEMMA WholeSound ==
    ASSUME plan.size \in Nat \ {0}, NEW p \in Parts
    PROVE  Whole(p) \in Seq(Sound)
<1>1. Offset(p) \in Nat /\ Length(p) \in Nat /\ Offset(p) + Length(p) <= Size
      /\ PartText(p) = Piece(Text, Offset(p), Offset(p) + Length(p))
  BY PartsAreWithin, PartTextType
<1>2. PartText(p) \in Seq(Sound)
  <2> DEFINE a == Offset(p)
             e == Offset(p) + Length(p)
  <2>1. Text \in Seq(Sound) /\ a \in Nat /\ e \in Nat /\ a <= e /\ e <= Len(Text)
    BY <1>1, TextSound, TextType
  <2> HIDE DEF a, e
  <2>2. Piece(Text, a, e) \in Seq(Sound)
    BY ONLY <2>1, PieceProperties
  <2> QED
    BY <1>1, <2>2 DEF a, e
<1>3. PartIV(p) \in Int
  BY <1>1, CipherAssumption DEF PartIV, SeekIV
<1> QED
  BY <1>2, <1>3, ProcessSound DEF Whole, Sent

LEMMA JoinedSound ==
    ASSUME UploadInv, Uploaded
    PROVE  FlattenSeq(stored) \in Seq(Sound)
<1>1. /\ stored \in [1 .. Size -> Seq(Bytes)] /\ acked = Parts /\ Size \in Nat \ {0}
      /\ \A p \in acked : SameOrSpoilt(stored[p], Whole(p))
      /\ \A p \in 1 .. Size : p \notin Parts => stored[p] = <<>>
  BY TransferAssumption DEF UploadInv, UploadTyped, Held, Uploaded
<1>2. ASSUME NEW p \in 1 .. Size PROVE stored[p] \in Seq(Sound)
  <2>1. CASE p \in Parts
    <3>1. Whole(p) \in Seq(Sound) /\ SameOrSpoilt(stored[p], Whole(p)) /\ stored[p] \in Seq(Bytes)
      BY <1>1, <2>1, PlanType, WholeSound DEF UploadInv
    <3> DEFINE l == Len(Whole(p))
    <3>2. l \in Nat /\ Len(stored[p]) = l /\ DOMAIN stored[p] = 1 .. l
      BY <3>1, LenProperties DEF SameOrSpoilt
    <3>3. ASSUME NEW i \in 1 .. l PROVE stored[p][i] \in Sound
      <4>1. Whole(p)[i] \in Sound
        BY <3>1, ElementOfSeq
      <4>2. Spoilt(Whole(p)[i]) \in Sound
        BY <4>1, SpoiltType DEF Sound
      <4>3. stored[p][i] = Whole(p)[i] \/ stored[p][i] = Spoilt(Whole(p)[i])
        BY <3>1 DEF SameOrSpoilt
      <4> QED
        BY <4>1, <4>2, <4>3
    <3> HIDE DEF l
    <3>4. stored[p] \in [1 .. l -> Bytes]
      BY <3>1, <3>2, LenProperties
    <3>5. stored[p] \in [1 .. l -> Sound]
      BY <3>3, <3>4
    <3> QED
      BY <3>2, <3>5, IsASeq
  <2>2. CASE p \notin Parts
    BY <1>1, <2>2, EmptySeq
  <2> QED
    BY <2>1, <2>2
<1>3. stored \in [1 .. Size -> Seq(Sound)]
  BY <1>1, <1>2
<1>4. stored \in Seq(Seq(Sound)) /\ Len(stored) = Size
  <2>1. stored \in Seq(Seq(Sound))
    BY <1>1, <1>3, IsASeq
  <2> QED
    BY <1>1, <1>3, <2>1, LenProperties
<1> QED
  BY <1>1, <1>4, FlattenType

\* While the call and the response are the same, so is what they are.
LEMMA CallFixed ==
    ASSUME call' = call
    PROVE  /\ Skip' = Skip /\ Requested' = Requested
           /\ \A v : Expected(v)' = Expected(v)
           /\ \A v : Reply(v)' = Reply(v)
           /\ \A v : Opens(v)' = Opens(v)
           /\ \A s : Delivered(s)' = Delivered(s)
           /\ \A s : Shaped(s)' = Shaped(s)
           /\ \A g : Beyond(g)' = Beyond(g) /\ ToDiscard(g)' = ToDiscard(g)
BY DEF Skip, Requested, AlignedStart, Expected, InRange, Reply, Opens, Delivered, Shaped, Beyond, ToDiscard

LEMMA ResponseFixed ==
    ASSUME call' = call, served' = served
    PROVE  \A c, left, last : OnTheWay(c, left, last)' = OnTheWay(c, left, last)
<1>1. \A c, left : PlainAt(c, left)' = PlainAt(c, left)
  BY CallFixed DEF PlainAt
<1>2. \A c, left : FramedAt(c, left)' = FramedAt(c, left)
  BY CallFixed DEF FramedAt
<1>3. \A c, most : Lacks(c, most)' = Lacks(c, most)
  BY CallFixed DEF Lacks
<1>4. \A most : Behind(most)' = Behind(most)
  BY DEF Behind
<1> QED
  BY <1>1, <1>2, <1>3, <1>4, CallFixed DEF OnTheWay

LEMMA DownloadInvInit == DownloadInit => DownloadInv
<1> SUFFICES ASSUME DownloadInit PROVE DownloadInv
  OBVIOUS
<1>1. /\ object = NoVersion /\ call = NoCall /\ step = "idle" /\ attempts = 0
      /\ served = NothingServed /\ coming = <<>> /\ chain = NoChain /\ arrived = 0 /\ result = "none"
  BY DEF DownloadInit
<1>2. <<>> \in Seq(Sound) /\ <<>> \in Seq(Bytes) /\ Len(<<>>) = 0
  BY EmptySeq
<1>3. NoVersion \in Versions /\ NothingServed \in Sources
  <2>1. NoVersion \in Versions
    BY <1>2 DEF NoVersion, Versions
  <2> QED
    BY <2>1 DEF NothingServed, Sources
<1>4. NewDecoder \in Decoders
  BY <1>2 DEF NewDecoder, Decoders
<1>5. NewSink("string", 0) \in SinkStates /\ NewSink("string", 0).data = <<>> /\ SinkFits(NewSink("string", 0))
  BY <1>2 DEF NewSink, SinkStates, SinkFits
<1>6. NoChain \in Chains /\ NoChain.source = NothingServed /\ ~ NoChain.asked /\ NoChain.sink = NewSink("string", 0)
  <2> DEFINE sink == NewSink("string", 0)
  <2>1. IV \in Int
    BY CipherAssumption
  <2>2. sink \in SinkStates
    BY <1>5
  <2> HIDE DEF sink
  <2>3. NoChain = [asked |-> FALSE, source |-> NothingServed, decrypts |-> FALSE, iv |-> IV, at |-> 0,
                   discard |-> 0, framed |-> FALSE, decoder |-> NewDecoder, sink |-> sink]
    BY DEF NoChain, sink
  <2> QED
    BY <1>3, <1>4, <2>1, <2>2, <2>3 DEF Chains, sink
<1>7. DownloadTyped
  BY <1>1, <1>2, <1>3, <1>6 DEF DownloadTyped
<1>8. Served
  <2>1. Shaped(NothingServed)
    BY DEF Shaped, NothingServed
  <2> QED
    BY <1>1, <1>6, <2>1 DEF Served
<1>9. Arriving
  BY <1>1, <1>5, <1>6 DEF Arriving, Going
<1> QED
  BY <1>7, <1>8, <1>9 DEF DownloadInv

\* The object may be another.
LEMMA OtherObject ==
    ASSUME DownloadInv, object' \in Versions,
           UNCHANGED <<call, step, attempts, served, coming, chain, arrived, result>>
    PROVE  DownloadInv'
<1>1. DownloadTyped'
  BY DEF DownloadInv, DownloadTyped
<1>2. Served'
  BY CallFixed DEF DownloadInv, Served
<1>3. Arriving'
  <2>1. OnTheWay(chain, coming, arrived)' = OnTheWay(chain, coming, arrived)
    BY ResponseFixed
  <2>2. Delivered(chain.source)' = Delivered(chain.source) /\ Reply(served.version)' = Reply(served.version)
    BY CallFixed
  <2> QED
    BY <2>1, <2>2 DEF DownloadInv, Arriving, Going
<1> QED
  BY <1>1, <1>2, <1>3 DEF DownloadInv

LEMMA CallDownloadStep ==
    ASSUME DownloadInv, NEW c \in Calls, CallDownload(c)
    PROVE  DownloadInv'
<1>1. /\ step = "idle" /\ step' = "request" /\ call' = c
      /\ UNCHANGED <<object, attempts, served, coming, chain, arrived, result>>
  BY DEF CallDownload
<1>2. served = NothingServed /\ chain = NoChain /\ result = "none"
  BY <1>1 DEF DownloadInv, Served
<1>3. DownloadTyped'
  BY <1>1 DEF DownloadInv, DownloadTyped
<1>4. chain.source = NothingServed /\ ~ chain.asked
  BY <1>2 DEF NoChain
<1>5. Served'
  <2>1. Shaped(served)' /\ Shaped(chain.source)'
    BY <1>1, <1>2, <1>4 DEF Shaped, NothingServed
  <2> QED
    BY <1>1, <1>2, <2>1 DEF Served
<1>6. Arriving'
  BY <1>1, <1>2, <1>4 DEF DownloadInv, Arriving, Going
<1> QED
  BY <1>3, <1>5, <1>6 DEF DownloadInv

\* An attempt has an answer, which the supplier has not seen.
LEMMA AnswersStep ==
    ASSUME DownloadInv, NEW framed \in BOOLEAN, NEW checked \in BOOLEAN, NEW rotten \in BOOLEAN,
           NEW bytes \in Seq(Bytes), Answers(framed, checked, rotten, bytes),
           rotten \/ checked => framed, framed => call.op = "select" /\ object.bytes # <<>>,
           NEW source, source = [version |-> object, checked |-> checked, rotten |-> rotten, framed |-> framed],
           IF framed THEN bytes \in Streams(source) ELSE bytes = Reply(object)
    PROVE  DownloadInv'
<1>1. /\ step = "request" /\ step' = "body" /\ attempts' = attempts + 1 /\ served' = source
      /\ coming' = bytes /\ chain' = [chain EXCEPT !.asked = FALSE] /\ arrived' = 0
      /\ UNCHANGED <<object, call, result>>
  BY DEF Answers
<1>2. /\ object \in Versions /\ chain \in Chains /\ attempts \in Nat /\ result = "none"
  BY <1>1 DEF DownloadInv, DownloadTyped, Served
<1>3. /\ source \in Sources /\ source.version = object /\ source.framed = framed
      /\ source.rotten = rotten /\ source.checked = checked
  BY <1>2 DEF Sources
<1>4. /\ chain' \in Chains /\ chain'.source = chain.source /\ chain'.sink = chain.sink /\ ~ chain'.asked
  BY ONLY <1>1, <1>2 DEF Chains
<1>5. DownloadTyped'
  BY <1>1, <1>2, <1>3, <1>4 DEF DownloadInv, DownloadTyped
<1>6. Served'
  <2>1. Shaped(served)'
    BY <1>1, <1>3 DEF Shaped
  <2>2. Shaped(chain.source)'
    <3>1. Shaped(chain.source)
      BY DEF DownloadInv, Served
    <3> QED
      BY <1>1, <1>4, <3>1 DEF Shaped
  <2> QED
    BY <1>1, <1>2, <2>1, <2>2 DEF Served
<1>7. Arriving'
  <2>1. /\ SinkFits(chain.sink) /\ (chain.sink.data # <<>> => attempts >= 1)
        /\ chain.source # NothingServed => Starts(chain.sink.data, Delivered(chain.source))
    BY DEF DownloadInv, Arriving
  <2>2. chain.sink.data # <<>> => attempts' >= 2 /\ attempts' >= 1
    BY <1>1, <1>2, <2>1
  <2>3. chain'.source # NothingServed => Starts(chain'.sink.data, Delivered(chain.source)')
    <3>1. Delivered(chain.source)' = Delivered(chain.source)
      BY <1>1, <1>4, CallFixed
    <3> QED
      BY <1>4, <2>1, <3>1
  <2>4. IF framed THEN coming' \in Streams(served') ELSE coming' = Reply(served.version)'
    <3>1. Reply(served.version)' = Reply(object)
      BY <1>1, <1>3, CallFixed
    <3> QED
      BY <1>1, <3>1
  <2> QED
    BY <1>1, <1>3, <1>4, <2>1, <2>2, <2>3, <2>4 DEF Arriving
<1> QED
  BY <1>5, <1>6, <1>7 DEF DownloadInv

LEMMA AnswerGetStep == ASSUME DownloadInv, AnswerGet PROVE DownloadInv'
<1>1. Answers(FALSE, FALSE, FALSE, Reply(object))
  BY DEF AnswerGet, Reply
<1>2. Reply(object) \in Seq(Bytes)
  BY CallIsKnown, TextIsKnown DEF DownloadInv, DownloadTyped, TextFacts
<1> QED
  BY <1>1, <1>2, AnswersStep

LEMMA AnswerSelectRawStep == ASSUME DownloadInv, AnswerSelectRaw PROVE DownloadInv'
<1>1. call.op = "select" /\ Answers(FALSE, FALSE, FALSE, object.bytes)
  BY DEF AnswerSelectRaw
<1>2. CallFacts /\ object \in Versions
  BY CallIsKnown DEF DownloadInv, DownloadTyped
<1>3. object.bytes \in Seq(Bytes)
  BY <1>2, TextIsKnown DEF TextFacts
<1>4. Reply(object) = object.bytes
  <2>1. Requested = 0 /\ call.last = Rest
    BY <1>1, <1>2 DEF CallFacts, Requested
  <2>2. Reply(object) = Piece(object.bytes, 0, Len(object.bytes))
    BY <1>2, <1>3, <2>1, RangeFacts DEF Reply, RangeEnd
  <2> QED
    BY <1>3, <2>2, FullPiece
<1> QED
  BY <1>1, <1>3, <1>4, AnswersStep

LEMMA AnswerSelectStep == ASSUME DownloadInv, AnswerSelect PROVE DownloadInv'
<1>1. PICK checked \in BOOLEAN : \E frames \in Framings(object.bytes, checked) :
          \/ Answers(TRUE, checked, FALSE, frames)
          \/ MaxGarbled > 0 /\ Answers(TRUE, checked, TRUE, [frames EXCEPT ![HeaderLen + 1] = Byte(0)])
  BY DEF AnswerSelect
<1>2. PICK frames \in Framings(object.bytes, checked) :
          \/ Answers(TRUE, checked, FALSE, frames)
          \/ Answers(TRUE, checked, TRUE, [frames EXCEPT ![HeaderLen + 1] = Byte(0)])
  BY <1>1
<1>3. /\ call.op = "select" /\ object.bytes # <<>> /\ object \in Versions /\ object.bytes \in Seq(Sound)
  BY DEF AnswerSelect, DownloadInv, DownloadTyped, Versions
<1>4. ASSUME NEW rotten \in BOOLEAN, NEW bytes,
             bytes = IF rotten THEN [frames EXCEPT ![HeaderLen + 1] = Byte(0)] ELSE frames,
             Answers(TRUE, checked, rotten, bytes)
      PROVE  DownloadInv'
  <2> DEFINE source == [version |-> object, checked |-> checked, rotten |-> rotten, framed |-> TRUE]
  <2>1. source.version = object /\ source.checked = checked /\ source.rotten = rotten
    OBVIOUS
  <2> HIDE DEF source
  <2>2. bytes \in Streams(source)
    BY <1>4, <2>1 DEF Streams
  <2>3. bytes \in Seq(Bytes)
    BY <1>3, <2>1, <2>2, StreamsLaid
  <2> QED
    BY <1>3, <1>4, <2>2, <2>3, AnswersStep DEF source
<1> QED
  BY <1>2, <1>4

\* The call ends, or an attempt of it: nothing is going.
LEMMA EndsStep ==
    ASSUME DownloadInv, step \in {"request", "body"}, attempts' \in Nat, attempts' >= attempts,
           \/ step' = "request" /\ result' = result
           \/ step' = "end" /\ result' = "error",
           UNCHANGED <<object, call, served, coming, chain, arrived>>
    PROVE  DownloadInv'
<1>1. result = "none"
  BY DEF DownloadInv, Served
<1>2. DownloadTyped'
  BY DEF DownloadInv, DownloadTyped
<1>3. Served'
  BY <1>1, CallFixed DEF DownloadInv, Served
<1>4. Arriving'
  <2>1. Delivered(chain.source)' = Delivered(chain.source)
    BY CallFixed
  <2>2. ~ Going'
    BY <1>1 DEF Going
  <2>3. attempts \in Nat
    BY DEF DownloadInv, DownloadTyped
  <2> QED
    BY <2>1, <2>2, <2>3 DEF DownloadInv, Arriving
<1> QED
  BY <1>2, <1>3, <1>4 DEF DownloadInv

LEMMA InterruptedStep == ASSUME DownloadInv, Interrupted PROVE DownloadInv'
<1>1. /\ step \in {"request", "body"}
      /\ attempts' = IF step = "request" THEN attempts + 1 ELSE attempts
      /\ \/ step' = "request" /\ result' = result
         \/ step' = "end" /\ result' = "error"
      /\ UNCHANGED <<object, call, served, coming, chain, arrived>>
  BY DEF Interrupted, Breaks
<1>2. attempts \in Nat
  BY DEF DownloadInv, DownloadTyped
<1>3. attempts' \in Nat /\ attempts' >= attempts
  BY <1>1, <1>2
<1> QED
  BY <1>1, <1>3, EndsStep

LEMMA DeniedStep == ASSUME DownloadInv, Denied PROVE DownloadInv'
<1>1. attempts \in Nat
  BY DEF DownloadInv, DownloadTyped
<1>2. attempts' \in Nat /\ attempts' >= attempts
  BY <1>1 DEF Denied
<1> QED
  BY <1>2, EndsStep DEF Denied

LEMMA CompletedStep == ASSUME DownloadInv, Complete PROVE DownloadInv'
<1>1. /\ step = "body" /\ coming = <<>> /\ step' = "end" /\ result' = "ok"
      /\ UNCHANGED <<object, call, attempts, served, coming, chain, arrived>>
  BY DEF Complete
<1>2. DownloadTyped'
  BY <1>1 DEF DownloadInv, DownloadTyped
<1>3. Served'
  BY <1>1, CallFixed DEF DownloadInv, Served
<1>4. Arriving'
  <2>1. OnTheWay(chain, coming, arrived)' = OnTheWay(chain, coming, arrived)
    BY <1>1, ResponseFixed
  <2>2. Delivered(chain.source)' = Delivered(chain.source) /\ Reply(served.version)' = Reply(served.version)
    BY <1>1, CallFixed
  <2>3. Going
    BY <1>1 DEF Going
  <2> QED
    BY <1>1, <2>1, <2>2, <2>3 DEF DownloadInv, Arriving
<1> QED
  BY <1>2, <1>3, <1>4 DEF DownloadInv

\* The chain that a chunk is given to.
LEMMA ChainAsked ==
    ASSUME DownloadInv, step = "body", NEW asked, asked = IF chain.asked THEN chain ELSE Supply
    PROVE  /\ asked \in Chains /\ SinkFits(asked.sink) /\ asked.asked /\ asked.source = served
           /\ Starts(asked.sink.data, Delivered(served))
           /\ Accepts(asked) => \E last \in Nat : OnTheWay(asked, coming, last)
<1>1. CallFacts /\ served \in Sources /\ chain \in Chains /\ Shaped(served) /\ arrived \in Nat
  BY CallIsKnown DEF DownloadInv, DownloadTyped, Served
<1>2. Going
  BY DEF Going
<1>3. Delivered(served) \in Seq(Bytes) /\ Len(Delivered(served)) \in Nat
  BY <1>1, DeliveredFacts, LenProperties
<1>4. CASE chain.asked
  <2>1. OnTheWay(chain, coming, arrived) /\ SinkFits(chain.sink)
    BY <1>2, <1>4 DEF DownloadInv, Arriving
  <2>2. chain.source = served
    BY <2>1 DEF OnTheWay
  <2>3. Starts(chain.sink.data, Delivered(served))
    BY <1>4, <2>2 DEF DownloadInv, Arriving
  <2> QED
    BY <1>1, <1>4, <2>1, <2>2, <2>3
<1>5. CASE ~ chain.asked
  <2>1. asked = Supply
    BY <1>5
  <2>2. /\ Supply \in Chains /\ SinkFits(Supply.sink) /\ Supply.asked /\ Supply.source = served
        /\ Supply.sink.data = <<>>
    BY <1>1, SupplyFacts
  <2>3. Starts(<<>>, Delivered(served))
    <3>1. Len(<<>>) = 0 /\ Piece(Delivered(served), 0, 0) = <<>>
      BY EmptySeq, EmptyPiece
    <3> QED
      BY <1>3, <3>1 DEF Starts
  <2>4. Accepts(Supply) => OnTheWay(Supply, coming, 0)
    <3>1. IF served.framed THEN coming \in Streams(served) ELSE coming = Reply(served.version)
      BY <1>2, <1>5 DEF DownloadInv, Arriving
    <3> QED
      BY <1>1, <3>1, SupplyReady
  <2> QED
    BY <2>1, <2>2, <2>3, <2>4
<1> QED
  BY <1>4, <1>5

LEMMA ArriveStep ==
    ASSUME DownloadInv, NEW n \in Nat \ {0}, Arrive(n)
    PROVE  DownloadInv'
<1> DEFINE asked == IF chain.asked THEN chain ELSE Supply
           w == Written(asked, Take(coming, n))
           rest == Drop(coming, n)
<1>1. /\ step = "body" /\ n <= Len(coming) /\ coming' = rest /\ arrived' = n
      /\ UNCHANGED <<object, call, attempts, served>>
      /\ \/ /\ Accepts(asked) /\ chain' = w
            /\ IF Bad(chain') THEN Breaks(attempts) ELSE UNCHANGED <<step, result>>
         \/ ~ Accepts(asked) /\ chain' = asked /\ Breaks(attempts)
  BY DEF Arrive
<1>2. /\ CallFacts /\ served \in Sources /\ Shaped(served) /\ coming \in Seq(Bytes) /\ attempts \in Nat
      /\ attempts >= 1 /\ result = "none"
  BY <1>1, CallIsKnown DEF DownloadInv, DownloadTyped, Served
<1>3. /\ asked \in Chains /\ SinkFits(asked.sink) /\ asked.asked /\ asked.source = served
      /\ Starts(asked.sink.data, Delivered(served))
      /\ Accepts(asked) => \E last \in Nat : OnTheWay(asked, coming, last)
  BY <1>1, ChainAsked
<1> HIDE DEF asked
<1>4. rest \in Seq(Bytes)
  <2> DEFINE l == Len(coming)
  <2>1. Take(coming, n) = SubSeq(coming, 1, n) /\ rest = Piece(coming, n, l) /\ l \in Nat /\ n <= l /\ l <= Len(coming)
    BY <1>1, <1>2, LenProperties DEF Take, Drop, Piece
  <2> HIDE DEF l, rest
  <2>2. Piece(coming, n, l) \in Seq(Bytes)
    BY <1>2, <2>1, PieceProperties
  <2> QED
    BY <2>1, <2>2
<1>5. Accepts(asked) =>
         /\ SameChain(asked, w) /\ Starts(w.sink.data, Delivered(served))
         /\ OnTheWay(w, rest, n)
  <2> SUFFICES ASSUME Accepts(asked)
               PROVE  SameChain(asked, w) /\ Starts(w.sink.data, Delivered(served)) /\ OnTheWay(w, rest, n)
    OBVIOUS
  <2>1. PICK last \in Nat : OnTheWay(asked, coming, last)
    BY <1>3
  <2> QED
    BY <1>1, <1>2, <1>3, <2>1, ChunkOnTheWay
<1> HIDE DEF w, rest
\* What is true of the chain, whatever has come of the chunk.
<1>6. /\ chain' \in Chains /\ SinkFits(chain'.sink) /\ chain'.asked /\ chain'.source = served
      /\ Starts(chain'.sink.data, Delivered(served))
  BY <1>1, <1>3, <1>5 DEF SameChain
<1>7. \/ step' = "body" /\ result' = result /\ OnTheWay(chain', coming', arrived')
      \/ step' = "request" /\ result' = result
      \/ step' = "end" /\ result' = "error"
  <2>1. CASE Breaks(attempts)
    BY <2>1 DEF Breaks
  <2>2. CASE Accepts(asked) /\ chain' = w /\ UNCHANGED <<step, result>>
    BY <1>1, <1>5, <2>2
  <2> QED
    BY <1>1, <2>1, <2>2
<1>8. DownloadTyped'
  BY <1>1, <1>2, <1>4, <1>6, <1>7 DEF DownloadInv, DownloadTyped
<1>9. Served'
  <2>1. Shaped(served)' /\ Shaped(chain.source)'
    BY <1>1, <1>2, <1>6 DEF Shaped
  <2> QED
    BY <1>1, <1>2, <1>7, <2>1 DEF Served
<1>10. Arriving'
  <2>1. Starts(chain'.sink.data, Delivered(chain.source)')
    <3>1. Delivered(chain.source)' = Delivered(served)
      BY <1>1, <1>6, CallFixed
    <3> QED
      BY <1>6, <3>1
  <2>2. Going' => OnTheWay(chain, coming, arrived)'
    <3> SUFFICES ASSUME Going' PROVE OnTheWay(chain, coming, arrived)'
      OBVIOUS
    <3>1. OnTheWay(chain', coming', arrived')
      BY <1>2, <1>7 DEF Going
    <3>2. \A c, left, last : OnTheWay(c, left, last)' = OnTheWay(c, left, last)
      BY <1>1, ResponseFixed
    <3> QED
      BY <3>1, <3>2
  <2> QED
    BY <1>1, <1>2, <1>6, <2>1, <2>2 DEF Arriving
<1> QED
  BY <1>8, <1>9, <1>10 DEF DownloadInv

LEMMA DownloadInvStep == ASSUME UploadInv, DownloadInv, [Next]_vars PROVE DownloadInv'
<1>1. CASE DownloadNext
  <2>1. ASSUME NEW c \in Calls, CallDownload(c) PROVE DownloadInv'
    BY <2>1, CallDownloadStep
  <2>2. ASSUME NEW version \in Replacements, Replace(version) PROVE DownloadInv'
    <3>1. /\ object' \in Versions
          /\ UNCHANGED <<call, step, attempts, served, coming, chain, arrived, result>>
      BY <2>2, ReplacementsType DEF Replace
    <3> QED
      BY <3>1, OtherObject
  <2>3. CASE AnswerGet
    BY <2>3, AnswerGetStep
  <2>4. CASE AnswerSelectRaw
    BY <2>4, AnswerSelectRawStep
  <2>5. CASE AnswerSelect
    BY <2>5, AnswerSelectStep
  <2>6. CASE Denied
    BY <2>6, DeniedStep
  <2>7. ASSUME NEW n \in ChunkSizes, Arrive(n) PROVE DownloadInv'
    <3>1. n \in Nat \ {0}
      BY TransferAssumption
    <3> QED
      BY <2>7, <3>1, ArriveStep
  <2>8. CASE Interrupted
    BY <2>8, InterruptedStep
  <2>9. CASE Complete
    BY <2>9, CompletedStep
  <2> QED
    BY <1>1, <2>1, <2>2, <2>3, <2>4, <2>5, <2>6, <2>7, <2>8, <2>9 DEF DownloadNext
<1>2. CASE CompleteUpload
  <2>1. /\ object' = [bytes |-> FlattenSeq(stored), envelope |-> IF plan.encrypted THEN "ours" ELSE "none"]
        /\ UNCHANGED <<call, step, attempts, served, coming, chain, arrived, result>> /\ Uploaded
    BY <1>2 DEF CompleteUpload
  <2>2. FlattenSeq(stored) \in Seq(Sound)
    BY <2>1, JoinedSound
  <2>3. object' \in Versions
    BY <2>1, <2>2 DEF Versions
  <2> QED
    BY <2>1, <2>3, OtherObject
<1>3. CASE UNCHANGED downloadVars
  <2>1. UNCHANGED <<object, call, step, attempts, served, coming, chain, arrived, result>>
    BY <1>3 DEF downloadVars
  <2>2. object \in Versions
    BY DEF DownloadInv, DownloadTyped
  <2> QED
    BY <2>1, <2>2, OtherObject
<1> QED
  BY <1>1, <1>2, <1>3 DEF Next, vars

\* The inductive invariant of the download, on the upload's: the object is
\* made of the parts.
THEOREM DownloadInvAlways == Spec => []DownloadInv
<1>1. Init => DownloadInv
  BY DownloadInvInit DEF Init
<1>2. UploadInv /\ DownloadInv /\ [Next]_vars => DownloadInv'
  BY DownloadInvStep
<1> QED
  BY <1>1, <1>2, UploadInvAlways, PTL DEF Spec

\* The first bytes of what is to be delivered are those of the range, but for
\* one that was spoilt.
LEMMA StartsSame ==
    ASSUME NEW D \in Seq(Bytes), NEW want, Len(D) = Len(want), NEW rotten,
           \A i \in 1 .. Len(want) : D[i] # want[i] => rotten /\ i = 1,
           NEW got \in Seq(Bytes), Starts(got, D)
    PROVE  Len(got) <= Len(want) /\ SameBut(rotten, got, want)
<1> DEFINE l == Len(got)
           z == 0
<1>1. /\ l \in Nat /\ l <= Len(D) /\ got = Piece(D, z, l) /\ Len(D) \in Nat /\ DOMAIN got = 1 .. l
      /\ z \in Nat /\ z <= l /\ l - z = l /\ \A i \in 1 .. l : z + i = i
  BY LenProperties DEF Starts
<1> HIDE DEF l, z
<1>2. \A i \in 1 .. l - z : Piece(D, z, l)[i] = D[z + i]
  <2>1. z \in Nat
    BY <1>1
  <2>2. l \in Nat
    BY <1>1
  <2>3. z <= l
    BY <1>1
  <2>4. l <= Len(D)
    BY <1>1
  <2> QED
    BY ONLY <2>1, <2>2, <2>3, <2>4, D \in Seq(Bytes), PieceProperties
<1>3. \A i \in 1 .. l : got[i] = D[i] /\ i \in 1 .. Len(want)
  BY <1>1, <1>2
<1>4. SameBut(rotten, got, want)
  BY <1>1, <1>3 DEF SameBut
<1> QED
  BY <1>1, <1>4 DEF l

\* The suppliers' chains, the range that begins at a block, the cipher moved to
\* it, what is discarded, and the decoder of frames: however the body is cut
\* into chunks and however often it begins again, a sink holds the first bytes
\* of the range it was made for.
THEOREM SinksHoldPrefixes == Spec => []SinkIsPrefix
<1>1. DownloadInv => SinkIsPrefix
  <2> SUFFICES ASSUME DownloadInv, chain.source # NothingServed
               PROVE  /\ Len(chain.sink.data) <= Len(Expected(chain.source.version))
                      /\ SameBut(chain.source.rotten, chain.sink.data, Expected(chain.source.version))
    BY DEF SinkIsPrefix
  <2> DEFINE got == chain.sink.data
             want == Expected(chain.source.version)
             D == Delivered(chain.source)
  <2>1. CallFacts /\ chain \in Chains /\ chain.source \in Sources /\ Shaped(chain.source)
    BY CallIsKnown DEF DownloadInv, DownloadTyped, Served, Chains
  <2>2. /\ D \in Seq(Bytes) /\ Len(D) = Len(want)
        /\ \A i \in 1 .. Len(want) : D[i] # want[i] => chain.source.rotten /\ i = 1
    BY <2>1, DeliveredFacts
  <2>3. Starts(got, D) /\ got \in Seq(Bytes)
    BY <2>1 DEF DownloadInv, Arriving, Chains, SinkStates
  <2> HIDE DEF got, D, want
  <2>4. Len(got) <= Len(want) /\ SameBut(chain.source.rotten, got, want)
    BY <2>2, <2>3, StartsSame
  <2> QED
    BY <2>4 DEF got, want
<1> QED
  BY <1>1, DownloadInvAlways, PTL

\* A decoder that has read all the frames has shown all the rows.
Through(data, B, dubious) == data = B /\ ~ dubious

LEMMA DecoderIsThrough ==
    ASSUME NEW F \in Seq(Bytes), NEW B \in Seq(Bytes), NEW fs \in Seq(FrameInfo), NEW dubious,
           StreamOf(F, fs, B, dubious), NEW d, NEW data, IsAt(d, data, F, fs, B, Len(F))
    PROVE  Through(data, B, dubious)
<1>1. IsLayout(F, fs, B) /\ (dubious => ~ Intact(F, fs[1])) /\ Len(F) \in Nat
  BY LenProperties DEF StreamOf
<1>2. ASSUME NEW k \in 1 .. Len(fs), NEW p \in 0 .. fs[k].len + 3, InFrame(d, data, F, fs, B, Len(F), k, p)
      PROVE  FALSE
  <2>1. fs[k].start \in Nat /\ fs[k].len \in Nat /\ fs[k].start + fs[k].len + 4 <= Len(F)
    BY <1>1, FrameFacts DEF EndOf
  <2>2. Len(F) = fs[k].start + p /\ p < fs[k].len + 4
    BY <1>2 DEF InFrame
  <2> QED
    BY <1>1, <2>1, <2>2
<1>3. AllRead(d, data, F, fs, B, Len(F))
  BY <1>2 DEF IsAt
<1>4. data = B
  BY <1>3, FullPiece DEF AllRead
<1>5. ~ dubious
  <2>1. Len(fs) \in Nat /\ 1 \in 1 .. Len(fs)
    BY <1>1, LenProperties DEF IsLayout
  <2>2. Intact(F, fs[1])
    BY <1>3, <2>1 DEF AllRead
  <2> QED
    BY <1>1, <2>2
<1> QED
  BY <1>4, <1>5 DEF Through

\* A download that ends without an error, although nothing looks at the chain
\* after the last chunk: all of the range, a failure of the chain's in that
\* chunk, or a response without a body; and a spoilt byte of a checked frame only
\* when the frame's tail came in that chunk, with all that follows it.
THEOREM SuccessesAreWhole == Spec => []SuccessIsTheRange
<1>1. DownloadInv => SuccessIsTheRange
  <2> SUFFICES ASSUME DownloadInv, result = "ok"
               PROVE  LET got == chain.sink.data
                          want == Expected(served.version)
                      IN  IF ~chain.asked
                          THEN want = <<>> /\ (got # <<>> => attempts > 1)
                          ELSE IF Failed(chain)
                          THEN /\ Len(want) - Len(got) <= arrived
                               /\ SameBut(served.rotten /\ (served.checked => arrived > EndLength), got, want)
                          ELSE Len(got) = Len(want) /\ SameBut(served.rotten /\ ~served.checked, got, want)
    BY DEF SuccessIsTheRange
  <2> DEFINE got == chain.sink.data
             version == served.version
             want == Expected(version)
             D == Delivered(served)
  <2>1. /\ CallFacts /\ chain \in Chains /\ served \in Sources /\ Shaped(served) /\ coming = <<>> /\ Going
        /\ attempts \in Nat /\ arrived \in Nat
    BY CallIsKnown DEF DownloadInv, DownloadTyped, Served, Going
  <2>2. /\ D \in Seq(Bytes) /\ Len(D) = Len(want) /\ want \in Seq(Bytes)
        /\ \A i \in 1 .. Len(want) : D[i] # want[i] => served.rotten /\ i = 1
        /\ ~ served.rotten => D = want
    BY <2>1, DeliveredFacts
  <2>3. version \in Versions /\ TextFacts(version)
    BY <2>1, TextIsKnown DEF Sources
  <2>4. Len(<<>>) = 0
    BY EmptySeq
  <2>5. CASE ~ chain.asked
    <3>1. /\ IF served.framed THEN coming \in Streams(served) ELSE coming = Reply(version)
          /\ got # <<>> => attempts >= 2
      BY <2>1, <2>5 DEF DownloadInv, Arriving
    <3>2. CASE ~ served.framed
      <4>1. Reply(version) = <<>> /\ 0 \in Nat /\ 0 <= Len(Reply(version)) /\ 0 = Len(Reply(version))
        BY <2>1, <2>4, <3>1, <3>2
      <4>2. Beyond(0) = Len(want)
        BY <2>1, <2>3, <4>1, ReplyShows
      <4>3. Beyond(0) = 0
        BY <2>1 DEF Beyond, CallFacts
      <4>4. want = <<>>
        BY <2>2, <4>2, <4>3, EmptySeq
      <4> QED
        BY <2>1, <2>5, <3>1, <4>4
    <3>3. CASE served.framed
      <4>1. /\ version.bytes \in Seq(Sound) /\ version.bytes # <<>> /\ served.checked \in BOOLEAN
        BY <2>1, <2>3, <3>3 DEF Versions, Shaped, Sources
      <4>2. \E fs \in Layouts(Len(Spoilable(version.bytes, served.rotten))) :
               StreamOf(coming, fs, Spoilable(version.bytes, served.rotten), served.rotten /\ served.checked)
        BY <3>1, <3>3, <4>1, StreamsLaid
      <4>3. PICK fs \in Layouts(Len(Spoilable(version.bytes, served.rotten))) :
               StreamOf(coming, fs, Spoilable(version.bytes, served.rotten), served.rotten /\ served.checked)
        BY <4>2
      <4>4. /\ IsLayout(coming, fs, Spoilable(version.bytes, served.rotten)) /\ fs \in Seq(FrameInfo)
            /\ coming \in Seq(Bytes) /\ Spoilable(version.bytes, served.rotten) \in Seq(Bytes)
        BY <4>3 DEF StreamOf
      <4>5. 1 \in 1 .. Len(fs)
        BY <4>4, LenProperties DEF IsLayout
      <4>6. EndOf(fs[1]) <= Len(coming) /\ fs[1].start \in Nat /\ fs[1].len \in Nat
        BY <4>4, <4>5, FrameFacts
      <4> QED
        BY <2>1, <2>4, <4>6 DEF EndOf
    <3> QED
      BY <3>2, <3>3
  <2>6. CASE chain.asked
    <3>1. OnTheWay(chain, <<>>, arrived)
      BY <2>1, <2>6 DEF DownloadInv, Arriving
    <3>2. CASE Failed(chain)
      <4>1. Len(D) - Len(got) <= arrived + 0
        <5>1. Lacks(chain, arrived + Len(<<>>))
          BY <3>1, <3>2, Zenon DEF OnTheWay
        <5> QED
          BY <2>4, <5>1 DEF Lacks
      <4>2. Behind(arrived)
        <5>1. Behind(arrived + Len(<<>>))
          BY <3>1, <3>2, Zenon DEF OnTheWay
        <5>2. arrived + Len(<<>>) = arrived
          BY <2>1, <2>4
        <5> QED
          BY <5>1, <5>2
      <4>3. SameBut(served.rotten, got, want)
        <5>1. Starts(got, D) /\ got \in Seq(Bytes)
          <6>1. chain.source = served
            BY <3>1 DEF OnTheWay
          <6> QED
            BY <2>1, <2>6, <6>1 DEF DownloadInv, Arriving, Chains, SinkStates
        <5> HIDE DEF got, D, want
        <5> QED
          BY <2>2, <5>1, StartsSame
      <4> HIDE DEF D, got, want
      <4>4. Len(want) - Len(got) <= arrived
        BY <2>1, <2>2, <4>1
      <4>5. SameBut(served.rotten /\ (served.checked => arrived > EndLength), got, want)
        BY <4>2, <4>3 DEF Behind, SameBut
      <4> USE DEF got, want, version
      <4> QED
        BY <2>6, <3>2, <4>4, <4>5, Zenon
    <3>3. CASE ~ Failed(chain) /\ ~ served.framed
      <4>1. PlainAt(chain, <<>>) /\ D = want
        BY <2>1, <2>2, <3>1, <3>3 DEF OnTheWay, Shaped
      <4> DEFINE R == Reply(version)
      <4>2. PICK g \in 0 .. Len(R) : <<>> = Piece(R, g, Len(R)) /\ got = Piece(want, 0, Beyond(g))
        BY <4>1 DEF PlainAt
      <4>3. R \in Seq(Bytes) /\ Len(R) \in Nat /\ g \in Nat /\ g <= Len(R)
        BY <2>3, LenProperties DEF TextFacts
      <4>4. g = Len(R)
        <5> DEFINE l == Len(R)
        <5> HIDE DEF R
        <5>1. l \in Nat /\ l <= Len(R) /\ <<>> = Piece(R, g, l)
          BY <4>2, <4>3
        <5> HIDE DEF l
        <5>2. Len(Piece(R, g, l)) = l - g
          BY <4>3, <5>1, PieceProperties DEF l
        <5>3. l - g = 0
          BY <2>4, <5>1, <5>2
        <5> QED
          BY <4>3, <5>1, <5>3 DEF l
      <4>5. Beyond(g) = Len(want)
        BY <2>1, <2>3, <4>3, <4>4, ReplyShows
      <4>6. got = want
        BY <2>2, <4>2, <4>5, FullPiece
      <4>7. SameBut(served.rotten /\ ~ served.checked, got, want)
        BY <4>6 DEF SameBut
      <4> QED
        BY <2>6, <3>3, <4>6, <4>7
    <3>4. CASE ~ Failed(chain) /\ served.framed
      <4>1. FramedAt(chain, <<>>)
        BY <3>1, <3>4 DEF OnTheWay
      <4>2. PICK F \in Seq(Bytes) : \E fs \in Seq(FrameInfo) :
               /\ StreamOf(F, fs, D, served.rotten /\ served.checked)
               /\ \E g \in 0 .. Len(F) : <<>> = Piece(F, g, Len(F)) /\ IsAt(chain.decoder, got, F, fs, D, g)
        BY <4>1 DEF FramedAt
      <4>3. PICK fs \in Seq(FrameInfo) :
               /\ StreamOf(F, fs, D, served.rotten /\ served.checked)
               /\ \E g \in 0 .. Len(F) : <<>> = Piece(F, g, Len(F)) /\ IsAt(chain.decoder, got, F, fs, D, g)
        BY <4>2
      <4>4. PICK g \in 0 .. Len(F) : <<>> = Piece(F, g, Len(F)) /\ IsAt(chain.decoder, got, F, fs, D, g)
        BY <4>3
      <4>5. g = Len(F)
        <5> DEFINE l == Len(F)
        <5>1. l \in Nat /\ l <= Len(F) /\ <<>> = Piece(F, g, l) /\ g \in Nat /\ g <= l
          BY <4>4, LenProperties
        <5> HIDE DEF l
        <5>2. Len(Piece(F, g, l)) = l - g
          BY <5>1, PieceProperties
        <5>3. l - g = 0
          BY <2>4, <5>1, <5>2
        <5> QED
          BY <5>1, <5>3 DEF l
      <4> HIDE DEF D, got, want
      <4>6. got = D /\ ~ (served.rotten /\ served.checked)
        <5> DEFINE dubious == served.rotten /\ served.checked
                   d == chain.decoder
        <5>1. StreamOf(F, fs, D, dubious)
          BY <4>3
        <5>2. IsAt(d, got, F, fs, D, Len(F))
          BY <4>4, <4>5
        <5>3. D \in Seq(Bytes)
          BY <2>2
        <5>4. F \in Seq(Bytes)
          OBVIOUS
        <5>5. fs \in Seq(FrameInfo)
          OBVIOUS
        <5> HIDE DEF dubious, d
        <5>6. Through(got, D, dubious)
          BY ONLY <5>1, <5>2, <5>3, <5>4, <5>5, DecoderIsThrough
        <5> QED
          BY <5>6, Zenon DEF Through, dubious
      <4>7. SameBut(served.rotten /\ ~ served.checked, got, want)
        <5>1. DOMAIN got = 1 .. Len(want)
          BY <2>2, <4>6, LenProperties
        <5> QED
          BY <2>2, <4>6, <5>1 DEF SameBut
      <4> QED
        BY <2>2, <2>6, <3>4, <4>6, <4>7 DEF got, want
    <3> QED
      BY <3>2, <3>3, <3>4
  <2> QED
    BY <2>5, <2>6
<1> QED
  BY <1>1, DownloadInvAlways, PTL

=============================================================================
