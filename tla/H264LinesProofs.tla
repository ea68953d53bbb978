--------------------------- MODULE H264LinesProofs ---------------------------
(***************************************************************************)
(* Proofs about H264Lines: base64_decode undoes base64_encode, for byte    *)
(* strings of every length; what AnnexB promises holds with DESCRIBE       *)
(* behind it; remove_Emulation_Bytes, which looks for 0 0 3 in the array   *)
(* that it overwrites, sees the bytes of the unit there and undoes what    *)
(* the encoder did; the SDP and the frame rate say what it coded; and      *)
(* DESCRIBE and the first slice come to an end.                            *)
(***************************************************************************)
EXTENDS H264Lines, AnnexBProofs, FiniteSetTheorems, TLAPS

Groups(s) == (Len(s) + 2) \div 3

(* The group g, counted from 0, of a text: its four characters, from the   *)
(* three bytes behind 3 * g, of which the last two may be missing.         *)
LEMMA GroupOf ==
  ASSUME NEW s \in Seq(Byte), NEW g \in Nat, g < Groups(s)
  PROVE  LET t == base64_encode(s)
         IN  /\ 3 * g + 1 <= Len(s) /\ 4 * g + 4 <= Len(t)
             /\ t[4 * g + 1] = At(s, 3 * g + 1) \div 4
             /\ t[4 * g + 2] = (At(s, 3 * g + 1) % 4) * 16 + At(s, 3 * g + 2) \div 16
             /\ t[4 * g + 3] = IF 3 * g + 2 > Len(s) THEN Pad
                               ELSE (At(s, 3 * g + 2) % 16) * 4 + At(s, 3 * g + 3) \div 64
             /\ t[4 * g + 4] = IF 3 * g + 3 > Len(s) THEN Pad ELSE At(s, 3 * g + 3) % 64
<1> DEFINE t == base64_encode(s)
<1>1. Len(s) \in Nat /\ 3 * g + 1 <= Len(s)
  BY DEF Groups
<1>2. t = [m \in 1..(4 * Groups(s)) |-> Encoded(s, m)]
  BY DEF base64_encode, Groups
<1>3. Groups(s) \in Nat /\ 4 * g + 4 <= 4 * Groups(s)
  BY <1>1 DEF Groups
<1>4. Len(t) = 4 * Groups(s)
  BY <1>2, <1>3
<1>5. \A r \in 1..4 : t[4 * g + r] = Encoded(s, 4 * g + r)
  BY <1>2, <1>3
<1>6. Encoded(s, 4 * g + 1) = s[3 * g + 1] \div 4
  <2>1. (4 * g + 1) % 4 = 1 /\ ((4 * g + 1) - 1) \div 4 = g
    OBVIOUS
  <2> QED
    BY <2>1 DEF Encoded
<1>7. Encoded(s, 4 * g + 2) = (s[3 * g + 1] % 4) * 16 + At(s, 3 * g + 2) \div 16
  <2>1. (4 * g + 2) % 4 = 2 /\ ((4 * g + 2) - 1) \div 4 = g /\ (3 * g + 1) + 1 = 3 * g + 2
    OBVIOUS
  <2> QED
    BY <2>1, SMTT(30) DEF Encoded, LowBits
<1>8. Encoded(s, 4 * g + 3) = IF 3 * g + 2 > Len(s) THEN Pad
                              ELSE (s[3 * g + 2] % 16) * 4 + At(s, 3 * g + 3) \div 64
  <2>1. (4 * g + 3) % 4 = 3 /\ ((4 * g + 3) - 1) \div 4 = g
        /\ (3 * g + 1) + 1 = 3 * g + 2 /\ (3 * g + 1) + 2 = 3 * g + 3
    OBVIOUS
  <2>2. Encoded(s, 4 * g + 3) =
          IF (3 * g + 1) + 1 > Len(s) THEN Pad
          ELSE (s[(3 * g + 1) + 1] % 16) * 4 + At(s, (3 * g + 1) + 2) \div 64
    BY <2>1, SMTT(30) DEF Encoded
  <2> QED
    BY <2>1, <2>2
<1>9. Encoded(s, 4 * g + 4) = IF 3 * g + 3 > Len(s) THEN Pad ELSE s[3 * g + 3] % 64
  <2>1. (4 * g + 4) % 4 = 0 /\ ((4 * g + 4) - 1) \div 4 = g /\ (3 * g + 1) + 2 = 3 * g + 3
    OBVIOUS
  <2>2. Encoded(s, 4 * g + 4) =
          IF (3 * g + 1) + 2 > Len(s) THEN Pad ELSE s[(3 * g + 1) + 2] % 64
    BY <2>1, SMTT(30) DEF Encoded
  <2> QED
    BY <2>1, <2>2
<1>10. /\ At(s, 3 * g + 1) = s[3 * g + 1]
       /\ 3 * g + 2 <= Len(s) => At(s, 3 * g + 2) = s[3 * g + 2]
       /\ 3 * g + 3 <= Len(s) => At(s, 3 * g + 3) = s[3 * g + 3]
  BY <1>1 DEF At
<1> QED
  BY <1>1, <1>3, <1>4, <1>5, <1>6, <1>7, <1>8, <1>9, <1>10

LEMMA ByteAt ==
  ASSUME NEW s \in Seq(Byte), NEW k \in Nat \ {0}
  PROVE  At(s, k) \in Byte
<1>1. 0 \in Byte
  BY DEF Byte
<1>2. CASE k <= Len(s)
  BY <1>2 DEF At
<1>3. CASE ~(k <= Len(s))
  BY <1>1, <1>3 DEF At
<1> QED
  BY <1>2, <1>3

(* The characters that stand for bits are not the Pad.                     *)
LEMMA NotPad ==
  ASSUME NEW b \in Byte, NEW c \in Byte
  PROVE  (b % 16) * 4 + c \div 64 # Pad /\ c % 64 # Pad
BY DEF Byte, Pad

LEMMA LengthBack ==
  ASSUME NEW s \in Seq(Byte)
  PROVE  DecodedLength(base64_encode(s)) = Len(s)
<1> DEFINE t == base64_encode(s)
           last == Groups(s) - 1
<1>1. Len(s) \in Nat /\ Groups(s) \in Nat /\ Len(t) = 4 * Groups(s)
  <2>1. Len(s) \in Nat /\ Groups(s) \in Nat
    BY DEF Groups
  <2> QED
    BY <2>1 DEF base64_encode, Groups
<1>2. Len(t) \div 4 = Groups(s)
  BY <1>1
<1>3. CASE Groups(s) = 0
  BY <1>1, <1>2, <1>3 DEF DecodedLength, Groups
<1>4. CASE Groups(s) > 0
  <2>1. last \in Nat /\ last < Groups(s) /\ 4 * last + 4 = Len(t) /\ 4 * last + 3 = Len(t) - 1
        /\ last = Groups(s) - 1
    BY <1>1, <1>4
  <2>2. At(s, 3 * last + 2) \in Byte /\ At(s, 3 * last + 3) \in Byte
    BY <2>1, ByteAt
  <2>3. /\ t[Len(t)] = IF 3 * last + 3 > Len(s) THEN Pad ELSE At(s, 3 * last + 3) % 64
        /\ t[Len(t) - 1] = IF 3 * last + 2 > Len(s) THEN Pad
                           ELSE (At(s, 3 * last + 2) % 16) * 4 + At(s, 3 * last + 3) \div 64
        /\ 3 * last + 1 <= Len(s)
    BY <2>1, GroupOf, SMTT(30)
  <2> HIDE DEF last
  <2>4. /\ t[Len(t)] = Pad <=> 3 * last + 3 > Len(s)
        /\ t[Len(t) - 1] = Pad <=> 3 * last + 2 > Len(s)
    <3>1. /\ (At(s, 3 * last + 2) % 16) * 4 + At(s, 3 * last + 3) \div 64 # Pad
          /\ At(s, 3 * last + 3) % 64 # Pad
      BY <2>2, NotPad
    <3> QED
      BY <2>3, <3>1, Zenon
  <2>5. DecodedLength(t) =
          3 * Groups(s) - (IF t[Len(t)] # Pad THEN 0 ELSE IF t[Len(t) - 1] = Pad THEN 2 ELSE 1)
    BY <1>2, <1>4 DEF DecodedLength
  <2>6. Groups(s) = (Len(s) + 2) \div 3 /\ 3 * last + 3 = 3 * Groups(s)
        /\ 3 * last + 2 = 3 * Groups(s) - 1
    BY <1>1, <2>1 DEF Groups, last
  <2> HIDE DEF t
  <2>7. DecodedLength(t) = Len(s)
    BY <1>1, <2>1, <2>3, <2>4, <2>5, <2>6
  <2> QED
    BY <2>7 DEF t
<1> QED
  BY <1>1, <1>3, <1>4

(* What three bytes become and what becomes of their characters.           *)
LEMMA Bits ==
  ASSUME NEW a \in Byte, NEW b \in Byte, NEW c \in Byte
  PROVE  /\ (((a \div 4) * 4) % 256) + ((((a % 4) * 16 + b \div 16) \div 16) % 4) = a
         /\ ((((a % 4) * 16 + b \div 16) * 16) % 256)
              + ((((b % 16) * 4 + c \div 64) \div 4) % 16) = b
         /\ ((((b % 16) * 4 + c \div 64) * 64) % 256) + (c % 64) = c
BY DEF Byte

(* base64_decode(base64_encode(s)) = s, for every sequence of bytes        *)
(* (Base64.c:6-88).                                                        *)
THEOREM Base64RoundTrip == \A s \in Seq(Byte) : base64_decode(base64_encode(s)) = s
<1> SUFFICES ASSUME NEW s \in Seq(Byte) PROVE base64_decode(base64_encode(s)) = s
  OBVIOUS
<1> DEFINE t == base64_encode(s)
<1>1. Len(s) \in Nat /\ s = [k \in 1..Len(s) |-> s[k]]
  OBVIOUS
<1>2. ASSUME NEW k \in 1..Len(s) PROVE Decoded(t, k) = s[k]
  <2> DEFINE g == (k - 1) \div 3
  <2>1. g \in Nat /\ g < Groups(s)
    BY <1>1 DEF Groups
  <2>2. At(s, 3 * g + 1) \in Byte /\ At(s, 3 * g + 2) \in Byte /\ At(s, 3 * g + 3) \in Byte
    BY <2>1, ByteAt
  <2>3. k = 3 * g + 1 \/ k = 3 * g + 2 \/ k = 3 * g + 3
    BY <1>1
  <2>4. At(s, k) = s[k]
    BY <1>1 DEF At
  <2> HIDE DEF t, g
  <2>5. /\ t[4 * g + 1] = At(s, 3 * g + 1) \div 4
        /\ t[4 * g + 2] = (At(s, 3 * g + 1) % 4) * 16 + At(s, 3 * g + 2) \div 16
        /\ k >= 3 * g + 2 => t[4 * g + 3] = (At(s, 3 * g + 2) % 16) * 4 + At(s, 3 * g + 3) \div 64
        /\ k >= 3 * g + 3 => t[4 * g + 4] = At(s, 3 * g + 3) % 64
    <3>1. k >= 3 * g + 2 => ~(3 * g + 2 > Len(s))
      BY <1>1, <2>1
    <3>2. k >= 3 * g + 3 => ~(3 * g + 3 > Len(s))
      BY <1>1, <2>1
    <3> QED
      BY <2>1, <3>1, <3>2, GroupOf DEF t
  <2>6. CASE k = 3 * g + 1
    <3>1. k % 3 = 1 /\ 4 * ((k - 1) \div 3) + 1 = 4 * g + 1 /\ (4 * g + 1) + 1 = 4 * g + 2
      BY <2>1, <2>6
    <3>2. Decoded(t, k) = ((t[4 * g + 1] * 4) % 256) + ((t[4 * g + 2] \div 16) % 4)
      BY <3>1 DEF Decoded
    <3> QED
      BY <2>2, <2>4, <2>5, <2>6, <3>2, Bits
  <2>7. CASE k = 3 * g + 2
    <3>1. k % 3 = 2 /\ 4 * ((k - 1) \div 3) + 1 = 4 * g + 1
          /\ (4 * g + 1) + 1 = 4 * g + 2 /\ (4 * g + 1) + 2 = 4 * g + 3
      BY <2>1, <2>7
    <3>2. Decoded(t, k) = ((t[4 * g + 2] * 16) % 256) + ((t[4 * g + 3] \div 4) % 16)
      BY <3>1 DEF Decoded
    <3>3. t[4 * g + 3] = (At(s, 3 * g + 2) % 16) * 4 + At(s, 3 * g + 3) \div 64
      BY <2>1, <2>5, <2>7
    <3> QED
      BY <2>2, <2>4, <2>5, <2>7, <3>2, <3>3, Bits
  <2>8. CASE k = 3 * g + 3
    <3>1. k % 3 = 0 /\ 4 * ((k - 1) \div 3) + 1 = 4 * g + 1
          /\ (4 * g + 1) + 2 = 4 * g + 3 /\ (4 * g + 1) + 3 = 4 * g + 4
      BY <2>1, <2>8
    <3>2. Decoded(t, k) = ((t[4 * g + 3] * 64) % 256) + t[4 * g + 4]
      BY <3>1 DEF Decoded
    <3>3. /\ t[4 * g + 3] = (At(s, 3 * g + 2) % 16) * 4 + At(s, 3 * g + 3) \div 64
          /\ t[4 * g + 4] = At(s, 3 * g + 3) % 64
      BY <2>1, <2>5, <2>8
    <3> QED
      BY <2>2, <2>4, <2>8, <3>2, <3>3, Bits
  <2> QED
    BY <2>3, <2>6, <2>7, <2>8
<1> HIDE DEF t
<1>3. base64_decode(t) = [k \in 1..Len(s) |-> Decoded(t, k)]
  BY LengthBack DEF base64_decode, t
<1> QED
  BY <1>1, <1>2, <1>3 DEF t
----------------------------------------------------------------------------
(* Induction over places of a sequence, for a set of them.                 *)
LEMMA NoHole ==
  ASSUME NEW S, 0 \in S, NEW n \in Nat, \A k \in 0..(n - 1) : k \in S => k + 1 \in S
  PROVE  \A k \in 0..n : k \in S
<1> DEFINE Missed == {m \in 0..n : m \notin S}
           Less == {ss \in Nat \X Nat : ss[1] < ss[2]}
<1>1. IsWellFoundedOn(Less, Nat)
  <2>1. OpToRel(<, Nat) = Less
    BY Zenon DEF OpToRel
  <2> QED
    BY <2>1, NatLessThanWellFounded, Zenon
<1>2. SUFFICES ASSUME Missed # {} PROVE FALSE
  OBVIOUS
<1>3. PICK k \in Missed : \A m \in Missed : ~(<<m, k>> \in Less)
  <2>1. Missed \subseteq Nat
    OBVIOUS
  <2> HIDE DEF Missed, Less
  <2> QED
    BY <1>1, <1>2, <2>1, WFMin
<1>4. k # 0 /\ k - 1 \in Missed /\ <<k - 1, k>> \in Less
  OBVIOUS
<1> QED
  BY <1>3, <1>4

(* A function on 0..n may be defined by its first value and the step from  *)
(* each to the next.                                                       *)
Steps(n, S) == [1..n -> [S -> S]]

Iterates(g, n, S, base, step) ==
  g \in [0..n -> S] /\ g[0] = base /\ \A k \in 1..n : g[k] = step[k][g[k - 1]]

LEMMA Recursion ==
  ASSUME NEW n \in Nat, NEW S, NEW base \in S, NEW step \in Steps(n, S)
  PROVE  \E g : Iterates(g, n, S, base, step)
<1> DEFINE Reached == {m \in 0..n : \E g : Iterates(g, m, S, base, step)}
<1>1. 0 \in Reached
  <2>1. Iterates([k \in 0..0 |-> base], 0, S, base, step)
    BY DEF Iterates
  <2> QED
    BY <2>1
<1>2. ASSUME NEW m \in 0..(n - 1), m \in Reached PROVE m + 1 \in Reached
  <2>1. PICK g : Iterates(g, m, S, base, step)
    BY <1>2
  <2> DEFINE h == [k \in 0..(m + 1) |-> IF k <= m THEN g[k] ELSE step[m + 1][g[m]]]
  <2>2. g[m] \in S /\ m + 1 \in 1..n
    BY <2>1 DEF Iterates
  <2>3. h \in [0..(m + 1) -> S] /\ h[0] = base
    BY <2>1, <2>2 DEF Iterates, Steps
  <2>4. ASSUME NEW k \in 1..(m + 1) PROVE h[k] = step[k][h[k - 1]]
    <3>1. CASE k <= m
      <4>1. h[k] = g[k] /\ h[k - 1] = g[k - 1] /\ k \in 1..m
        BY <3>1
      <4> QED
        BY <2>1, <4>1 DEF Iterates
    <3>2. CASE k = m + 1
      BY <3>2
    <3> QED
      BY <3>1, <3>2
  <2>5. Iterates(h, m + 1, S, base, step)
    <3> HIDE DEF h
    <3> QED
      BY <2>3, <2>4 DEF Iterates
  <2> HIDE DEF h
  <2> QED
    BY <2>5
<1>3. n \in Reached
  <2> HIDE DEF Reached
  <2> QED
    BY <1>1, <1>2, NoHole
<1> QED
  BY <1>3

LEMMA ByteIsNat == \A b \in Byte : b \in Nat
BY DEF Byte

(* The function behind Number, of any width.                               *)
LEMMA ReadingSteps ==
  ASSUME NEW s \in Seq(Byte), NEW at \in Nat, at + Width <= Len(s)
  PROVE  /\ Reading(s, at) \in [0..Width -> Nat] /\ Reading(s, at)[0] = 0
         /\ \A k \in 1..Width : Reading(s, at)[k] = 256 * Reading(s, at)[k - 1] + s[at + k]
<1> DEFINE Step(v, k) == 256 * v + s[at + k]
           step == [k \in 1..Width |-> [v \in Nat |-> Step(v, k)]]
           Defined(g) == g = [k \in 0..Width |-> IF k = 0 THEN 0 ELSE Step(g[k - 1], k)]
<1>1. Width \in Nat
  BY LinesAssumption DEF LinesAssumption
<1>2. ASSUME NEW v \in Nat, NEW k \in 1..Width PROVE Step(v, k) \in Nat
  <2>1. at + k \in 1..Len(s)
    BY <1>1
  <2>2. s[at + k] \in Byte
    BY <2>1
  <2>3. s[at + k] \in Nat
    BY <2>2, ByteIsNat
  <2> QED
    BY <2>3
<1> HIDE DEF Step
<1>3. step \in Steps(Width, Nat)
  BY <1>2 DEF Steps
<1>4. PICK g : Iterates(g, Width, Nat, 0, step)
  <2> HIDE DEF step
  <2>1. 0 \in Nat
    OBVIOUS
  <2> QED
    BY <1>1, <1>3, <2>1, Recursion
<1>5. Defined(g)
  <2>1. ASSUME NEW k \in 1..Width PROVE g[k] = Step(g[k - 1], k)
    <3>1. k - 1 \in 0..Width /\ g[k - 1] \in Nat
      BY <1>1, <1>4 DEF Iterates
    <3> QED
      BY <1>4, <3>1 DEF Iterates
  <2>2. g \in [0..Width -> Nat] /\ g[0] = 0
    BY <1>4 DEF Iterates
  <2> HIDE DEF step
  <2>3. ASSUME NEW k \in 0..Width PROVE g[k] = IF k = 0 THEN 0 ELSE Step(g[k - 1], k)
    <3>1. k = 0 \/ k \in 1..Width
      BY <1>1
    <3> QED
      BY <2>1, <2>2, <3>1
  <2> QED
    BY <2>2, <2>3
<1>6. Defined(Reading(s, at))
  <2>1. Reading(s, at) = CHOOSE h : Defined(h)
    BY DEF Reading, Step
  <2> HIDE DEF Defined
  <2> QED
    BY <1>5, <2>1
<1> DEFINE f == Reading(s, at)
           S == {m \in 0..Width : f[m] \in Nat}
<1> HIDE DEF f
<1>7. f[0] = 0 /\ \A k \in 1..Width : f[k] = Step(f[k - 1], k)
  BY <1>1, <1>6 DEF f
<1>8. \A k \in 0..Width : k \in S
  <2>1. 0 \in S
    BY <1>1, <1>7
  <2>2. ASSUME NEW k \in 0..(Width - 1), k \in S PROVE k + 1 \in S
    <3>1. k + 1 \in 1..Width /\ (k + 1) - 1 = k /\ f[k] \in Nat
      BY <1>1, <2>2
    <3>2. f[k + 1] = Step(f[k], k + 1)
      BY <1>7, <3>1
    <3>3. f[k + 1] \in Nat
      BY <1>2, <3>1, <3>2
    <3> QED
      BY <1>1, <3>1, <3>3
  <2> HIDE DEF S
  <2> QED
    BY <1>1, <2>1, <2>2, NoHole
<1> QED
  BY <1>6, <1>7, <1>8 DEF f, Step

LEMMA NumberNat ==
  ASSUME NEW s \in Seq(Byte), NEW at \in Nat, at + Width <= Len(s)
  PROVE  Number(s, at) \in Nat
BY ReadingSteps, LinesAssumption DEF Number, LinesAssumption

----------------------------------------------------------------------------
(* What the encoder has written after each byte of a set.                  *)

LEMMA WrittenBytes ==
  ASSUME NEW e \in Seq(Byte), NEW b \in Byte
  PROVE  LET w == Written(e, b)
             n == IF Zeros(e) /\ b <= 3 THEN 2 ELSE 1
         IN  /\ w \in Seq(Byte) /\ Len(w) = Len(e) + n /\ w[Len(w)] = b
             /\ n = 2 => w[Len(e) + 1] = 3
             /\ \A m \in 1..Len(e) : w[m] = e[m]
<1>1. 3 \in Byte
  BY DEF Byte
<1>2. CASE Zeros(e) /\ b <= 3
  <2>1. <<3, b>> \in Seq(Byte) /\ Len(<<3, b>>) = 2
    BY <1>1
  <2>2. Written(e, b) = e \o <<3, b>>
    BY <1>2 DEF Written
  <2> QED
    BY <1>2, <2>1, <2>2
<1>3. CASE ~(Zeros(e) /\ b <= 3)
  <2>1. Written(e, b) = Append(e, b)
    BY <1>3 DEF Written
  <2> QED
    BY <1>3, <2>1
<1> QED
  BY <1>2, <1>3

LEMMA EscapingSteps ==
  ASSUME NEW r \in Seq(Byte)
  PROVE  /\ Escaping(r) \in [0..Len(r) -> Seq(Byte)] /\ Escaping(r)[0] = <<>>
         /\ \A k \in 1..Len(r) : Escaping(r)[k] = Written(Escaping(r)[k - 1], r[k])
<1> DEFINE n == Len(r)
           step == [k \in 1..n |-> [e \in Seq(Byte) |-> Written(e, r[k])]]
           Defined(g) == g = [k \in 0..n |-> IF k = 0 THEN <<>> ELSE Written(g[k - 1], r[k])]
<1>1. n \in Nat /\ \A k \in 1..n : r[k] \in Byte
  OBVIOUS
<1>2. ASSUME NEW e \in Seq(Byte), NEW k \in 1..n PROVE Written(e, r[k]) \in Seq(Byte)
  BY <1>1, WrittenBytes
<1> HIDE DEF n
<1>3. step \in Steps(n, Seq(Byte))
  BY <1>2 DEF Steps
<1>4. PICK g : Iterates(g, n, Seq(Byte), <<>>, step)
  <2> HIDE DEF step
  <2>1. <<>> \in Seq(Byte)
    OBVIOUS
  <2> QED
    BY <1>1, <1>3, <2>1, Recursion
<1>5. Defined(g)
  <2>1. ASSUME NEW k \in 1..n PROVE g[k] = Written(g[k - 1], r[k])
    <3>1. k - 1 \in 0..n /\ g[k - 1] \in Seq(Byte)
      BY <1>1, <1>4 DEF Iterates
    <3> QED
      BY <1>4, <3>1 DEF Iterates
  <2>2. g \in [0..n -> Seq(Byte)] /\ g[0] = <<>>
    BY <1>4 DEF Iterates
  <2> HIDE DEF step
  <2>3. ASSUME NEW k \in 0..n PROVE g[k] = IF k = 0 THEN <<>> ELSE Written(g[k - 1], r[k])
    <3>1. k = 0 \/ k \in 1..n
      BY <1>1
    <3> QED
      BY <2>1, <2>2, <3>1
  <2> QED
    BY <2>2, <2>3
<1>6. Defined(Escaping(r))
  <2>1. Escaping(r) = CHOOSE h : Defined(h)
    BY DEF Escaping, n
  <2> HIDE DEF Defined
  <2> QED
    BY <1>5, <2>1
<1> DEFINE f == Escaping(r)
           S == {m \in 0..n : f[m] \in Seq(Byte)}
<1> HIDE DEF f
<1>7. f[0] = <<>> /\ \A k \in 1..n : f[k] = Written(f[k - 1], r[k])
  BY <1>1, <1>6 DEF f
<1>8. \A k \in 0..n : k \in S
  <2>1. 0 \in S
    <3>1. <<>> \in Seq(Byte)
      OBVIOUS
    <3>2. f[0] \in Seq(Byte)
      BY <1>7, <3>1
    <3> QED
      BY <1>1, <3>2
  <2>2. ASSUME NEW k \in 0..(n - 1), k \in S PROVE k + 1 \in S
    <3>1. k + 1 \in 1..n /\ (k + 1) - 1 = k /\ f[k] \in Seq(Byte)
      BY <1>1, <2>2
    <3>2. f[k + 1] = Written(f[k], r[k + 1])
      BY <1>7, <3>1
    <3>3. f[k + 1] \in Seq(Byte)
      BY <1>2, <3>1, <3>2
    <3> QED
      BY <1>1, <3>1, <3>3
  <2> HIDE DEF S
  <2> QED
    BY <1>1, <2>1, <2>2, NoHole
<1> QED
  BY <1>6, <1>7, <1>8 DEF f, n

(* Where the bytes of a set have gone: the length written with k of them,  *)
(* and whether a 3 goes in front of the next.                              *)
Place(r, k) == Len(Escaping(r)[k])
Marked(r, k) == Zeros(Escaping(r)[k]) /\ r[k + 1] <= 3

LEMMA PlaceStep ==
  ASSUME NEW r \in Seq(Byte), NEW k \in 0..(Len(r) - 1)
  PROVE  /\ Place(r, k) \in Nat /\ Place(r, k + 1) \in Nat
         /\ Place(r, k + 1) = Place(r, k) + (IF Marked(r, k) THEN 2 ELSE 1)
         /\ Escaping(r)[k + 1][Place(r, k + 1)] = r[k + 1]
         /\ Marked(r, k) => Escaping(r)[k + 1][Place(r, k) + 1] = 3
         /\ \A m \in 1..Place(r, k) : Escaping(r)[k + 1][m] = Escaping(r)[k][m]
<1> DEFINE f == Escaping(r)
<1>1. k \in 0..Len(r) /\ k + 1 \in 1..Len(r) /\ (k + 1) - 1 = k
  OBVIOUS
<1>2. r[k + 1] \in Byte
  BY <1>1
<1>3. f[k] \in Seq(Byte) /\ f[k + 1] = Written(f[k], r[k + 1])
  BY <1>1, EscapingSteps
<1> HIDE DEF f
<1>4. PICK e \in Seq(Byte) : e = f[k]
  BY <1>3
<1>5. PICK w : w = Written(e, r[k + 1])
  OBVIOUS
<1>6. /\ Len(w) = Len(e) + (IF Zeros(e) /\ r[k + 1] <= 3 THEN 2 ELSE 1)
      /\ w \in Seq(Byte) /\ w[Len(w)] = r[k + 1]
      /\ Zeros(e) /\ r[k + 1] <= 3 => w[Len(e) + 1] = 3
      /\ \A m \in 1..Len(e) : w[m] = e[m]
  BY <1>2, <1>5, WrittenBytes
<1>7. Len(e) \in Nat /\ Len(w) \in Nat
  BY <1>6
<1>8. f[k] = e /\ f[k + 1] = w
  BY <1>3, <1>4, <1>5
<1> QED
  BY <1>6, <1>7, <1>8 DEF Place, Marked, f

(* The bytes written stay: what has been written with k bytes is a prefix. *)
LEMMA PlacePrefix ==
  ASSUME NEW r \in Seq(Byte), NEW k \in 0..Len(r)
  PROVE  /\ Place(r, k) \in 0..Len(Escape(r))
         /\ \A m \in 1..Place(r, k) : Escape(r)[m] = Escaping(r)[k][m]
<1> DEFINE n == Len(r)
           Early(d) == /\ Place(r, n - d) \in 0..Len(Escape(r))
                      /\ \A m \in 1..Place(r, n - d) : Escape(r)[m] = Escaping(r)[n - d][m]
           S == {d \in 0..n : Early(d)}
<1>1. n \in Nat
  OBVIOUS
<1>2. 0 \in S
  <2>1. Place(r, n) = Len(Escape(r)) /\ Place(r, n) \in Nat /\ Escape(r) = Escaping(r)[n]
    BY EscapingSteps DEF Place, Escape
  <2> QED
    BY <1>1, <2>1
<1>3. ASSUME NEW d \in 0..(n - 1), d \in S PROVE d + 1 \in S
  <2>1. Early(d)
    BY <1>3
  <2> DEFINE q == n - (d + 1)
  <2>2. q \in 0..(Len(r) - 1) /\ q + 1 = n - d /\ d + 1 \in 0..n
    BY <1>1
  <2> HIDE DEF q
  <2>3. /\ Place(r, q) \in Nat /\ Place(r, q + 1) \in Nat /\ Place(r, q) <= Place(r, q + 1)
        /\ \A m \in 1..Place(r, q) : Escaping(r)[q + 1][m] = Escaping(r)[q][m]
    <3>1. /\ Place(r, q) \in Nat /\ Place(r, q + 1) \in Nat
          /\ Place(r, q + 1) = Place(r, q) + (IF Marked(r, q) THEN 2 ELSE 1)
          /\ \A m \in 1..Place(r, q) : Escaping(r)[q + 1][m] = Escaping(r)[q][m]
      BY <2>2, PlaceStep
    <3> QED
      BY <3>1
  <2>4. Early(d + 1)
    <3>1. /\ Place(r, q + 1) \in 0..Len(Escape(r))
          /\ \A m \in 1..Place(r, q + 1) : Escape(r)[m] = Escaping(r)[q + 1][m]
      BY <2>1, <2>2
    <3>2. /\ Place(r, q) \in 0..Len(Escape(r))
          /\ \A m \in 1..Place(r, q) : Escape(r)[m] = Escaping(r)[q][m]
      BY <2>3, <3>1
    <3> QED
      BY <3>2 DEF q
  <2> QED
    BY <2>2, <2>4
<1>4. n - k \in 0..n /\ n - (n - k) = k
  BY <1>1
<1> HIDE DEF S, n
<1>5. n - k \in S
  BY <1>1, <1>2, <1>3, <1>4, NoHole
<1> QED
  BY <1>4, <1>5 DEF S

LEMMA EscapeEnds ==
  ASSUME NEW r \in Seq(Byte)
  PROVE  /\ Escape(r) \in Seq(Byte) /\ Len(Escape(r)) \in Nat
         /\ Place(r, 0) = 0 /\ Place(r, Len(r)) = Len(Escape(r))
<1>1. Len(r) \in Nat
  OBVIOUS
<1>2. Escape(r) \in Seq(Byte)
  BY <1>1, EscapingSteps DEF Escape
<1> QED
  BY <1>2, EscapingSteps DEF Place, Escape

(* Where byte k + 1 of a set stands in what the encoder has written, and   *)
(* that a 3 in front of it shows there.                                    *)
LEMMA EscapeLayout ==
  ASSUME NEW r \in Seq(Byte), NEW k \in 0..(Len(r) - 1)
  PROVE  LET e == Escape(r)
             at == Place(r, k)
         IN  /\ at \in Nat /\ Place(r, k + 1) = at + (IF Marked(r, k) THEN 2 ELSE 1)
             /\ Place(r, k + 1) <= Len(e) /\ e[Place(r, k + 1)] = r[k + 1]
             /\ Marked(r, k) => e[at + 1] = 3
             /\ Marked(r, k) <=> r[k + 1] <= 3 /\ at >= 2 /\ e[at] = 0 /\ e[at - 1] = 0
<1>1. k \in 0..Len(r) /\ k + 1 \in 0..Len(r)
  OBVIOUS
<1>2. PICK e : e = Escape(r)
  OBVIOUS
<1>3. PICK f : f = Escaping(r)
  OBVIOUS
<1>4. /\ Place(r, k) \in Nat /\ Place(r, k + 1) \in Nat
      /\ Place(r, k + 1) = Place(r, k) + (IF Marked(r, k) THEN 2 ELSE 1)
      /\ f[k + 1][Place(r, k + 1)] = r[k + 1]
      /\ Marked(r, k) => f[k + 1][Place(r, k) + 1] = 3
  BY <1>3, PlaceStep
<1>5. /\ Place(r, k) <= Len(e) /\ \A m \in 1..Place(r, k) : e[m] = f[k][m]
      /\ Place(r, k + 1) <= Len(e) /\ \A m \in 1..Place(r, k + 1) : e[m] = f[k + 1][m]
  <2>1. Len(e) \in Nat
    BY <1>2, EscapeEnds
  <2> QED
    BY <1>1, <1>2, <1>3, <2>1, PlacePrefix
<1>6. e[Place(r, k + 1)] = r[k + 1] /\ (Marked(r, k) => e[Place(r, k) + 1] = 3)
  BY <1>4, <1>5
<1>7. Marked(r, k) <=> r[k + 1] <= 3 /\ Place(r, k) >= 2
                       /\ e[Place(r, k)] = 0 /\ e[Place(r, k) - 1] = 0
  <2>1. Marked(r, k) <=> r[k + 1] <= 3 /\ Place(r, k) >= 2
                         /\ f[k][Place(r, k)] = 0 /\ f[k][Place(r, k) - 1] = 0
    BY <1>3 DEF Marked, Zeros, Place
  <2>2. ASSUME Place(r, k) >= 2
        PROVE  /\ e[Place(r, k)] = f[k][Place(r, k)]
               /\ e[Place(r, k) - 1] = f[k][Place(r, k) - 1]
    <3>1. Place(r, k) \in 1..Place(r, k) /\ Place(r, k) - 1 \in 1..Place(r, k)
      BY <1>4, <2>2
    <3> QED
      BY <1>5, <3>1
  <2> QED
    BY <2>1, <2>2, Zenon
<1> QED
  BY <1>2, <1>4, <1>5, <1>6, <1>7

(* The indices of the removal with b bytes of the set restored: it stands  *)
(* behind them, or behind the 3 that follows them; the 3s it has not come  *)
(* to it will see with the zeros in front of them.                         *)
InStep(r, a, b) ==
  \/ b < Len(r) /\ Marked(r, b) /\ a = Place(r, b) + 1
  \/ a = Place(r, b) /\ \A k \in {b, b + 1} : k < Len(r) => ~Marked(r, k)

LEMMA InStepBegins ==
  ASSUME NEW r \in Seq(Byte) PROVE InStep(r, 0, 0)
<1>1. Len(r) \in Nat /\ Place(r, 0) = 0
  BY EscapeEnds
<1>2. ASSUME NEW k \in {0, 1}, k < Len(r) PROVE ~Marked(r, k)
  <2>1. CASE k = 0
    BY <1>1, <1>2, <2>1, EscapeLayout
  <2>2. CASE k = 1
    <3>1. 0 \in 0..(Len(r) - 1) /\ 1 \in 0..(Len(r) - 1) /\ ~Marked(r, 0)
      BY <1>1, <1>2, <2>1, <2>2, EscapeLayout
    <3>2. Place(r, 0 + 1) = 1
      BY <1>1, <3>1, EscapeLayout
    <3> QED
      BY <2>2, <3>1, <3>2, EscapeLayout
  <2> QED
    BY <2>1, <2>2
<1> QED
  BY <1>1, <1>2 DEF InStep

LEMMA InStepReads ==
  ASSUME NEW r \in Seq(Byte), NEW a \in Nat, NEW b \in 0..Len(r),
         InStep(r, a, b), a < Len(Escape(r))
  PROVE  /\ b < Len(r) /\ Escape(r)[a + 1] = r[b + 1] /\ Place(r, b + 1) = a + 1
         /\ b + 1 < Len(r) => ~Marked(r, b + 1)
<1>1. Len(r) \in Nat /\ Place(r, Len(r)) = Len(Escape(r)) /\ Len(Escape(r)) \in Nat
  BY EscapeEnds
<1>2. b < Len(r)
  BY <1>1 DEF InStep
<1>3. b \in 0..(Len(r) - 1)
  BY <1>1, <1>2
<1>4. /\ Place(r, b) \in Nat /\ Place(r, b + 1) = Place(r, b) + (IF Marked(r, b) THEN 2 ELSE 1)
      /\ Escape(r)[Place(r, b + 1)] = r[b + 1]
      /\ Marked(r, b) => Escape(r)[Place(r, b) + 1] = 3
  BY <1>3, EscapeLayout
<1>5. Place(r, b + 1) = a + 1
  BY <1>2, <1>4 DEF InStep
<1>6. ASSUME b + 1 < Len(r), Marked(r, b + 1) PROVE FALSE
  <2>1. Marked(r, b) /\ a = Place(r, b) + 1
    BY <1>2, <1>6 DEF InStep
  <2>2. b + 1 \in 0..(Len(r) - 1)
    BY <1>1, <1>6
  <2>3. Escape(r)[Place(r, b + 1) - 1] = 0
    BY <1>6, <2>2, EscapeLayout
  <2> QED
    BY <1>4, <1>5, <2>1, <2>3
<1> QED
  BY <1>2, <1>4, <1>5, <1>6

(* 0 0 3 at the index read is a 3 of the encoder, and any other byte there *)
(* is a byte of the set.                                                   *)
LEMMA InStepGoesOn ==
  ASSUME NEW r \in Seq(Byte), NEW a \in Nat, NEW b \in 0..Len(r),
         InStep(r, a, b), a < Len(Escape(r)), NEW e, e = Escape(r)
  PROVE  IF a + 2 < Len(e) /\ e[a + 1] = 0 /\ e[a + 2] = 0 /\ e[a + 3] = 3
         THEN b + 1 < Len(r) /\ e[a + 2] = r[b + 2] /\ InStep(r, a + 3, b + 2)
         ELSE InStep(r, a + 1, b + 1)
<1>1. Len(r) \in Nat /\ Place(r, Len(r)) = Len(e) /\ Len(e) \in Nat
  BY EscapeEnds
<1>2. /\ b < Len(r) /\ e[a + 1] = r[b + 1] /\ Place(r, b + 1) = a + 1
      /\ b + 1 < Len(r) => ~Marked(r, b + 1)
  BY InStepReads
<1>3. b + 1 < Len(r) => Place(r, b + 2) = a + 2 /\ a + 2 <= Len(e) /\ e[a + 2] = r[b + 2]
  <2>1. SUFFICES ASSUME b + 1 < Len(r)
                 PROVE  Place(r, b + 2) = a + 2 /\ a + 2 <= Len(e) /\ e[a + 2] = r[b + 2]
    OBVIOUS
  <2>2. b + 1 \in 0..(Len(r) - 1) /\ (b + 1) + 1 = b + 2
    BY <1>1, <2>1
  <2> QED
    BY <1>2, <2>1, <2>2, EscapeLayout
<1>4. b + 2 < Len(r) =>
        /\ Marked(r, b + 2) => e[a + 3] = 3 /\ e[a + 1] = 0 /\ e[a + 2] = 0 /\ a + 2 < Len(e)
        /\ ~Marked(r, b + 2) /\ e[a + 1] = 0 /\ e[a + 2] = 0 => e[a + 3] # 3
  <2>1. SUFFICES ASSUME b + 2 < Len(r)
        PROVE  /\ Marked(r, b + 2) =>
                    e[a + 3] = 3 /\ e[a + 1] = 0 /\ e[a + 2] = 0 /\ a + 2 < Len(e)
               /\ ~Marked(r, b + 2) /\ e[a + 1] = 0 /\ e[a + 2] = 0 => e[a + 3] # 3
    OBVIOUS
  <2>2. b + 2 \in 0..(Len(r) - 1) /\ Place(r, b + 2) = a + 2
    BY <1>1, <1>3, <2>1
  <2>3. /\ Place(r, (b + 2) + 1) = a + 2 + (IF Marked(r, b + 2) THEN 2 ELSE 1)
        /\ Place(r, (b + 2) + 1) <= Len(e) /\ e[Place(r, (b + 2) + 1)] = r[b + 3]
        /\ Marked(r, b + 2) => e[a + 3] = 3
        /\ Marked(r, b + 2) <=> r[b + 3] <= 3 /\ a + 2 >= 2 /\ e[a + 2] = 0 /\ e[a + 1] = 0
    <3>1. (b + 2) + 1 = b + 3 /\ (a + 2) + 1 = a + 3 /\ (a + 2) - 1 = a + 1
      OBVIOUS
    <3> QED
      BY <2>2, <3>1, EscapeLayout, SMTT(30)
  <2> QED
    BY <1>1, <2>3
<1>5. CASE a + 2 < Len(e) /\ e[a + 1] = 0 /\ e[a + 2] = 0 /\ e[a + 3] = 3
  <2>1. b + 1 < Len(r)
    BY <1>1, <1>2, <1>5
  <2>2. b + 2 < Len(r)
    BY <1>1, <1>3, <1>5, <2>1
  <2>3. Marked(r, b + 2)
    BY <1>4, <1>5, <2>2
  <2> QED
    BY <1>3, <1>5, <2>1, <2>2, <2>3 DEF InStep
<1>6. CASE ~(a + 2 < Len(e) /\ e[a + 1] = 0 /\ e[a + 2] = 0 /\ e[a + 3] = 3)
  <2>1. b + 2 < Len(r) => ~Marked(r, b + 2)
    BY <1>4, <1>6
  <2>2. (b + 1) + 1 = b + 2
    OBVIOUS
  <2>3. InStep(r, a + 1, b + 1)
    BY <1>2, <2>1, <2>2 DEF InStep
  <2> QED
    BY <1>6, <2>3
<1> QED
  BY <1>5, <1>6

(* At the end of what the encoder has written the whole set is restored.   *)
LEMMA InStepEnds ==
  ASSUME NEW r \in Seq(Byte), NEW a \in Nat, NEW b \in 0..Len(r),
         InStep(r, a, b), a >= Len(Escape(r))
  PROVE  b = Len(r)
<1>1. Len(r) \in Nat /\ Len(Escape(r)) \in Nat
  BY EscapeEnds
<1>2. ASSUME b < Len(r) PROVE FALSE
  <2>1. b \in 0..(Len(r) - 1)
    BY <1>1, <1>2
  <2>2. /\ Place(r, b) \in Nat /\ Place(r, b + 1) <= Len(Escape(r))
        /\ Place(r, b + 1) = Place(r, b) + (IF Marked(r, b) THEN 2 ELSE 1)
    BY <2>1, EscapeLayout
  <2> QED
    BY <1>1, <1>2, <2>2 DEF InStep
<1> QED
  BY <1>1, <1>2

----------------------------------------------------------------------------
(* DESCRIBE behind the search.                                             *)

LEMMA LinesStep == [LinesNext]_<<vars, linesVars>> => [Next]_vars
<1>1. SetLines => UNCHANGED vars
  BY DEF SetLines, RemovePps, RemoveSps, BeginRemove, Missing, RemoveStep, EndRemove,
         Unscanned, GetFramerate, SetLine, FirstSlice
<1> QED
  BY <1>1 DEF LinesNext

(* set_H264_Lines and the stream leave the search as it is: every          *)
(* behaviour of H264Lines is one of AnnexB (H264_sdpline.c:93-138).        *)
THEOREM LinesKeepSearch == LinesSpec => Spec
<1>1. LinesInit => Init
  BY DEF LinesInit
<1> QED
  BY <1>1, LinesStep, PTL DEF LinesSpec, Spec

(* The sets of the SDP are the first of the file (H264_sdpline.c:35-103).  *)
THEOREM LinesSetsFirst == LinesSpec => []SetsAreFirst
BY LinesKeepSearch, SetsAreTheFirst, PTL

----------------------------------------------------------------------------
(* The removal in place.                                                   *)

Length(set) == set.to - set.from

Overwriting(here, set) ==
  stage = here =>
    /\ set # None /\ Length(set) \in Nat /\ i \in Nat /\ j \in Nat /\ j <= i
    /\ DOMAIN arr = 0..(Length(set) - 1)
    /\ \A k \in i..(Length(set) - 1) : arr[k] = Content(set)[k]

(* As long as the loop runs, what is at and behind the index read is still *)
(* what the unit has there.                                                *)
RemovalReadsUnit == Overwriting("pps", pps) /\ Overwriting("sps", sps)

RemovalInv ==
  /\ RemovalReadsUnit
  /\ stage # "scan" => pc = "done"

LEMMA SizeOfArray ==
  ASSUME NEW f, NEW n \in Nat, DOMAIN f = 0..(n - 1) PROVE Size(f) = n
<1>1. Cardinality(0..(n - 1)) = n
  <2>1. CASE n = 0
    BY <2>1, FS_Interval
  <2>2. CASE n > 0
    BY <2>2, FS_Interval
  <2> QED
    BY <2>1, <2>2
<1> QED
  BY <1>1 DEF Size

(* A unit ends behind its beginning.                                       *)
LEMMA UnitLength ==
  ASSUME Inv, NEW set \in {None} \cup Unit, NEW kind, Kept(set, kind), set # None
  PROVE  Length(set) \in Nat
<1>1. StopsAt(set.from, set.to) /\ set.from \in 0..end /\ set.to \in 0..end /\ File
  BY DEF Kept, Unit, Inv, TypeOK, File
<1>2. set.from <= set.to
  BY <1>1, StopsAgain
<1> QED
  BY <1>1, <1>2 DEF Length, File

LEMMA BeginReads ==
  ASSUME NEW here, NEW next, NEW set, BeginRemove(here, next, set), Length(set) \in Nat
  PROVE  /\ stage' = next /\ UNCHANGED vars /\ pc = "done"
         /\ set # None /\ i' = 0 /\ j' = 0 /\ DOMAIN arr' = 0..(Length(set) - 1)
         /\ \A k \in 0..(Length(set) - 1) : arr'[k] = Content(set)[k]
BY DEF BeginRemove, Content, Length, Unscanned

LEMMA StepReads ==
  ASSUME NEW here, NEW set, RemoveStep(here, set), Overwriting(here, set)
  PROVE  /\ stage' = stage /\ UNCHANGED vars
         /\ set # None /\ Length(set) \in Nat /\ i' \in Nat /\ j' \in Nat /\ j' <= i'
         /\ DOMAIN arr' = 0..(Length(set) - 1)
         /\ \A k \in i'..(Length(set) - 1) : arr'[k] = Content(set)[k]
<1>1. /\ stage = here /\ i < Size(arr) /\ stage' = stage /\ UNCHANGED vars
      /\ set # None /\ Length(set) \in Nat /\ i \in Nat /\ j \in Nat /\ j <= i
      /\ DOMAIN arr = 0..(Length(set) - 1)
      /\ \A k \in i..(Length(set) - 1) : arr[k] = Content(set)[k]
  BY DEF RemoveStep, Overwriting, Unscanned
<1>2. Size(arr) = Length(set)
  BY <1>1, SizeOfArray
<1> HIDE DEF Content
<1>3. CASE /\ Emulation
           /\ arr' = [arr EXCEPT ![j] = Content(set)[i], ![j + 1] = Content(set)[i + 1]]
           /\ i' = i + 3 /\ j' = j + 2
  <2>1. DOMAIN arr' = DOMAIN arr /\ \A k \in DOMAIN arr : k > j + 1 => arr'[k] = arr[k]
    BY <1>1, <1>3
  <2> QED
    BY <1>1, <1>2, <1>3, <2>1
<1>4. CASE /\ ~Emulation
           /\ arr' = [arr EXCEPT ![j] = Content(set)[i]]
           /\ i' = i + 1 /\ j' = j + 1
  <2>1. DOMAIN arr' = DOMAIN arr /\ \A k \in DOMAIN arr : k > j => arr'[k] = arr[k]
    BY <1>1, <1>4
  <2> QED
    BY <1>1, <1>2, <1>4, <2>1
<1> QED
  BY <1>3, <1>4 DEF RemoveStep

LEMMA SameContent ==
  ASSUME UNCHANGED vars
  PROVE  /\ Content(pps)' = Content(pps) /\ Length(pps)' = Length(pps) /\ pps' = pps
         /\ Content(sps)' = Content(sps) /\ Length(sps)' = Length(sps) /\ sps' = sps
         /\ pc' = pc
BY DEF vars, Content, Length

LEMMA RemovalStep ==
  ASSUME Inv, RemovalInv, LinesNext PROVE RemovalInv'
<1>1. CASE Next /\ UNCHANGED linesVars
  <2>1. pc # "done"
    BY <1>1 DEF Next, Find, FindAligned, StartWords, FindInWord, StartTail, FindInTail,
              NotFound, Look, Loop, FirstFound, EndLoop, EnterLoop, SkipZero, SkipOne, TakeUnit
  <2>2. stage' = "scan"
    BY <1>1, <2>1 DEF RemovalInv, linesVars
  <2> QED
    BY <2>2 DEF RemovalInv, RemovalReadsUnit, Overwriting
<1>2. /\ TypeOK /\ Kept(pps, Pps) /\ Kept(sps, Sps)
      /\ pps \in {None} \cup Unit /\ sps \in {None} \cup Unit
  BY DEF Inv, SetsKept, TypeOK
<1>3. CASE BeginRemove("scan", "pps", pps)
  <2>1. Length(pps) \in Nat
    BY <1>2, <1>3, UnitLength DEF BeginRemove
  <2>2. /\ stage' = "pps" /\ UNCHANGED vars /\ pc = "done"
        /\ pps # None /\ i' = 0 /\ j' = 0 /\ DOMAIN arr' = 0..(Length(pps) - 1)
        /\ \A k \in 0..(Length(pps) - 1) : arr'[k] = Content(pps)[k]
    BY <1>3, <2>1, BeginReads
  <2> QED
    BY <2>1, <2>2, SameContent DEF RemovalInv, RemovalReadsUnit, Overwriting
<1>4. CASE BeginRemove("next", "sps", sps)
  <2>1. Length(sps) \in Nat
    BY <1>2, <1>4, UnitLength DEF BeginRemove
  <2>2. /\ stage' = "sps" /\ UNCHANGED vars /\ pc = "done"
        /\ sps # None /\ i' = 0 /\ j' = 0 /\ DOMAIN arr' = 0..(Length(sps) - 1)
        /\ \A k \in 0..(Length(sps) - 1) : arr'[k] = Content(sps)[k]
    BY <1>4, <2>1, BeginReads
  <2> QED
    BY <2>1, <2>2, SameContent DEF RemovalInv, RemovalReadsUnit, Overwriting
<1>5. CASE RemoveStep("pps", pps)
  <2>1. stage = "pps" /\ Overwriting("pps", pps)
    BY <1>5 DEF RemoveStep, RemovalInv, RemovalReadsUnit
  <2>2. /\ stage' = stage /\ UNCHANGED vars
        /\ pps # None /\ Length(pps) \in Nat /\ i' \in Nat /\ j' \in Nat /\ j' <= i'
        /\ DOMAIN arr' = 0..(Length(pps) - 1)
        /\ \A k \in i'..(Length(pps) - 1) : arr'[k] = Content(pps)[k]
    BY <1>5, <2>1, StepReads
  <2> QED
    BY <2>1, <2>2, SameContent DEF RemovalInv, RemovalReadsUnit, Overwriting
<1>6. CASE RemoveStep("sps", sps)
  <2>1. stage = "sps" /\ Overwriting("sps", sps)
    BY <1>6 DEF RemoveStep, RemovalInv, RemovalReadsUnit
  <2>2. /\ stage' = stage /\ UNCHANGED vars
        /\ sps # None /\ Length(sps) \in Nat /\ i' \in Nat /\ j' \in Nat /\ j' <= i'
        /\ DOMAIN arr' = 0..(Length(sps) - 1)
        /\ \A k \in i'..(Length(sps) - 1) : arr'[k] = Content(sps)[k]
    BY <1>6, <2>1, StepReads
  <2> QED
    BY <2>1, <2>2, SameContent DEF RemovalInv, RemovalReadsUnit, Overwriting
<1>7. CASE Missing("scan", pps) \/ Missing("next", sps)
  BY <1>7 DEF Missing, Unscanned, vars, RemovalInv, RemovalReadsUnit, Overwriting
<1>8. CASE EndRemove("pps", "next", "pps") \/ EndRemove("sps", "rate", "sps")
  BY <1>8 DEF EndRemove, Unscanned, vars, RemovalInv, RemovalReadsUnit, Overwriting
<1>9. CASE GetFramerate
  BY <1>9 DEF GetFramerate, Rated, vars, RemovalInv, RemovalReadsUnit, Overwriting
<1>10. CASE SetLine \/ FirstSlice
  BY <1>10 DEF SetLine, FirstSlice, vars, RemovalInv, RemovalReadsUnit, Overwriting
<1> QED
  BY <1>1, <1>3, <1>4, <1>5, <1>6, <1>7, <1>8, <1>9, <1>10
  DEF LinesNext, SetLines, RemovePps, RemoveSps

(* remove_Emulation_Bytes tests bytes of the unit, never what it has       *)
(* written itself, for every set of every file (H264_sdpline.c:70-90).     *)
THEOREM RemovalInPlace == LinesSpec => []RemovalReadsUnit
<1>1. LinesInit => RemovalInv
  BY DEF LinesInit, RemovalInv, RemovalReadsUnit, Overwriting
<1>2. Inv /\ RemovalInv /\ [LinesNext]_<<vars, linesVars>> => RemovalInv'
  <2>1. ASSUME Inv, RemovalInv, UNCHANGED <<vars, linesVars>> PROVE RemovalInv'
    BY <2>1, SameContent DEF linesVars, RemovalInv, RemovalReadsUnit, Overwriting
  <2> QED
    BY <2>1, RemovalStep
<1>3. RemovalInv => RemovalReadsUnit
  BY DEF RemovalInv
<1>4. LinesSpec => []Inv
  BY LinesKeepSearch, Invariance, PTL
<1> QED
  BY <1>1, <1>2, <1>3, <1>4, PTL DEF LinesSpec
----------------------------------------------------------------------------
(* What the removal leaves, and what the SDP says of it.                   *)

(* The bytes written so far are the first of the set.                      *)
Restoring(r) ==
  /\ j \in 0..Len(r) /\ \A k \in 0..(j - 1) : arr[k] = r[k + 1]
  /\ InStep(r, i, j)

Undoing(here, set) == stage = here => \A r \in Rbsp : Is(set, r) => Restoring(r)

Behind == {"rate", "text", "line", "streams"}

Undone(places, set, kind) ==
  stage \in places => \A r \in Rbsp : Is(set, r) => bytes[kind] = r

Said ==
  stage \in {"line", "streams"} =>
    /\ line.profile = ProfileLevelId(bytes.sps) /\ line.pps = base64_encode(bytes.pps)
    /\ \/ line.sps = base64_encode(bytes.sps)
       \/ \E k \in Len(bytes.pps)..Len(line.pps) :
            line.sps = SubSeq(line.pps, k + 1, Len(line.pps))

ContentInv ==
  /\ Undoing("pps", pps) /\ Undone({"next", "sps"} \cup Behind, pps, "pps")
  /\ Undoing("sps", sps) /\ Undone(Behind, sps, "sps")
  /\ bytes \in [{"sps", "pps"} -> {bytes.sps, bytes.pps}]
  /\ Len(bytes.sps) \in Nat /\ Len(bytes.pps) \in Nat
  /\ Said

LEMMA SameSets ==
  ASSUME UNCHANGED vars
  PROVE  \A r \in Rbsp : (Is(pps, r)' <=> Is(pps, r)) /\ (Is(sps, r)' <=> Is(sps, r))
BY DEF vars, Is, Content, Sequence

(* The unit, counted from 0, is what the encoder has written, counted      *)
(* from 1.                                                                 *)
LEMMA IsReads ==
  ASSUME NEW set, NEW r \in Seq(Byte), Is(set, r), Length(set) \in Nat
  PROVE  /\ Len(Escape(r)) = Length(set)
         /\ \A k \in 0..(Length(set) - 1) : Content(set)[k] = Escape(r)[k + 1]
<1>1. Escape(r) = [k \in 1..Length(set) |-> Content(set)[k - 1]]
  BY DEF Is, Sequence, Length
<1> HIDE DEF Content
<1> QED
  BY <1>1

LEMMA StepRestores ==
  ASSUME NEW here, NEW set, RemoveStep(here, set), Overwriting(here, set),
         NEW r \in Seq(Byte), Is(set, r), Restoring(r)
  PROVE  Restoring(r)'
<1>1. /\ stage = here /\ i < Size(arr) /\ Length(set) \in Nat /\ i \in Nat /\ j \in Nat
      /\ j <= i /\ DOMAIN arr = 0..(Length(set) - 1)
      /\ \A k \in i..(Length(set) - 1) : arr[k] = Content(set)[k]
  BY DEF RemoveStep, Overwriting
<1>2. PICK e : e = Escape(r)
  OBVIOUS
<1>3. /\ Size(arr) = Length(set) /\ Len(e) = Length(set) /\ Len(r) \in Nat
      /\ \A k \in 0..(Length(set) - 1) : Content(set)[k] = e[k + 1]
  BY <1>1, <1>2, SizeOfArray, IsReads
<1>4. /\ j \in 0..Len(r) /\ InStep(r, i, j) /\ \A k \in 0..(j - 1) : arr[k] = r[k + 1]
  BY DEF Restoring
<1>5. j < Len(r) /\ e[i + 1] = r[j + 1]
  BY <1>1, <1>2, <1>3, <1>4, InStepReads
<1>6. Emulation <=> i + 2 < Len(e) /\ e[i + 1] = 0 /\ e[i + 2] = 0 /\ e[i + 3] = 3
  <2>1. i + 2 < Length(set) => arr[i] = e[i + 1] /\ arr[i + 1] = e[i + 2] /\ arr[i + 2] = e[i + 3]
    <3>1. SUFFICES ASSUME i + 2 < Length(set)
                   PROVE  arr[i] = e[i + 1] /\ arr[i + 1] = e[i + 2] /\ arr[i + 2] = e[i + 3]
      OBVIOUS
    <3>2. ASSUME NEW k \in {i, i + 1, i + 2} PROVE arr[k] = e[k + 1]
      <4>1. k \in i..(Length(set) - 1) /\ k \in 0..(Length(set) - 1)
        BY <1>1, <3>1
      <4> QED
        BY <1>1, <1>3, <4>1
    <3>3. (i + 1) + 1 = i + 2 /\ (i + 2) + 1 = i + 3
      BY <1>1
    <3> QED
      BY <3>2, <3>3
  <2> QED
    BY <1>3, <2>1 DEF Emulation
<1>7. IF Emulation THEN j + 1 < Len(r) /\ e[i + 2] = r[j + 2] /\ InStep(r, i + 3, j + 2)
      ELSE InStep(r, i + 1, j + 1)
  BY <1>1, <1>2, <1>3, <1>4, <1>6, InStepGoesOn
<1>8. Content(set)[i] = r[j + 1] /\ i \in 0..(Length(set) - 1)
  BY <1>1, <1>3, <1>5
<1> HIDE DEF Content, InStep
<1>9. CASE /\ Emulation
           /\ arr' = [arr EXCEPT ![j] = Content(set)[i], ![j + 1] = Content(set)[i + 1]]
           /\ i' = i + 3 /\ j' = j + 2
  <2>1. i + 1 \in 0..(Length(set) - 1) /\ (i + 1) + 1 = i + 2 /\ (j + 1) + 1 = j + 2
    BY <1>1, <1>3, <1>6, <1>9
  <2>2. Content(set)[i + 1] = r[j + 2]
    BY <1>3, <1>7, <1>9, <2>1
  <2>3. j \in DOMAIN arr /\ j + 1 \in DOMAIN arr
    BY <1>1, <1>3, <2>1
  <2>4. arr'[j] = r[j + 1] /\ arr'[j + 1] = r[j + 2] /\ \A k \in 0..(j - 1) : arr'[k] = arr[k]
    <3>1. PICK x, y : x = r[j + 1] /\ y = r[j + 2]
      OBVIOUS
    <3>2. arr' = [arr EXCEPT ![j] = x, ![j + 1] = y]
      BY <1>8, <1>9, <2>2, <3>1
    <3>3. j # j + 1 /\ \A k \in 0..(j - 1) : k \in DOMAIN arr /\ k # j /\ k # j + 1
      BY <1>1, <2>3
    <3>4. arr'[j] = x /\ arr'[j + 1] = y
      BY <2>3, <3>2, <3>3
    <3>5. \A k \in 0..(j - 1) : arr'[k] = arr[k]
      BY <3>2, <3>3
    <3> QED
      BY <3>1, <3>4, <3>5
  <2>5. \A k \in 0..(j' - 1) : arr'[k] = r[k + 1]
    <3>1. ASSUME NEW k \in 0..(j' - 1) PROVE k \in 0..(j - 1) \/ k = j \/ k = j + 1
      BY <1>1, <1>9, <3>1
    <3> QED
      BY <1>4, <2>1, <2>4, <3>1
  <2>6. j' \in 0..Len(r) /\ InStep(r, i', j')
    BY <1>1, <1>3, <1>7, <1>9
  <2> QED
    BY <2>5, <2>6 DEF Restoring, InStep, Marked, Place
<1>10. CASE /\ ~Emulation
            /\ arr' = [arr EXCEPT ![j] = Content(set)[i]]
            /\ i' = i + 1 /\ j' = j + 1
  <2>1. j \in DOMAIN arr
    BY <1>1, <1>3
  <2>2. arr'[j] = r[j + 1] /\ \A k \in 0..(j - 1) : arr'[k] = arr[k]
    BY <1>1, <1>8, <1>10, <2>1
  <2>3. \A k \in 0..(j' - 1) : arr'[k] = r[k + 1]
    <3>1. ASSUME NEW k \in 0..(j' - 1) PROVE k \in 0..(j - 1) \/ k = j
      BY <1>1, <1>10, <3>1
    <3> QED
      BY <1>4, <2>2, <3>1
  <2>4. j' \in 0..Len(r) /\ InStep(r, i', j')
    BY <1>1, <1>3, <1>5, <1>7, <1>10
  <2> QED
    BY <2>3, <2>4 DEF Restoring, InStep, Marked, Place
<1> QED
  BY <1>9, <1>10 DEF RemoveStep

LEMMA EndRestores ==
  ASSUME NEW here, NEW next, NEW kind \in {"sps", "pps"}, NEW set,
         EndRemove(here, next, kind), Overwriting(here, set),
         bytes \in [{"sps", "pps"} -> {bytes.sps, bytes.pps}],
         NEW r \in Seq(Byte), Is(set, r), Restoring(r)
  PROVE  bytes'[kind] = r
<1>1. /\ stage = here /\ i >= Size(arr) /\ Length(set) \in Nat /\ i \in Nat /\ j \in Nat
      /\ DOMAIN arr = 0..(Length(set) - 1)
      /\ bytes' = [bytes EXCEPT ![kind] = Sequence(arr, j)]
  BY DEF EndRemove, Overwriting
<1>2. i >= Len(Escape(r))
  BY <1>1, SizeOfArray, IsReads
<1>3. /\ j \in 0..Len(r) /\ InStep(r, i, j) /\ \A k \in 0..(j - 1) : arr[k] = r[k + 1]
  BY DEF Restoring
<1>4. j = Len(r)
  BY <1>1, <1>2, <1>3, InStepEnds
<1>5. Sequence(arr, j) = r
  <2>1. r = [k \in 1..Len(r) |-> r[k]]
    OBVIOUS
  <2>2. ASSUME NEW k \in 1..Len(r) PROVE arr[k - 1] = r[k]
    <3>1. k - 1 \in 0..(j - 1) /\ (k - 1) + 1 = k
      BY <1>1, <1>4
    <3> QED
      BY <1>3, <3>1
  <2> QED
    BY <1>4, <2>1, <2>2 DEF Sequence
<1> QED
  BY <1>1, <1>5

LEMMA SameTexts ==
  ASSUME bytes' = bytes
  PROVE  /\ ProfileLevelId(bytes.sps)' = ProfileLevelId(bytes.sps)
         /\ base64_encode(bytes.sps)' = base64_encode(bytes.sps)
         /\ base64_encode(bytes.pps)' = base64_encode(bytes.pps)
         /\ (Len(bytes.pps))' = Len(bytes.pps) /\ (Len(bytes.sps))' = Len(bytes.sps)
BY DEF ProfileLevelId, base64_encode, Encoded, LowBits, At

LEMMA SaidStays ==
  ASSUME bytes' = bytes, line' = line, Said,
         stage' \in {"line", "streams"} => stage \in {"line", "streams"}
  PROVE  Said'
<1>1. stage' \in {"line", "streams"} =>
      /\ line'.profile = ProfileLevelId(bytes.sps)' /\ line'.pps = base64_encode(bytes.pps)'
      /\ \/ line'.sps = base64_encode(bytes.sps)'
         \/ \E k \in (Len(bytes.pps))'..Len(line'.pps) :
              line'.sps = SubSeq(line'.pps, k + 1, Len(line'.pps))
  BY SameTexts DEF Said
<1> QED
  BY <1>1 DEF Said

LEMMA SetLineSays ==
  ASSUME SetLine, Len(bytes.pps) \in Nat, Len(bytes.sps) \in Nat PROVE Said'
<1>1. CASE stage' = "wild"
  BY <1>1 DEF Said
<1>2. CASE stage' # "wild"
  <2>1. PICK own, other : own = base64_encode(bytes.sps) /\ other = base64_encode(bytes.pps)
    OBVIOUS
  <2>2. Len(other) \in Nat
    <3>1. PICK n \in Nat : n = Len(bytes.pps)
      OBVIOUS
    <3>2. 4 * ((n + 2) \div 3) \in Nat
      <4>1. PICK q : q = (n + 2) \div 3
        OBVIOUS
      <4>2. q \in Int /\ 3 * q <= n + 2 /\ n + 2 < 3 * (q + 1)
        BY <4>1
      <4> QED
        BY <4>1, <4>2
    <3>3. other = [m \in 1..(4 * ((n + 2) \div 3)) |-> Encoded(bytes.pps, m)]
      BY <2>1, <3>1 DEF base64_encode
    <3> QED
      BY <3>2, <3>3
  <2>3. PICK gap \in Len(bytes.pps)..(Len(other) + 1) :
          line' = [profile |-> ProfileLevelId(bytes.sps),
                   sps |-> ReadBehind(own, other, gap), pps |-> other]
    BY <1>2, <2>1 DEF SetLine
  <2>4. /\ bytes' = bytes /\ line'.profile = ProfileLevelId(bytes.sps)
        /\ line'.pps = other /\ line'.sps = ReadBehind(own, other, gap)
    BY <2>3 DEF SetLine
  <2>5. line'.sps = own \/ \E k \in Len(bytes.pps)..Len(other) :
                            line'.sps = SubSeq(other, k + 1, Len(other))
    <3>1. CASE gap > Len(other)
      BY <2>4, <3>1 DEF ReadBehind
    <3>2. CASE ~(gap > Len(other))
      <4>1. gap \in Len(bytes.pps)..Len(other)
        BY <2>2, <3>2
      <4>2. line'.sps = SubSeq(other, gap + 1, Len(other))
        BY <2>4, <3>2 DEF ReadBehind
      <4> QED
        BY <4>1, <4>2
    <3> QED
      BY <3>1, <3>2
  <2>6. /\ line'.profile = ProfileLevelId(bytes.sps)' /\ line'.pps = base64_encode(bytes.pps)'
        /\ \/ line'.sps = base64_encode(bytes.sps)'
           \/ \E k \in (Len(bytes.pps))'..Len(line'.pps) :
                line'.sps = SubSeq(line'.pps, k + 1, Len(line'.pps))
    BY <2>1, <2>4, <2>5, SameTexts
  <2> QED
    BY <2>6 DEF Said
<1> QED
  BY <1>1, <1>2

LEMMA ContentStep ==
  ASSUME Inv, RemovalInv, ContentInv, LinesNext PROVE ContentInv'
<1> DEFINE Fits == bytes \in [{"sps", "pps"} -> {bytes.sps, bytes.pps}]
<1>0. Rbsp \subseteq Seq(Byte)
  BY LinesAssumption DEF LinesAssumption
<1>1. CASE Next /\ UNCHANGED linesVars
  <2>1. pc # "done"
    BY <1>1 DEF Next, Find, FindAligned, StartWords, FindInWord, StartTail, FindInTail,
              NotFound, Look, Loop, FirstFound, EndLoop, EnterLoop, SkipZero, SkipOne, TakeUnit
  <2>2. stage' = "scan" /\ bytes' = bytes
    BY <1>1, <2>1 DEF RemovalInv, linesVars
  <2> QED
    BY <2>2 DEF ContentInv, Undoing, Undone, Behind, Said
<1>2. CASE SetLines
  <2>1. UNCHANGED vars
    BY <1>2 DEF SetLines, RemovePps, RemoveSps, BeginRemove, Missing, RemoveStep, EndRemove,
                Unscanned, GetFramerate, SetLine, FirstSlice
  <2>2. \A r \in Rbsp : (Is(pps, r)' <=> Is(pps, r)) /\ (Is(sps, r)' <=> Is(sps, r))
    BY <2>1, SameSets
  <2> HIDE DEF Is, InStep
  <2>3. CASE BeginRemove("scan", "pps", pps) \/ BeginRemove("next", "sps", sps)
    <3>1. i' = 0 /\ j' = 0 /\ bytes' = bytes /\ line' = line
          /\ (stage' = "pps" \/ (stage = "next" /\ stage' = "sps"))
      BY <2>3 DEF BeginRemove, Unscanned
    <3>2. \A r \in Rbsp : Restoring(r)'
      <4>1. ASSUME NEW r \in Rbsp PROVE InStep(r, i', j') /\ j' \in 0..Len(r)
        BY <1>0, <3>1, InStepBegins
      <4> QED
        BY <3>1, <4>1 DEF Restoring, InStep, Marked, Place
    <3> QED
      BY <2>2, <3>1, <3>2 DEF ContentInv, Undoing, Undone, Behind, Said
  <2>4. CASE RemoveStep("pps", pps)
    <3>1. stage = "pps" /\ stage' = stage /\ bytes' = bytes /\ line' = line
          /\ Overwriting("pps", pps)
      BY <2>4 DEF RemoveStep, Unscanned, RemovalInv, RemovalReadsUnit
    <3>2. ASSUME NEW r \in Rbsp, Is(pps, r) PROVE Restoring(r)'
      BY <1>0, <2>4, <3>1, <3>2, StepRestores DEF ContentInv, Undoing
    <3> QED
      BY <2>2, <3>1, <3>2 DEF ContentInv, Undoing, Undone, Behind, Said
  <2>5. CASE RemoveStep("sps", sps)
    <3>1. stage = "sps" /\ stage' = stage /\ bytes' = bytes /\ line' = line
          /\ Overwriting("sps", sps)
      BY <2>5 DEF RemoveStep, Unscanned, RemovalInv, RemovalReadsUnit
    <3>2. ASSUME NEW r \in Rbsp, Is(sps, r) PROVE Restoring(r)'
      BY <1>0, <2>5, <3>1, <3>2, StepRestores DEF ContentInv, Undoing
    <3> QED
      BY <2>2, <3>1, <3>2 DEF ContentInv, Undoing, Undone, Behind, Said
  <2>6. CASE EndRemove("pps", "next", "pps")
    <3>1. stage = "pps" /\ stage' = "next" /\ line' = line
          /\ bytes' = [bytes EXCEPT !["pps"] = Sequence(arr, j)] /\ Overwriting("pps", pps)
      BY <2>6 DEF EndRemove, Unscanned, RemovalInv, RemovalReadsUnit
    <3>2. ASSUME NEW r \in Rbsp, Is(pps, r) PROVE bytes'["pps"] = r
      BY <1>0, <2>6, <3>1, <3>2, EndRestores DEF ContentInv, Undoing
    <3>3. Fits'
      BY <3>1 DEF ContentInv
    <3> QED
      BY <2>2, <3>1, <3>2, <3>3 DEF ContentInv, Undoing, Undone, Behind, Said
  <2>7. CASE EndRemove("sps", "rate", "sps")
    <3>1. stage = "sps" /\ stage' = "rate" /\ line' = line
          /\ bytes' = [bytes EXCEPT !["sps"] = Sequence(arr, j)] /\ Overwriting("sps", sps)
      BY <2>7 DEF EndRemove, Unscanned, RemovalInv, RemovalReadsUnit
    <3>2. ASSUME NEW r \in Rbsp, Is(sps, r) PROVE bytes'["sps"] = r
      BY <1>0, <2>7, <3>1, <3>2, EndRestores DEF ContentInv, Undoing
    <3>3. Fits' /\ bytes'["pps"] = bytes["pps"]
      BY <3>1 DEF ContentInv
    <3> QED
      BY <2>2, <3>1, <3>2, <3>3 DEF ContentInv, Undoing, Undone, Behind, Said
  <2>8. CASE Missing("scan", pps) \/ Missing("next", sps)
    <3>1. stage' = "wild" /\ bytes' = bytes
      BY <2>8 DEF Missing
    <3> QED
      BY <3>1 DEF ContentInv, Undoing, Undone, Behind, Said
  <2>9. CASE GetFramerate
    <3>1. stage = "rate" /\ stage' \in {"text", "fault"} /\ bytes' = bytes
      BY <2>9 DEF GetFramerate, Rated
    <3> QED
      BY <2>2, <3>1 DEF ContentInv, Undoing, Undone, Behind, Said
  <2>10. CASE SetLine
    <3>1. stage = "text" /\ stage' \in {"line", "wild"} /\ bytes' = bytes
      BY <2>10 DEF SetLine
    <3>2. Said'
      BY <2>10, SetLineSays DEF ContentInv
    <3>3. (Len(bytes.pps))' = Len(bytes.pps) /\ (Len(bytes.sps))' = Len(bytes.sps)
      BY <3>1, SameTexts
    <3> HIDE DEF Said
    <3> QED
      BY <2>2, <3>1, <3>2, <3>3 DEF ContentInv, Undoing, Undone, Behind
  <2>11. CASE FirstSlice
    <3>1. stage = "line" /\ stage' \in {"fault", "streams"} /\ bytes' = bytes /\ line' = line
      BY <2>11 DEF FirstSlice
    <3>2. Said' /\ (Len(bytes.pps))' = Len(bytes.pps) /\ (Len(bytes.sps))' = Len(bytes.sps)
      BY <3>1, SaidStays, SameTexts DEF ContentInv
    <3> HIDE DEF Said
    <3> QED
      BY <2>2, <3>1, <3>2 DEF ContentInv, Undoing, Undone, Behind
  <2> QED
    BY <1>2, <2>3, <2>4, <2>5, <2>6, <2>7, <2>8, <2>9, <2>10, <2>11
    DEF SetLines, RemovePps, RemoveSps
<1> QED
  BY <1>1, <1>2 DEF LinesNext

LEMMA ContentInvariant == LinesSpec => [](Inv /\ RemovalInv /\ ContentInv)
<1>1. LinesInit => RemovalInv /\ ContentInv
  BY DEF LinesInit, RemovalInv, RemovalReadsUnit, Overwriting, ContentInv, Undoing, Undone,
         Behind, Said, Blank
<1>2. Inv /\ RemovalInv /\ ContentInv /\ [LinesNext]_<<vars, linesVars>>
        => RemovalInv' /\ ContentInv'
  <2>1. ASSUME Inv, RemovalInv, ContentInv, UNCHANGED <<vars, linesVars>>
        PROVE  RemovalInv' /\ ContentInv'
    <3>1. RemovalInv'
      BY <2>1, SameContent DEF linesVars, RemovalInv, RemovalReadsUnit, Overwriting
    <3>2. \A r \in Rbsp : (Is(pps, r)' <=> Is(pps, r)) /\ (Is(sps, r)' <=> Is(sps, r))
      BY <2>1, SameSets
    <3> HIDE DEF Is
    <3>3. Said' /\ (Len(bytes.pps))' = Len(bytes.pps) /\ (Len(bytes.sps))' = Len(bytes.sps)
      BY <2>1, SaidStays, SameTexts DEF linesVars, ContentInv
    <3>4. \A r \in Rbsp : Restoring(r)' <=> Restoring(r)
      BY <2>1 DEF linesVars, Restoring, InStep, Marked, Place
    <3> HIDE DEF Said, Restoring
    <3>5. ContentInv'
      BY <2>1, <3>2, <3>3, <3>4 DEF linesVars, ContentInv, Undoing, Undone, Behind
    <3> QED
      BY <3>1, <3>5
  <2> QED
    BY <2>1, RemovalStep, ContentStep
<1>3. LinesSpec => []Inv
  BY LinesKeepSearch, Invariance, PTL
<1> QED
  BY <1>1, <1>2, <1>3, PTL DEF LinesSpec

(* No text fits the array it is written to, for byte strings of every      *)
(* length (H264_sdpline.c:113-116, Base64.c:6-43).                         *)
THEOREM TextsOverrun == \A s \in Seq(Byte) : Overruns(s)
<1>1. ASSUME NEW s \in Seq(Byte) PROVE Overruns(s)
  <2>1. PICK n \in Nat : n = Len(s)
    OBVIOUS
  <2>2. Len(base64_encode(s)) = 4 * ((n + 2) \div 3)
    BY <2>1 DEF base64_encode
  <2> QED
    BY <2>1, <2>2 DEF Overruns
<1> QED
  BY <1>1

(* The sets that are encoded are the encoder's, for every set that is in   *)
(* the file as an encoder writes it.  Of a function that outlives the      *)
(* overrun of its texts the player gets the picture set and the profile as *)
(* they were, and of the sequence set all or the end of the other's text   *)
(* (H264_sdpline.c:70-138, Base64.c:6-88).                                 *)
THEOREM LineIsAsCoded == LinesSpec => []LineDecodes
<1>1. ASSUME ContentInv PROVE LineDecodes
  <2>1. SUFFICES ASSUME NEW r \in Rbsp
                 PROVE  /\ Is(sps, r) =>
                             /\ stage = "text" => bytes.sps = r
                             /\ stage \in {"line", "streams"} =>
                                  /\ line.profile = ProfileLevelId(r)
                                  /\ \/ base64_decode(line.sps) = r
                                     \/ \E k \in Len(bytes.pps)..Len(line.pps) :
                                          line.sps = SubSeq(line.pps, k + 1, Len(line.pps))
                        /\ Is(pps, r) =>
                             /\ stage = "text" => bytes.pps = r
                             /\ stage \in {"line", "streams"} => base64_decode(line.pps) = r
    BY DEF LineDecodes
  <2>2. r \in Seq(Byte) /\ base64_decode(base64_encode(r)) = r
    BY LinesAssumption, Base64RoundTrip DEF LinesAssumption
  <2> HIDE DEF Is
  <2>3. stage \in {"text", "line", "streams"} =>
          (Is(sps, r) => bytes.sps = r) /\ (Is(pps, r) => bytes.pps = r)
    BY <1>1 DEF ContentInv, Undone, Behind
  <2>4. stage \in {"line", "streams"} =>
          /\ line.profile = ProfileLevelId(bytes.sps) /\ line.pps = base64_encode(bytes.pps)
          /\ \/ line.sps = base64_encode(bytes.sps)
             \/ \E k \in Len(bytes.pps)..Len(line.pps) :
                  line.sps = SubSeq(line.pps, k + 1, Len(line.pps))
    BY <1>1 DEF ContentInv, Said
  <2> QED
    BY <2>2, <2>3, <2>4
<1> QED
  BY <1>1, ContentInvariant, PTL

LEMMA HalfRate ==
  ASSUME NEW scale \in Nat, NEW units \in Nat \ {0}, NEW rated, rated = HalfOf(scale, units)
  PROVE  rated \in Nat /\ rated * 2 * units <= scale /\ scale < (rated + 1) * 2 * units
<1>1. PICK q \in Nat : q = scale \div units
  OBVIOUS
<1>2. q * units <= scale /\ scale < (q + 1) * units
  BY <1>1
<1>3. rated = q \div 2 /\ rated \in Nat /\ 2 * rated <= q /\ q + 1 <= 2 * (rated + 1)
  BY <1>1 DEF HalfOf
<1>4. (2 * rated) * units <= q * units /\ (q + 1) * units <= (2 * (rated + 1)) * units
  BY <1>3
<1>5. rated * 2 * units = (2 * rated) * units
      /\ (rated + 1) * 2 * units = (2 * (rated + 1)) * units
  BY <1>3
<1> QED
  BY <1>2, <1>3, <1>4, <1>5

(* Of a set with its timing the rate is a number.                          *)
RateRead ==
  stage \in {"text", "line", "streams"} =>
    \A r \in Rbsp : Is(sps, r) /\ Timed(r) => rate \in Nat

LEMMA RateStep ==
  ASSUME Inv, RemovalInv, ContentInv, RateAsCoded, RateRead, LinesNext
  PROVE  RateAsCoded' /\ RateRead'
<1>1. SUFFICES ASSUME NEW r \in Rbsp, Is(sps, r)', Timed(r)
               PROVE  /\ stage' = "fault" => Scale(r) < 2 * Units(r)
                      /\ stage' = "streams" => Scale(r) >= 2 * Units(r)
                      /\ stage' \in {"text", "line", "streams"} =>
                           rate' \in Nat /\ rate' * 2 * Units(r) <= Scale(r)
                           /\ Scale(r) < (rate' + 1) * 2 * Units(r)
  BY DEF RateAsCoded, RateRead, Timed, Long, Flag, Units, Scale, Number, Reading
<1>2. r \in Seq(Byte) /\ FlagAt \in Nat /\ Width \in Nat
  BY LinesAssumption DEF LinesAssumption
<1>3. PICK units \in Nat : units = Units(r)
  BY <1>1, <1>2, NumberNat DEF Timed, Long, Units
<1>4. PICK scale \in Nat : scale = Scale(r)
  BY <1>1, <1>2, NumberNat DEF Timed, Long, Scale
<1>5. Long(r) /\ Flag(r) /\ units > 0
  BY <1>1, <1>3, <1>4 DEF Timed
<1>6. CASE Next /\ UNCHANGED linesVars
  <2>1. pc # "done"
    BY <1>6 DEF Next, Find, FindAligned, StartWords, FindInWord, StartTail, FindInTail,
              NotFound, Look, Loop, FirstFound, EndLoop, EnterLoop, SkipZero, SkipOne, TakeUnit
  <2>2. stage' = "scan"
    BY <1>6, <2>1 DEF RemovalInv, linesVars
  <2> QED
    BY <2>2
<1>7. CASE SetLines
  <2>1. UNCHANGED vars
    BY <1>7 DEF SetLines, RemovePps, RemoveSps, BeginRemove, Missing, RemoveStep, EndRemove,
                Unscanned, GetFramerate, SetLine, FirstSlice
  <2>2. Is(sps, r)
    BY <1>1, <2>1, SameSets
  <2> HIDE DEF Is
  <2>3. stage \in {"text", "line", "streams"} =>
          rate \in Nat /\ rate * 2 * units <= scale /\ scale < (rate + 1) * 2 * units
    BY <1>1, <1>3, <1>4, <2>2 DEF RateAsCoded, RateRead
  <2>4. CASE RemovePps \/ RemoveSps
    <3>1. stage' \in {"pps", "sps", "next", "rate", "wild"}
      BY <2>4 DEF RemovePps, RemoveSps, BeginRemove, Missing, RemoveStep, EndRemove
    <3> QED
      BY <3>1
  <2>5. CASE GetFramerate
    <3>1. bytes.sps = r
      BY <1>1, <2>2, <2>5 DEF GetFramerate, ContentInv, Undone, Behind
    <3>2. Rated(scale, units)
      BY <1>3, <1>4, <1>5, <2>5, <3>1 DEF GetFramerate
    <3>3. stage' = "text" /\ rate' = HalfOf(scale, units)
      BY <1>5, <3>2 DEF Rated
    <3>4. rate' \in Nat /\ rate' * 2 * units <= scale /\ scale < (rate' + 1) * 2 * units
      BY <1>5, <3>3, HalfRate
    <3> QED
      BY <1>3, <1>4, <3>3, <3>4
  <2>6. CASE SetLine
    <3>1. stage = "text" /\ stage' \in {"line", "wild"} /\ rate' = rate
      BY <2>6 DEF SetLine
    <3> QED
      BY <1>3, <1>4, <2>3, <3>1
  <2>7. CASE FirstSlice
    <3>1. stage = "line" /\ rate' = rate /\ stage' = IF rate = 0 THEN "fault" ELSE "streams"
      BY <2>7 DEF FirstSlice
    <3>2. rate \in Nat /\ rate * 2 * units <= scale /\ scale < (rate + 1) * 2 * units
      BY <2>3, <3>1
    <3>3. IF rate = 0 THEN scale < 2 * units ELSE scale >= 2 * units
      <4>1. CASE rate = 0
        BY <3>2, <4>1
      <4>2. CASE rate # 0
        <5>1. PICK q \in Nat : q + 1 = rate
          <6>1. rate - 1 \in Nat /\ (rate - 1) + 1 = rate
            BY <3>2, <4>2
          <6> QED
            BY <6>1
        <5>2. rate * 2 * units = q * (2 * units) + 2 * units /\ q * (2 * units) >= 0
          BY <5>1
        <5> QED
          BY <3>2, <4>2, <5>2
      <4> QED
        BY <4>1, <4>2
    <3> QED
      BY <1>3, <1>4, <3>1, <3>2, <3>3
  <2> QED
    BY <1>7, <2>4, <2>5, <2>6, <2>7 DEF SetLines
<1> QED
  BY <1>6, <1>7 DEF LinesNext

(* The stream of a file whose sequence set carries its timing has the      *)
(* frame rate of that set, rounded down, and is ended by a division by     *)
(* zero only if that is less than one frame a second                       *)
(* (H264_sdpline.c:13-33, H264_transport.c:15-18).                         *)
THEOREM RateIsAsCoded == LinesSpec => []RateAsCoded
<1>1. LinesInit => RateAsCoded /\ RateRead
  BY DEF LinesInit, RateAsCoded, RateRead
<1>2. Inv /\ RemovalInv /\ ContentInv /\ RateAsCoded /\ RateRead
        /\ [LinesNext]_<<vars, linesVars>> => RateAsCoded' /\ RateRead'
  <2>1. ASSUME RateAsCoded, RateRead, UNCHANGED <<vars, linesVars>>
        PROVE  RateAsCoded' /\ RateRead'
    <3>1. \A r \in Rbsp : Is(sps, r)' <=> Is(sps, r)
      BY <2>1, SameSets
    <3> HIDE DEF Is
    <3> QED
      BY <2>1, <3>1 DEF linesVars, RateAsCoded, RateRead, Timed, Long, Flag, Units, Scale,
                        Number, Reading
  <2> QED
    BY <2>1, RateStep
<1> QED
  BY <1>1, <1>2, ContentInvariant, PTL DEF LinesSpec

----------------------------------------------------------------------------
(* DESCRIBE ends.  The search does, as SearchEnds says; behind it each     *)
(* stage has fewer steps left than the one before.                         *)

Inside(here, set) == stage = here => Length(set) \in 0..end /\ i \in 0..Length(set)

IndexInside == Inside("pps", pps) /\ Inside("sps", sps)

StagesLeft ==
  CASE stage = "scan" -> 2 * end + 7
    [] stage = "pps" -> (Length(pps) - i) + end + 6
    [] stage = "next" -> end + 5
    [] stage = "sps" -> (Length(sps) - i) + 4
    [] stage = "rate" -> 3
    [] stage = "text" -> 2
    [] stage = "line" -> 1
    [] stage \notin {"scan", "pps", "next", "sps", "rate", "text", "line"} -> 0

LinesLeft == StepsLeft + StagesLeft

LEMMA StagesLeftNat ==
  ASSUME Inv, IndexInside PROVE StagesLeft \in 0..(2 * end + 7)
<1>1. end \in Nat
  BY DEF Inv, TypeOK
<1>2. CASE stage = "pps"
  <2>1. Length(pps) \in 0..end /\ i \in 0..Length(pps)
    BY <1>2 DEF IndexInside, Inside
  <2> QED
    BY <1>1, <1>2, <2>1 DEF StagesLeft
<1>3. CASE stage = "sps"
  <2>1. Length(sps) \in 0..end /\ i \in 0..Length(sps)
    BY <1>3 DEF IndexInside, Inside
  <2> QED
    BY <1>1, <1>3, <2>1 DEF StagesLeft
<1>4. CASE stage \notin {"pps", "sps"}
  BY <1>1, <1>4 DEF StagesLeft
<1> QED
  BY <1>2, <1>3, <1>4

LEMMA LengthInFile ==
  ASSUME Inv, NEW set \in {None} \cup Unit, NEW kind, Kept(set, kind), set # None
  PROVE  Length(set) \in 0..end
<1>1. Length(set) \in Nat /\ set \in Unit /\ end \in Nat
  BY UnitLength DEF Inv, TypeOK
<1> QED
  BY <1>1 DEF Unit, Length

LEMMA StepGoesOn ==
  ASSUME NEW here, NEW set, RemoveStep(here, set), Overwriting(here, set), Inside(here, set)
  PROVE  i' \in 0..Length(set) /\ i < i' /\ stage = here /\ stage' = here
<1>1. /\ stage = here /\ stage' = here /\ i < Size(arr) /\ Length(set) \in Nat
      /\ DOMAIN arr = 0..(Length(set) - 1) /\ i \in 0..Length(set)
      /\ (Emulation /\ i' = i + 3) \/ i' = i + 1
  BY DEF RemoveStep, Overwriting, Inside
<1>2. Size(arr) = Length(set)
  BY <1>1, SizeOfArray
<1>3. Emulation => i + 2 < Size(arr)
  BY DEF Emulation
<1> QED
  BY <1>1, <1>2, <1>3

LEMMA StagesStep ==
  ASSUME Inv, RemovalInv, IndexInside, SetLines
  PROVE  IndexInside' /\ StagesLeft' < StagesLeft
<1>1. UNCHANGED vars
  BY DEF SetLines, RemovePps, RemoveSps, BeginRemove, Missing, RemoveStep, EndRemove,
         Unscanned, GetFramerate, SetLine, FirstSlice
<1>2. /\ end' = end /\ end \in Nat /\ pps' = pps /\ sps' = sps
      /\ Length(pps)' = Length(pps) /\ Length(sps)' = Length(sps)
      /\ pps \in {None} \cup Unit /\ sps \in {None} \cup Unit
      /\ Kept(pps, Pps) /\ Kept(sps, Sps)
  BY <1>1 DEF vars, Length, Inv, TypeOK, SetsKept
<1>3. CASE BeginRemove("scan", "pps", pps)
  <2>1. stage = "scan" /\ stage' = "pps" /\ i' = 0 /\ pps # None
    BY <1>3 DEF BeginRemove
  <2>2. Length(pps) \in 0..end
    BY <1>2, <2>1, LengthInFile
  <2> QED
    BY <1>2, <2>1, <2>2 DEF IndexInside, Inside, StagesLeft
<1>4. CASE BeginRemove("next", "sps", sps)
  <2>1. stage = "next" /\ stage' = "sps" /\ i' = 0 /\ sps # None
    BY <1>4 DEF BeginRemove
  <2>2. Length(sps) \in 0..end
    BY <1>2, <2>1, LengthInFile
  <2> QED
    BY <1>2, <2>1, <2>2 DEF IndexInside, Inside, StagesLeft
<1>5. CASE RemoveStep("pps", pps)
  <2>1. i' \in 0..Length(pps) /\ i < i' /\ stage = "pps" /\ stage' = "pps"
    BY <1>5, StepGoesOn DEF IndexInside, RemovalInv, RemovalReadsUnit
  <2>2. Length(pps) \in 0..end /\ i \in 0..Length(pps)
    BY <2>1 DEF IndexInside, Inside
  <2> QED
    BY <1>2, <2>1, <2>2 DEF IndexInside, Inside, StagesLeft
<1>6. CASE RemoveStep("sps", sps)
  <2>1. i' \in 0..Length(sps) /\ i < i' /\ stage = "sps" /\ stage' = "sps"
    BY <1>6, StepGoesOn DEF IndexInside, RemovalInv, RemovalReadsUnit
  <2>2. Length(sps) \in 0..end /\ i \in 0..Length(sps)
    BY <2>1 DEF IndexInside, Inside
  <2> QED
    BY <1>2, <2>1, <2>2 DEF IndexInside, Inside, StagesLeft
<1>7. CASE Missing("scan", pps) \/ Missing("next", sps)
  <2>1. stage \in {"scan", "next"} /\ stage' = "wild"
    BY <1>7 DEF Missing
  <2> QED
    BY <1>2, <2>1 DEF IndexInside, Inside, StagesLeft
<1>8. CASE EndRemove("pps", "next", "pps")
  <2>1. stage = "pps" /\ stage' = "next"
    BY <1>8 DEF EndRemove
  <2>2. Length(pps) \in 0..end /\ i \in 0..Length(pps)
    BY <2>1 DEF IndexInside, Inside
  <2> QED
    BY <1>2, <2>1, <2>2 DEF IndexInside, Inside, StagesLeft
<1>9. CASE EndRemove("sps", "rate", "sps")
  <2>1. stage = "sps" /\ stage' = "rate"
    BY <1>9 DEF EndRemove
  <2>2. Length(sps) \in 0..end /\ i \in 0..Length(sps)
    BY <2>1 DEF IndexInside, Inside
  <2> QED
    BY <1>2, <2>1, <2>2 DEF IndexInside, Inside, StagesLeft
<1>10. CASE GetFramerate
  <2>1. stage = "rate" /\ stage' \in {"text", "fault"}
    BY <1>10 DEF GetFramerate, Rated
  <2> QED
    BY <2>1 DEF IndexInside, Inside, StagesLeft
<1>11. CASE SetLine
  BY <1>11 DEF SetLine, IndexInside, Inside, StagesLeft
<1>12. CASE FirstSlice
  <2>1. stage = "line" /\ stage' \in {"fault", "streams"}
    BY <1>12 DEF FirstSlice
  <2> QED
    BY <2>1 DEF IndexInside, Inside, StagesLeft
<1> QED
  BY <1>3, <1>4, <1>5, <1>6, <1>7, <1>8, <1>9, <1>10, <1>11, <1>12
  DEF SetLines, RemovePps, RemoveSps

LEMMA LinesGoOn ==
  ASSUME Inv, Turning, RemovalInv, IndexInside, LinesNext
  PROVE  IndexInside' /\ LinesLeft' < LinesLeft
<1>1. StepsLeft \in Nat /\ StagesLeft \in Nat /\ end \in Nat
  BY StepsLeftNat, StagesLeftNat DEF Inv, TypeOK
<1>2. CASE Next /\ UNCHANGED linesVars
  <2>1. pc # "done" /\ end' = end
    BY <1>2 DEF Next, Find, FindAligned, StartWords, FindInWord, StartTail, FindInTail, NotFound,
                Look, Loop, FirstFound, EndLoop, EnterLoop, SkipZero, SkipOne, TakeUnit, input
  <2>2. stage = "scan" /\ stage' = "scan"
    BY <1>2, <2>1 DEF RemovalInv, linesVars
  <2>3. IndexInside'
    BY <2>2 DEF IndexInside, Inside
  <2>8. StagesLeft' = StagesLeft
    BY <2>1, <2>2 DEF StagesLeft
  <2>4. StepsLeft' < StepsLeft
    BY <1>2, FindTurns, LoopTurns DEF Next
  <2>5. TypeOK'
    BY <1>2, Inductive DEF Inv
  <2>6. StepsLeft' \in Int
    BY <2>5 DEF TypeOK, StepsLeft, Ahead
  <2>7. LinesLeft' < LinesLeft
    <3>1. LinesLeft = StepsLeft + StagesLeft /\ LinesLeft' = StepsLeft' + StagesLeft'
      BY DEF LinesLeft
    <3>2. PICK a \in Int, b \in Int, c \in Int :
            a = StepsLeft' /\ b = StepsLeft /\ c = StagesLeft
      BY <1>1, <2>6
    <3>3. a < b /\ StagesLeft' = c
      BY <2>4, <2>8, <3>2
    <3>4. LinesLeft = b + c /\ LinesLeft' = a + c
      BY <3>1, <3>2, <3>3
    <3>5. a + c < b + c
      BY <3>3
    <3> QED
      BY <3>4, <3>5
  <2> QED
    BY <2>3, <2>7
<1>3. CASE SetLines
  <2>1. StagesLeft' < StagesLeft /\ IndexInside'
    BY <1>3, StagesStep
  <2>2. UNCHANGED vars
    BY <1>3 DEF SetLines, RemovePps, RemoveSps, BeginRemove, Missing, RemoveStep, EndRemove,
                Unscanned, GetFramerate, SetLine, FirstSlice
  <2>3. StepsLeft' = StepsLeft /\ Inv'
    BY <2>2, Inductive DEF vars, StepsLeft, Ahead
  <2>4. StagesLeft' \in Int
    <3>1. end' \in Nat
      BY <2>3 DEF Inv, TypeOK
    <3>2. stage' = "pps" => Length(pps)' \in Int /\ i' \in Int
      BY <2>1, <3>1 DEF IndexInside, Inside
    <3>3. stage' = "sps" => Length(sps)' \in Int /\ i' \in Int
      BY <2>1, <3>1 DEF IndexInside, Inside
    <3> QED
      BY <3>1, <3>2, <3>3 DEF StagesLeft
  <2>5. StagesLeft' < StagesLeft /\ StepsLeft' = StepsLeft
    BY <2>1, <2>3
  <2>6. LinesLeft' < LinesLeft
    <3>1. LinesLeft = StepsLeft + StagesLeft /\ LinesLeft' = StepsLeft' + StagesLeft'
      BY DEF LinesLeft
    <3>2. PICK a \in Int, b \in Int, c \in Int :
            a = StagesLeft' /\ b = StagesLeft /\ c = StepsLeft
      BY <1>1, <2>4
    <3>3. a < b /\ StepsLeft' = c
      BY <2>5, <3>2
    <3>4. LinesLeft = c + b /\ LinesLeft' = c + a
      BY <3>1, <3>2, <3>3
    <3>5. c + a < c + b
      BY <3>3
    <3> QED
      BY <3>4, <3>5
  <2> QED
    BY <2>1, <2>6
<1> QED
  BY <1>2, <1>3 DEF LinesNext

(* DESCRIBE and the first slice of PLAY end, for every file: every step of *)
(* the search, of the removal and of what is behind it brings them nearer, *)
(* and a file of end bytes takes them 5 * end + 15 at the most             *)
(* (H264_sdpline.c:35-138).                                                *)
LinesGoesOn == [][LinesLeft' < LinesLeft]_<<vars, linesVars>>

(* set_H264_Lines ends: what DescribeEnds rests on besides fairness        *)
(* (H264_sdpline.c:92-139).                                                *)
THEOREM LinesEnd == LinesSpec => [](LinesLeft \in 0..(5 * end + 15)) /\ LinesGoesOn
<1>1. LinesInit => RemovalInv /\ IndexInside
  BY DEF LinesInit, RemovalInv, RemovalReadsUnit, Overwriting, IndexInside, Inside
<1>2. Inv /\ Turning /\ RemovalInv /\ IndexInside /\ [LinesNext]_<<vars, linesVars>>
        => RemovalInv' /\ IndexInside' /\ [LinesLeft' < LinesLeft]_<<vars, linesVars>>
  <2>1. ASSUME RemovalInv, IndexInside, UNCHANGED <<vars, linesVars>>
        PROVE  RemovalInv' /\ IndexInside'
    BY <2>1, SameContent DEF vars, linesVars, RemovalInv, RemovalReadsUnit, Overwriting,
       IndexInside, Inside
  <2> QED
    BY <2>1, RemovalStep, LinesGoOn
<1>3. ASSUME Inv, Turning, IndexInside PROVE LinesLeft \in 0..(5 * end + 15)
  <2>1. end \in Nat
    BY <1>3 DEF Inv, TypeOK
  <2> QED
    BY <1>3, <2>1, StepsLeftNat, StagesLeftNat DEF LinesLeft
<1>4. LinesSpec => [](Inv /\ Turning)
  BY LinesKeepSearch, TurningInvariant, PTL
<1> QED
  BY <1>1, <1>2, <1>3, <1>4, PTL DEF LinesSpec, LinesGoesOn
=============================================================================
