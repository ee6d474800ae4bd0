----------------------- MODULE StateSerializerProofs -----------------------
(***************************************************************************)
(* Proofs about StateSerializer, for names, memories and registers of any  *)
(* number, hashes of any width and any odd multiplier.                     *)
(***************************************************************************)
EXTENDS StateSerializer, SequenceTheorems, WellFoundedInduction, TLAPS

-----------------------------------------------------------------------------
(* Recursion over numbers. *)

(* A set of numbers that is not empty has a least element. *)
LEMMA Least ==
  ASSUME NEW T, T \subseteq Nat, T # {}
  PROVE  \E n \in T : \A k \in T : n <= k
<1>1. PICK n \in T : \A k \in T : ~(<<k, n>> \in OpToRel(<, Nat))
  BY NatLessThanWellFounded, WFMin
<1>2. \A k \in T : ~(k < n)
  BY <1>1 DEF OpToRel
<1> QED
  BY <1>2

(* A property of 0 that goes from each number to the next holds up to n. *)
LEMMA UpTo ==
  ASSUME NEW n \in Nat, NEW Good, 0 \in Good,
         \A k \in 1 .. n : k - 1 \in Good => k \in Good
  PROVE  0 .. n \subseteq Good
<1> DEFINE Bad == (0 .. n) \ Good
<1>1. Bad \subseteq Nat
  OBVIOUS
<1>2. ASSUME Bad # {}
      PROVE  FALSE
  <2> HIDE DEF Bad
  <2>1. PICK k \in Bad : \A j \in Bad : k <= j
    BY <1>1, <1>2, Least
  <2>2. k \in 1 .. n /\ k - 1 \in 0 .. n /\ k - 1 \notin Bad
    BY <2>1 DEF Bad
  <2> QED
    BY <2>1, <2>2 DEF Bad
<1> QED
  BY <1>2

(* The values reached from base by n steps. *)
Reaches(f, D, base, step, n) ==
  /\ f \in [0 .. n -> D]
  /\ f[0] = base
  /\ \A k \in 1 .. n : f[k] = step[k][f[k - 1]]

LEMMA Recursion ==
  ASSUME NEW N \in Nat, NEW D, NEW base \in D, NEW step \in [1 .. N -> [D -> D]]
  PROVE  \E f : Reaches(f, D, base, step, N)
<1> DEFINE Good == {n \in Nat : \E f : Reaches(f, D, base, step, n)}
<1>1. 0 \in Good
  <2> DEFINE f == [k \in 0 .. 0 |-> base]
  <2>1. Reaches(f, D, base, step, 0)
    BY DEF Reaches
  <2> QED
    BY <2>1
<1>2. ASSUME NEW l \in 1 .. N, l - 1 \in Good
      PROVE  l \in Good
  <2>1. PICK f : Reaches(f, D, base, step, l - 1)
    BY <1>2
  <2>2. f[l - 1] \in D /\ step[l] \in [D -> D]
    BY <2>1 DEF Reaches
  <2> DEFINE g == [k \in 0 .. l |-> IF k = l THEN step[l][f[l - 1]] ELSE f[k]]
  <2>3. g \in [0 .. l -> D] /\ g[0] = base
    BY <2>1, <2>2 DEF Reaches
  <2>4. \A k \in 1 .. l : g[k] = step[k][g[k - 1]]
    BY <2>1 DEF Reaches
  <2>5. Reaches(g, D, base, step, l)
    BY <2>3, <2>4 DEF Reaches
  <2> QED
    BY <2>5
<1> HIDE DEF Good
<1>3. 0 .. N \subseteq Good
  BY <1>1, <1>2, UpTo
<1>4. N \in Good
  BY <1>3
<1> QED
  BY <1>4 DEF Good

-----------------------------------------------------------------------------
(* The hash: powers of two, xor, and multiplication by an odd number. *)

LEMMA Powers ==
  /\ PowerOfTwo[0] = 1
  /\ \A k \in 1 .. HashBits : PowerOfTwo[k] = 2 * PowerOfTwo[k - 1]
  /\ \A k \in 0 .. HashBits : PowerOfTwo[k] \in Nat \ {0}
<1>1. HashBits \in Nat
  BY SerializerAssumption
<1> DEFINE step == [k \in 1 .. HashBits |-> [x \in Nat |-> 2 * x]]
           IsPower(f) == f = [k \in 0 .. HashBits |-> IF k = 0 THEN 1 ELSE 2 * f[k - 1]]
<1>2. \E f : IsPower(f)
  <2>1. step \in [1 .. HashBits -> [Nat -> Nat]]
    OBVIOUS
  <2>2. PICK f : Reaches(f, Nat, 1, step, HashBits)
    <3> HIDE DEF step
    <3> QED
      BY <1>1, <2>1, Recursion
  <2>3. \A k \in 0 .. HashBits : f[k] = IF k = 0 THEN 1 ELSE 2 * f[k - 1]
    <3> SUFFICES ASSUME NEW k \in 1 .. HashBits PROVE f[k] = 2 * f[k - 1]
      BY <1>1, <2>2 DEF Reaches
    <3>1. f[k] = step[k][f[k - 1]] /\ f[k - 1] \in Nat
      <4> HIDE DEF step
      <4> QED
        BY <1>1, <2>2 DEF Reaches
    <3> QED
      BY <3>1
  <2>4. f = [k \in 0 .. HashBits |-> f[k]]
    BY <2>2 DEF Reaches
  <2>5. IsPower(f)
    BY <2>3, <2>4, Zenon
  <2> QED
    BY <2>5
<1>3. IsPower(PowerOfTwo)
  BY <1>2, Zenon DEF PowerOfTwo
<1>4. /\ PowerOfTwo[0] = 1
      /\ \A k \in 1 .. HashBits : PowerOfTwo[k] = 2 * PowerOfTwo[k - 1]
  BY <1>1, <1>3
<1> DEFINE Good == {k \in 0 .. HashBits : PowerOfTwo[k] \in Nat \ {0}}
<1>5. 0 \in Good /\ \A k \in 1 .. HashBits : k - 1 \in Good => k \in Good
  BY <1>1, <1>4
<1>6. 0 .. HashBits \subseteq Good
  <2> HIDE DEF Good
  <2> QED
    BY <1>1, <1>5, UpTo
<1> QED
  BY <1>4, <1>6

LEMMA HashType ==
  /\ HashBits \in Nat
  /\ HashSpace \in Nat \ {0} /\ HashSpace = PowerOfTwo[HashBits]
  /\ Byte \subseteq Hash /\ Basis \in Hash /\ Hash \subseteq Nat
  /\ \A a \in Hash : a \div 2 \in Hash
<1>1. HashSpace \in Nat \ {0}
  BY Powers, SerializerAssumption DEF HashSpace
<1>2. \A a \in Hash : a \div 2 \in Hash
  BY <1>1 DEF Hash
<1> QED
  BY <1>1, <1>2, SerializerAssumption DEF HashSpace, Hash

LEMMA XorEquations ==
  /\ \A a, b \in Hash : Xor[0][a][b] = 0
  /\ \A k \in 1 .. HashBits : \A a, b \in Hash :
       Xor[k][a][b] = ((a + b) % 2) + 2 * Xor[k - 1][a \div 2][b \div 2]
<1> DEFINE D == [Hash -> [Hash -> Nat]]
           zero == [a \in Hash |-> [b \in Hash |-> 0]]
           More(g) == [a \in Hash |-> [b \in Hash |->
                         ((a + b) % 2) + 2 * g[a \div 2][b \div 2]]]
           step == [k \in 1 .. HashBits |-> [g \in D |-> More(g)]]
           IsXor(f) == f = [k \in 0 .. HashBits |-> IF k = 0 THEN zero ELSE More(f[k - 1])]
<1>1. zero \in D
  OBVIOUS
<1>2. ASSUME NEW g \in D PROVE More(g) \in D
  <2>1. ASSUME NEW a \in Hash, NEW b \in Hash
        PROVE  ((a + b) % 2) + 2 * g[a \div 2][b \div 2] \in Nat
    <3>1. a \in Nat /\ b \in Nat /\ a \div 2 \in Hash /\ b \div 2 \in Hash
      BY HashType
    <3>2. g[a \div 2][b \div 2] \in Nat
      BY <3>1
    <3> QED
      BY <3>1, <3>2
  <2> QED
    BY <2>1
<1>3. \E f : IsXor(f)
  <2> HIDE DEF D, zero, More
  <2>1. step \in [1 .. HashBits -> [D -> D]]
    BY <1>2
  <2>2. PICK f : Reaches(f, D, zero, step, HashBits)
    <3> HIDE DEF step
    <3> QED
      BY <1>1, <2>1, HashType, Recursion
  <2>3. \A k \in 0 .. HashBits : f[k] = IF k = 0 THEN zero ELSE More(f[k - 1])
    <3> SUFFICES ASSUME NEW k \in 1 .. HashBits PROVE f[k] = More(f[k - 1])
      BY <2>2, HashType DEF Reaches
    <3>1. f[k] = step[k][f[k - 1]] /\ f[k - 1] \in D
      BY <2>2, HashType, SMTT(30) DEF Reaches
    <3> QED
      BY <3>1
  <2>4. f = [k \in 0 .. HashBits |-> f[k]]
    BY <2>2 DEF Reaches
  <2>5. IsXor(f)
    BY <2>3, <2>4, Zenon
  <2> QED
    BY <2>5
<1>4. IsXor(Xor)
  BY <1>3, Zenon DEF Xor
<1>5. Xor[0] = zero /\ \A k \in 1 .. HashBits : Xor[k] = More(Xor[k - 1])
  <2> HIDE DEF zero, More
  <2> QED
    BY <1>4, HashType
<1>6. \A a, b \in Hash : zero[a][b] = 0
  OBVIOUS
<1>7. ASSUME NEW g, NEW a \in Hash, NEW b \in Hash
      PROVE  More(g)[a][b] = ((a + b) % 2) + 2 * g[a \div 2][b \div 2]
  OBVIOUS
<1> HIDE DEF zero, More
<1> QED
  BY <1>5, <1>6, <1>7

(***************************************************************************)
(* Xor of the low bits stays within them, and neither operand can change   *)
(* without the result.                                                     *)
(***************************************************************************)
XorInjects(n) ==
  \A a, b, c \in Hash :
    /\ Xor[n][a][b] \in 0 .. PowerOfTwo[n] - 1
    /\ a < PowerOfTwo[n] /\ c < PowerOfTwo[n] =>
         /\ Xor[n][a][b] = Xor[n][c][b] => a = c
         /\ Xor[n][b][a] = Xor[n][b][c] => a = c

LEMMA XorIsInjective == \A n \in 0 .. HashBits : XorInjects(n)
<1> DEFINE Good == {n \in 0 .. HashBits : XorInjects(n)}
<1>1. 0 \in Good
  <2>1. ASSUME NEW a \in Hash, NEW b \in Hash, NEW c \in Hash
        PROVE  /\ Xor[0][a][b] = 0 /\ PowerOfTwo[0] = 1
               /\ a < 1 /\ c < 1 => a = c
    <3>1. Xor[0][a][b] = 0
      BY XorEquations
    <3>2. PowerOfTwo[0] = 1
      BY Powers
    <3>3. a \in Nat /\ c \in Nat
      BY HashType
    <3> QED
      BY <3>1, <3>2, <3>3
  <2>2. XorInjects(0)
    BY <2>1 DEF XorInjects
  <2> QED
    BY <2>2, HashType
<1>2. ASSUME NEW k \in 1 .. HashBits, k - 1 \in Good
      PROVE  k \in Good
  <2> SUFFICES ASSUME NEW a \in Hash, NEW b \in Hash, NEW c \in Hash
               PROVE  /\ Xor[k][a][b] \in 0 .. PowerOfTwo[k] - 1
                      /\ a < PowerOfTwo[k] /\ c < PowerOfTwo[k] =>
                           /\ Xor[k][a][b] = Xor[k][c][b] => a = c
                           /\ Xor[k][b][a] = Xor[k][b][c] => a = c
    <3>1. k \in 0 .. HashBits
      BY HashType
    <3> QED
      BY <3>1, Zenon DEF XorInjects
  <2>1. XorInjects(k - 1)
    BY <1>2
  <2> DEFINE x(i, j) == Xor[k - 1][i \div 2][j \div 2]
             w == PowerOfTwo[k - 1]
  <2>2. w \in Nat /\ PowerOfTwo[k] = 2 * w
    BY Powers, HashType
  <2>3. /\ a \in Nat /\ b \in Nat /\ c \in Nat
        /\ a \div 2 \in Hash /\ b \div 2 \in Hash /\ c \div 2 \in Hash
    BY HashType
  <2>4. /\ Xor[k][a][b] = ((a + b) % 2) + 2 * x(a, b)
        /\ Xor[k][c][b] = ((c + b) % 2) + 2 * x(c, b)
        /\ Xor[k][b][a] = ((b + a) % 2) + 2 * x(b, a)
        /\ Xor[k][b][c] = ((b + c) % 2) + 2 * x(b, c)
    BY XorEquations
  <2>5. /\ x(a, b) \in 0 .. w - 1 /\ x(c, b) \in 0 .. w - 1
        /\ x(b, a) \in 0 .. w - 1 /\ x(b, c) \in 0 .. w - 1
    BY <2>1, <2>3 DEF XorInjects
  <2>6. (a \div 2) < w /\ (c \div 2) < w =>
          /\ x(a, b) = x(c, b) => a \div 2 = c \div 2
          /\ x(b, a) = x(b, c) => a \div 2 = c \div 2
    BY <2>1, <2>3 DEF XorInjects
  <2> HIDE DEF x, w
  <2>7. Xor[k][a][b] \in 0 .. PowerOfTwo[k] - 1
    BY <2>2, <2>3, <2>4, <2>5
  <2>8. a < PowerOfTwo[k] /\ c < PowerOfTwo[k] => (a \div 2) < w /\ (c \div 2) < w
    BY <2>2, <2>3
  <2>9. /\ Xor[k][a][b] = Xor[k][c][b] =>
             x(a, b) = x(c, b) /\ (a + b) % 2 = (c + b) % 2
        /\ Xor[k][b][a] = Xor[k][b][c] =>
             x(b, a) = x(b, c) /\ (b + a) % 2 = (b + c) % 2
    <3> DEFINE p == (a + b) % 2
               q == (c + b) % 2
               r == (b + a) % 2
               t == (b + c) % 2
    <3>1. p \in 0 .. 1 /\ q \in 0 .. 1 /\ r \in 0 .. 1 /\ t \in 0 .. 1
      BY <2>3
    <3>2. x(a, b) \in Int /\ x(c, b) \in Int /\ x(b, a) \in Int /\ x(b, c) \in Int
      BY <2>2, <2>5
    <3>3. /\ Xor[k][a][b] = p + 2 * x(a, b) /\ Xor[k][c][b] = q + 2 * x(c, b)
          /\ Xor[k][b][a] = r + 2 * x(b, a) /\ Xor[k][b][c] = t + 2 * x(b, c)
      BY <2>4
    <3>4. \A i, j \in 0 .. 1 : \A y, z \in Int : i + 2 * y = j + 2 * z => i = j /\ y = z
      OBVIOUS
    <3> HIDE DEF p, q, r, t
    <3>5. /\ Xor[k][a][b] = Xor[k][c][b] => p + 2 * x(a, b) = q + 2 * x(c, b)
          /\ Xor[k][b][a] = Xor[k][b][c] => r + 2 * x(b, a) = t + 2 * x(b, c)
      BY <3>3
    <3>6. /\ p + 2 * x(a, b) = q + 2 * x(c, b) => p = q /\ x(a, b) = x(c, b)
          /\ r + 2 * x(b, a) = t + 2 * x(b, c) => r = t /\ x(b, a) = x(b, c)
      BY <3>1, <3>2, <3>4
    <3> QED
      BY <3>5, <3>6 DEF p, q, r, t
  <2>10. a \div 2 = c \div 2 /\ ((a + b) % 2 = (c + b) % 2 \/ (b + a) % 2 = (b + c) % 2) => a = c
    BY <2>3
  <2> QED
    BY <2>6, <2>7, <2>8, <2>9, <2>10
<1> HIDE DEF Good
<1>3. 0 .. HashBits \subseteq Good
  BY <1>1, <1>2, HashType, UpTo
<1> QED
  BY <1>3 DEF Good

(* A multiple of a power of two that is odd times d comes from d. *)
OddKeeps(n) ==
  \A d, q \in Int : d * Prime = PowerOfTwo[n] * q => \E r \in Int : d = PowerOfTwo[n] * r

LEMMA MultipleOfPower == \A n \in 0 .. HashBits : OddKeeps(n)
<1> DEFINE Good == {n \in 0 .. HashBits : OddKeeps(n)}
<1>1. PICK e \in Nat : Prime = 2 * e + 1
  <2>1. Prime \in Nat /\ Prime = 2 * (Prime \div 2) + 1 /\ Prime \div 2 \in Nat
    BY SerializerAssumption
  <2> QED
    BY <2>1
<1>2. 0 \in Good
  <2>1. ASSUME NEW d \in Int PROVE d = 1 * d
    OBVIOUS
  <2>2. OddKeeps(0)
    BY <2>1, Powers DEF OddKeeps
  <2> QED
    BY <2>2, HashType
<1>3. ASSUME NEW k \in 1 .. HashBits, k - 1 \in Good
      PROVE  k \in Good
  <2>1. OddKeeps(k - 1) /\ k \in 0 .. HashBits
    BY <1>3, HashType
  <2> DEFINE w == PowerOfTwo[k - 1]
  <2>2. w \in Nat /\ PowerOfTwo[k] = 2 * w
    BY Powers, HashType
  <2> HIDE DEF w
  <2>3. ASSUME NEW d \in Int, NEW q \in Int, d * Prime = PowerOfTwo[k] * q
        PROVE  \E r \in Int : d = PowerOfTwo[k] * r
    <3>1. d * (2 * e + 1) = 2 * (d * e) + d /\ d * e \in Int
      OBVIOUS
    <3>2. (2 * w) * q = 2 * (w * q) /\ w * q \in Int
      BY <2>2
    <3> DEFINE c == w * q - d * e
    <3>3. d = 2 * c /\ c \in Int
      BY <1>1, <2>2, <2>3, <3>1, <3>2
    <3> HIDE DEF c
    <3>4. (2 * c) * Prime = 2 * (c * Prime) /\ c * Prime \in Int
      BY <3>3, SerializerAssumption
    <3>5. c * Prime = w * q
      BY <2>2, <2>3, <3>2, <3>3, <3>4
    <3>6. PICK r \in Int : c = w * r
      BY <2>1, <3>3, <3>5 DEF OddKeeps, w
    <3>7. 2 * (w * r) = (2 * w) * r
      BY <2>2
    <3> QED
      BY <2>2, <3>3, <3>6, <3>7
  <2>4. OddKeeps(k)
    BY <2>3 DEF OddKeeps
  <2> QED
    BY <2>1, <2>4
<1> HIDE DEF Good
<1>4. 0 .. HashBits \subseteq Good
  BY <1>2, <1>3, HashType, UpTo
<1> QED
  BY <1>4 DEF Good

LEMMA ProductIsInjective ==
  ASSUME NEW x \in Hash, NEW y \in Hash, (x * Prime) % HashSpace = (y * Prime) % HashSpace
  PROVE  x = y
<1> DEFINE M == HashSpace
           p == x * Prime
           q == y * Prime
<1>1. /\ M \in Nat \ {0} /\ x \in 0 .. M - 1 /\ y \in 0 .. M - 1
      /\ Prime \in Nat /\ HashSpace = PowerOfTwo[HashBits]
  BY HashType, SerializerAssumption DEF Hash
<1>2. p \in Int /\ q \in Int /\ (x - y) * Prime = p - q
  BY <1>1
<1> HIDE DEF M, p, q
<1>3. \A n \in Int : n = M * (n \div M) + (n % M) /\ n \div M \in Int
  BY <1>1
<1>4. p % M = q % M
  BY DEF M, p, q
<1>5. PICK i \in Int, j \in Int : p = M * i + (p % M) /\ q = M * j + (q % M)
  BY <1>2, <1>3
<1>6. p % M \in Int
  BY <1>1, <1>2
<1>7. M * i - M * j = M * (i - j) /\ M * i \in Int /\ M * j \in Int
  BY <1>1
<1>8. (x - y) * Prime = M * (i - j)
  BY <1>2, <1>4, <1>5, <1>6, <1>7
<1>9. x - y \in Int /\ i - j \in Int /\ OddKeeps(HashBits)
  BY <1>1, HashType, MultipleOfPower
<1>10. PICK r \in Int : x - y = M * r
  BY <1>1, <1>8, <1>9 DEF OddKeeps, M
<1>11. r = 0
  <2>1. r >= 1 => M * r >= M
    BY <1>1
  <2>2. r <= -1 => M * r <= -M
    BY <1>1
  <2> QED
    BY <1>1, <1>10, <2>1, <2>2
<1> QED
  BY <1>1, <1>10, <1>11

(* A byte mixed into the hash is one-to-one in the hash and in the byte. *)
LEMMA MixedIsInjective ==
  ASSUME NEW g \in Hash, NEW h \in Hash, NEW b \in Byte, NEW c \in Byte
  PROVE  /\ Mixed(g, b) \in Hash
         /\ Mixed(g, b) = Mixed(h, b) => g = h
         /\ Mixed(g, b) = Mixed(g, c) => b = c
<1>1. b \in Hash /\ c \in Hash
  BY HashType
<1>2. \A i \in Hash : i < PowerOfTwo[HashBits]
  BY HashType DEF Hash
<1>3. XorInjects(HashBits)
  BY XorIsInjective, HashType
<1> DEFINE x(i, j) == Xor[HashBits][i][j]
<1>4. \A i, j \in Hash : x(i, j) \in Hash
  BY <1>3, HashType DEF XorInjects, Hash
<1>5. /\ x(g, b) = x(h, b) => g = h
      /\ x(g, b) = x(g, c) => b = c
  BY <1>1, <1>2, <1>3 DEF XorInjects
<1> HIDE DEF x
<1>6. Mixed(g, b) \in Hash
  <2>1. x(g, b) * Prime \in Int
    <3>1. x(g, b) \in Hash
      BY <1>1, <1>4
    <3>2. Prime \in Nat /\ Hash \subseteq Nat
      BY HashType, SerializerAssumption
    <3>3. x(g, b) \in Nat
      BY <3>1, <3>2
    <3> QED
      BY <3>2, <3>3
  <2>2. (x(g, b) * Prime) % HashSpace \in 0 .. HashSpace - 1
    BY <2>1, HashType
  <2> QED
    BY <2>2 DEF Mixed, Hash, x
<1>7. Mixed(g, b) = Mixed(h, b) => x(g, b) = x(h, b)
  BY <1>1, <1>4, ProductIsInjective DEF Mixed, x
<1>8. Mixed(g, b) = Mixed(g, c) => x(g, b) = x(g, c)
  BY <1>1, <1>4, ProductIsInjective DEF Mixed, x
<1> QED
  BY <1>5, <1>6, <1>7, <1>8

-----------------------------------------------------------------------------
(* The checksum, byte by byte. *)

(* The hash after each of the first n bytes. *)
Hashes(f, bytes, n) ==
  f = [k \in 0 .. n |-> IF k = 0 THEN Basis ELSE Mixed(f[k - 1], bytes[k])]

LEMMA ChecksumIsLast ==
  ASSUME NEW bytes \in Seq(Byte)
  PROVE  \E f : /\ f[0] = Basis
                /\ \A k \in 1 .. Len(bytes) : f[k] = Mixed(f[k - 1], bytes[k])
                /\ \A k \in 0 .. Len(bytes) : f[k] \in Hash
                /\ ComputeChecksum(bytes) = f[Len(bytes)]
<1> DEFINE n == Len(bytes)
           step == [k \in 1 .. n |-> [h \in Hash |-> Mixed(h, bytes[k])]]
<1>1. n \in Nat /\ \A k \in 1 .. n : bytes[k] \in Byte
  OBVIOUS
<1>2. step \in [1 .. n -> [Hash -> Hash]]
  BY <1>1, MixedIsInjective
<1> HIDE DEF n
<1>3. \E f : Hashes(f, bytes, n)
  <2>1. PICK f : Reaches(f, Hash, Basis, step, n)
    <3> HIDE DEF step
    <3> QED
      BY <1>1, <1>2, HashType, Recursion
  <2>2. \A k \in 0 .. n : f[k] = IF k = 0 THEN Basis ELSE Mixed(f[k - 1], bytes[k])
    <3> SUFFICES ASSUME NEW k \in 1 .. n PROVE f[k] = Mixed(f[k - 1], bytes[k])
      BY <1>1, <2>1 DEF Reaches
    <3>1. f[k] = step[k][f[k - 1]] /\ f[k - 1] \in Hash
      <4> HIDE DEF step
      <4> QED
        BY <1>1, <2>1 DEF Reaches
    <3> QED
      BY <3>1
  <2>3. f = [k \in 0 .. n |-> f[k]]
    BY <2>1 DEF Reaches
  <2>4. Hashes(f, bytes, n)
    BY <2>2, <2>3, Zenon DEF Hashes
  <2> QED
    BY <2>4
<1> DEFINE f == CHOOSE f : Hashes(f, bytes, n)
<1>4. Hashes(f, bytes, n)
  BY <1>3, Zenon
<1>5. ComputeChecksum(bytes) = f[n]
  BY Zenon DEF ComputeChecksum, Hashes, n
<1> HIDE DEF f
<1>6. f[0] = Basis /\ \A k \in 1 .. n : f[k] = Mixed(f[k - 1], bytes[k])
  BY <1>1, <1>4 DEF Hashes
<1> DEFINE Good == {k \in 0 .. n : f[k] \in Hash}
<1>7. 0 \in Good
  BY <1>1, <1>6, HashType
<1>8. ASSUME NEW k \in 1 .. n, k - 1 \in Good
      PROVE  k \in Good
  BY <1>1, <1>6, <1>8, MixedIsInjective
<1>9. 0 .. n \subseteq Good
  <2> HIDE DEF Good
  <2> QED
    BY <1>1, <1>7, <1>8, UpTo
<1> QED
  BY <1>5, <1>6, <1>9 DEF n

(* One byte that differs is never made up for by those after it. *)
LEMMA ChecksumSeesOneByte ==
  ASSUME NEW p \in Seq(Byte), NEW q \in Seq(Byte), Len(p) = Len(q),
         NEW i \in 1 .. Len(p), p[i] # q[i],
         \A k \in (1 .. Len(p)) \ {i} : p[k] = q[k]
  PROVE  ComputeChecksum(p) # ComputeChecksum(q)
<1> DEFINE n == Len(p)
<1>1. /\ n \in Nat /\ i \in 1 .. n
      /\ \A k \in 1 .. n : p[k] \in Byte /\ q[k] \in Byte
  OBVIOUS
<1>2. PICK f : /\ f[0] = Basis
               /\ \A k \in 1 .. n : f[k] = Mixed(f[k - 1], p[k])
               /\ \A k \in 0 .. n : f[k] \in Hash
               /\ ComputeChecksum(p) = f[n]
  BY ChecksumIsLast
<1>3. PICK g : /\ g[0] = Basis
               /\ \A k \in 1 .. n : g[k] = Mixed(g[k - 1], q[k])
               /\ \A k \in 0 .. n : g[k] \in Hash
               /\ ComputeChecksum(q) = g[n]
  BY ChecksumIsLast
<1> HIDE DEF n
<1> DEFINE Good == {k \in 0 .. n : f[k] = g[k] <=> k < i}
<1>4. 0 \in Good
  BY <1>1, <1>2, <1>3
<1>5. ASSUME NEW k \in 1 .. n, k - 1 \in Good
      PROVE  k \in Good
  <2>1. /\ f[k] = Mixed(f[k - 1], p[k]) /\ g[k] = Mixed(g[k - 1], q[k])
        /\ f[k - 1] \in Hash /\ g[k - 1] \in Hash /\ p[k] \in Byte /\ q[k] \in Byte
        /\ k \in 0 .. n /\ (f[k - 1] = g[k - 1] <=> k - 1 < i)
    BY <1>1, <1>2, <1>3, <1>5
  <2>2. k # i => p[k] = q[k]
    BY DEF n
  <2>3. CASE k < i
    BY <1>1, <2>1, <2>2, <2>3
  <2>4. CASE k = i
    BY <1>1, <2>1, <2>4, MixedIsInjective
  <2>5. CASE k > i
    BY <1>1, <2>1, <2>2, <2>5, MixedIsInjective, SMTT(30)
  <2> QED
    BY <1>1, <2>3, <2>4, <2>5
<1>6. 0 .. n \subseteq Good
  <2> HIDE DEF Good
  <2> QED
    BY <1>1, <1>4, <1>5, UpTo
<1> QED
  BY <1>1, <1>2, <1>3, <1>6

-----------------------------------------------------------------------------
(* Where Serialize writes what. *)

LEMMA BytesUpToType ==
  ASSUME NEW max \in Byte, NEW t \in BytesUpTo(max)
  PROVE  t \in Seq(Byte) /\ Len(t) \in Byte
<1>1. PICK n \in 0 .. max : t \in [1 .. n -> Byte]
  BY DEF BytesUpTo
<1>2. n \in Nat /\ max \in 0 .. ByteValues - 1 /\ ByteValues \in Nat
  BY SerializerAssumption DEF Byte
<1>3. t \in Seq(Byte) /\ Len(t) = n
  BY <1>1, <1>2
<1> QED
  BY <1>2, <1>3 DEF Byte

LEMMA SnapshotType ==
  ASSUME NEW s \in VmSnapshot
  PROVE  /\ s = [vmName |-> s.vmName, pc |-> s.pc, hi |-> s.hi, lo |-> s.lo,
                 regs |-> s.regs, memoryBytes |-> s.memoryBytes]
         /\ s.vmName \in Seq(Byte) /\ Len(s.vmName) \in Byte
         /\ s.pc \in Byte /\ s.hi \in Byte /\ s.lo \in Byte
         /\ s.regs \in Seq(Byte) /\ Len(s.regs) = RegisterCount
         /\ s.memoryBytes \in Seq(Byte) /\ Len(s.memoryBytes) \in Byte
<1>1. /\ s.vmName \in BytesUpTo(MaxName) /\ s.memoryBytes \in BytesUpTo(MaxMemory)
      /\ s.pc \in Byte /\ s.hi \in Byte /\ s.lo \in Byte
      /\ s.regs \in [1 .. RegisterCount -> Byte]
      /\ s = [vmName |-> s.vmName, pc |-> s.pc, hi |-> s.hi, lo |-> s.lo,
              regs |-> s.regs, memoryBytes |-> s.memoryBytes]
  BY DEF VmSnapshot
<1>2. s.regs \in Seq(Byte) /\ Len(s.regs) = RegisterCount
  BY <1>1, SerializerAssumption
<1> QED
  BY <1>1, <1>2, BytesUpToType, SerializerAssumption

(* The bytes of t from the place after offset on are those of u. *)
LEMMA Extracted ==
  ASSUME NEW t \in Seq(Byte), NEW u \in Seq(Byte), NEW offset \in Nat,
         offset + Len(u) <= Len(t),
         \A k \in 1 .. Len(u) : t[offset + k] = u[k]
  PROVE  Extract(t, offset, Len(u)) = u
<1> DEFINE n == Len(u)
           e == SubSeq(t, offset + 1, offset + n)
<1>1. n \in Nat /\ Len(t) \in Nat /\ u = [k \in 1 .. n |-> u[k]]
  OBVIOUS
<1> HIDE DEF n
<1>2. \A k \in offset + 1 .. offset + n : t[k] \in Byte
  BY <1>1 DEF n
<1>3. /\ e \in Seq(Byte)
      /\ Len(e) = IF offset + 1 <= offset + n THEN offset + n - (offset + 1) + 1 ELSE 0
      /\ \A k \in 1 .. offset + n - (offset + 1) + 1 : e[k] = t[offset + 1 + k - 1]
  BY <1>1, <1>2, SubSeqProperties, SMTT(30)
<1> HIDE DEF e
<1>4. Len(e) = n /\ e = [k \in 1 .. Len(e) |-> e[k]]
  BY <1>1, <1>3
<1>5. \A k \in 1 .. n : e[k] = u[k]
  <2> SUFFICES ASSUME NEW k \in 1 .. n PROVE e[k] = u[k]
    OBVIOUS
  <2>1. e[k] = t[offset + 1 + k - 1] /\ offset + 1 + k - 1 = offset + k
    BY <1>1, <1>3
  <2> QED
    BY <2>1 DEF n
<1>6. e = u
  BY <1>1, <1>4, <1>5
<1> QED
  BY <1>6 DEF Extract, e, n

(* A sequence after another. *)
LEMMA Joined ==
  ASSUME NEW t \in Seq(Byte), NEW u \in Seq(Byte)
  PROVE  /\ t \o u \in Seq(Byte) /\ Len(t \o u) = Len(t) + Len(u)
         /\ \A k \in 1 .. Len(t) : (t \o u)[k] = t[k]
         /\ \A k \in 1 .. Len(u) : (t \o u)[Len(t) + k] = u[k]
<1>1. /\ t \o u \in Seq(Byte) /\ Len(t \o u) = Len(t) + Len(u)
      /\ \A k \in 1 .. Len(t) + Len(u) : (t \o u)[k] = IF k <= Len(t) THEN t[k] ELSE u[k - Len(t)]
  BY ConcatProperties
<1>2. Len(t) \in Nat /\ Len(u) \in Nat
  OBVIOUS
<1>3. ASSUME NEW k \in 1 .. Len(u) PROVE (t \o u)[Len(t) + k] = u[k]
  <2>1. Len(t) + k \in 1 .. Len(t) + Len(u) /\ ~(Len(t) + k <= Len(t)) /\ (Len(t) + k) - Len(t) = k
    BY <1>2
  <2> QED
    BY <1>1, <2>1
<1>4. ASSUME NEW k \in 1 .. Len(t) PROVE (t \o u)[k] = t[k]
  <2>1. k \in 1 .. Len(t) + Len(u) /\ k <= Len(t)
    BY <1>2
  <2> QED
    BY <1>1, <2>1
<1> QED
  BY <1>1, <1>3, <1>4

LaidOut(s, n, m, p) ==
  /\ n \in Nat /\ m \in Nat /\ RegisterCount \in Nat
  /\ p \in Seq(Byte) /\ Len(p) = n + RegisterCount + m + 5
  /\ p[1] = n
  /\ \A k \in 1 .. n : p[1 + k] = s.vmName[k]
  /\ p[n + 2] = s.pc /\ p[n + 3] = s.hi /\ p[n + 4] = s.lo
  /\ \A k \in 1 .. RegisterCount : p[n + 4 + k] = s.regs[k]
  /\ p[n + RegisterCount + 5] = m
  /\ \A k \in 1 .. m : p[n + RegisterCount + 5 + k] = s.memoryBytes[k]

LEMMA Layout ==
  ASSUME NEW s \in VmSnapshot
  PROVE  LaidOut(s, Len(s.vmName), Len(s.memoryBytes), Payload(s))
<1> DEFINE n == Len(s.vmName)
           m == Len(s.memoryBytes)
           p == Payload(s)
           A == <<n>>
           B == A \o s.vmName
           T == <<s.pc, s.hi, s.lo>>
           C == B \o T
           D == C \o s.regs
           M == <<m>>
           E == D \o M
           F == E \o s.memoryBytes
           R == RegisterCount
<1>1. p = F
  BY DEF Payload
<1>2. /\ n \in Nat /\ m \in Nat /\ R \in Nat /\ n \in Byte /\ m \in Byte
      /\ n = Len(s.vmName) /\ m = Len(s.memoryBytes)
      /\ s.vmName \in Seq(Byte) /\ s.regs \in Seq(Byte) /\ s.memoryBytes \in Seq(Byte)
      /\ Len(s.regs) = R
      /\ s.pc \in Byte /\ s.hi \in Byte /\ s.lo \in Byte
  BY SnapshotType, SerializerAssumption
<1>3. /\ A \in Seq(Byte) /\ Len(A) = 1 /\ A[1] = n
      /\ M \in Seq(Byte) /\ Len(M) = 1 /\ M[1] = m
      /\ T \in Seq(Byte) /\ Len(T) = 3 /\ T[1] = s.pc /\ T[2] = s.hi /\ T[3] = s.lo
  BY <1>2
<1> HIDE DEF A, M, T, R, n, m, p
<1>4. /\ B \in Seq(Byte) /\ Len(B) = n + 1 /\ B[1] = n
      /\ \A k \in 1 .. n : B[1 + k] = s.vmName[k]
  <2>1. /\ B \in Seq(Byte) /\ Len(B) = Len(A) + Len(s.vmName)
        /\ \A k \in 1 .. Len(A) : B[k] = A[k]
        /\ \A k \in 1 .. Len(s.vmName) : B[Len(A) + k] = s.vmName[k]
    BY <1>2, <1>3, Joined, Zenon
  <2> HIDE DEF B
  <2>2. Len(B) = n + 1
    BY <1>2, <1>3, <2>1
  <2>3. B[1] = A[1]
    BY <1>3, <2>1
  <2>4. \A k \in 1 .. n : B[1 + k] = s.vmName[k]
    BY <1>2, <1>3, <2>1
  <2> QED
    BY <1>3, <2>1, <2>2, <2>3, <2>4
<1> HIDE DEF B
<1>5. /\ C \in Seq(Byte) /\ Len(C) = n + 4
      /\ \A k \in 1 .. n + 1 : C[k] = B[k]
      /\ C[n + 2] = s.pc /\ C[n + 3] = s.hi /\ C[n + 4] = s.lo
  <2>1. /\ C \in Seq(Byte) /\ Len(C) = Len(B) + Len(T)
        /\ \A k \in 1 .. Len(B) : C[k] = B[k]
        /\ \A k \in 1 .. Len(T) : C[Len(B) + k] = T[k]
    BY <1>3, <1>4, Joined, Zenon
  <2>2. C[n + 1 + 1] = T[1] /\ C[n + 1 + 2] = T[2] /\ C[n + 1 + 3] = T[3]
    <3> HIDE DEF C
    <3> QED
      BY <1>2, <1>3, <1>4, <2>1, SMTT(30)
  <2>3. n + 1 + 1 = n + 2 /\ n + 1 + 2 = n + 3 /\ n + 1 + 3 = n + 4
    BY <1>2
  <2> HIDE DEF C
  <2> QED
    BY <1>2, <1>3, <1>4, <2>1, <2>2, <2>3
<1> HIDE DEF C
<1>6. /\ D \in Seq(Byte) /\ Len(D) = n + 4 + R
      /\ \A k \in 1 .. n + 4 : D[k] = C[k]
      /\ \A k \in 1 .. R : D[n + 4 + k] = s.regs[k]
  <2>1. /\ D \in Seq(Byte) /\ Len(D) = Len(C) + Len(s.regs)
        /\ \A k \in 1 .. Len(C) : D[k] = C[k]
        /\ \A k \in 1 .. Len(s.regs) : D[Len(C) + k] = s.regs[k]
    BY <1>2, <1>5, Joined, Zenon
  <2> HIDE DEF D
  <2> QED
    BY <1>2, <1>5, <2>1
<1> HIDE DEF D
<1>7. /\ E \in Seq(Byte) /\ Len(E) = n + R + 5
      /\ \A k \in 1 .. n + 4 + R : E[k] = D[k]
      /\ E[n + R + 5] = m
  <2>1. /\ E \in Seq(Byte) /\ Len(E) = Len(D) + Len(M)
        /\ \A k \in 1 .. Len(D) : E[k] = D[k]
        /\ \A k \in 1 .. Len(M) : E[Len(D) + k] = M[k]
    BY <1>3, <1>6, Joined, Zenon
  <2>2. n + 4 + R + 1 = n + R + 5 /\ E[n + 4 + R + 1] = M[1]
    <3> HIDE DEF E
    <3> QED
      BY <1>2, <1>3, <1>6, <2>1
  <2> HIDE DEF E
  <2> QED
    BY <1>2, <1>3, <1>6, <2>1, <2>2
<1> HIDE DEF E
<1>8. /\ F \in Seq(Byte) /\ Len(F) = n + R + 5 + m
      /\ \A k \in 1 .. n + R + 5 : F[k] = E[k]
      /\ \A k \in 1 .. m : F[n + R + 5 + k] = s.memoryBytes[k]
  <2>1. /\ F \in Seq(Byte) /\ Len(F) = Len(E) + Len(s.memoryBytes)
        /\ \A k \in 1 .. Len(E) : F[k] = E[k]
        /\ \A k \in 1 .. Len(s.memoryBytes) : F[Len(E) + k] = s.memoryBytes[k]
    BY <1>2, <1>7, Joined, Zenon
  <2> HIDE DEF F
  <2> QED
    BY <1>2, <1>7, <2>1
<1> HIDE DEF F
<1>9. \A k \in 1 .. n + 1 : F[k] = B[k]
  <2> SUFFICES ASSUME NEW k \in 1 .. n + 1 PROVE F[k] = B[k]
    OBVIOUS
  <2>1. k \in 1 .. n + 4 /\ k \in 1 .. n + 4 + R /\ k \in 1 .. n + R + 5
    BY <1>2
  <2> QED
    BY <1>5, <1>6, <1>7, <1>8, <2>1
<1>10. F[1] = n /\ \A k \in 1 .. n : F[1 + k] = s.vmName[k]
  <2>1. 1 \in 1 .. n + 1 /\ \A k \in 1 .. n : 1 + k \in 1 .. n + 1
    BY <1>2
  <2> QED
    BY <1>4, <1>9, <2>1
<1>11. \A k \in n + 2 .. n + 4 : F[k] = C[k]
  <2> SUFFICES ASSUME NEW k \in n + 2 .. n + 4 PROVE F[k] = C[k]
    OBVIOUS
  <2>1. k \in 1 .. n + 4 /\ k \in 1 .. n + 4 + R /\ k \in 1 .. n + R + 5
    BY <1>2
  <2> QED
    BY <1>6, <1>7, <1>8, <2>1
<1>12. F[n + 2] = s.pc /\ F[n + 3] = s.hi /\ F[n + 4] = s.lo
  <2>1. n + 2 \in n + 2 .. n + 4 /\ n + 3 \in n + 2 .. n + 4 /\ n + 4 \in n + 2 .. n + 4
    BY <1>2
  <2> QED
    BY <1>5, <1>11, <2>1
<1>13. \A k \in 1 .. R : F[n + 4 + k] = s.regs[k]
  <2> SUFFICES ASSUME NEW k \in 1 .. R PROVE F[n + 4 + k] = s.regs[k]
    OBVIOUS
  <2>1. n + 4 + k \in 1 .. n + 4 + R /\ n + 4 + k \in 1 .. n + R + 5
    BY <1>2
  <2> QED
    BY <1>6, <1>7, <1>8, <2>1
<1>14. F[n + R + 5] = m
  <2>1. n + R + 5 \in 1 .. n + R + 5
    BY <1>2
  <2> QED
    BY <1>7, <1>8, <2>1
<1>15. Len(F) = n + R + m + 5
  <2>1. \A i, j, k \in Nat : i + j + 5 + k = i + j + k + 5
    OBVIOUS
  <2>2. n \in Nat /\ m \in Nat /\ R \in Nat
    BY <1>2
  <2>3. Len(F) = n + R + 5 + m
    BY <1>8
  <2> QED
    BY <2>1, <2>2, <2>3, Zenon
<1> QED
  BY <1>1, <1>2, <1>8, <1>10, <1>12, <1>13, <1>14, <1>15, Zenon DEF LaidOut, R, n, m, p

LEMMA DeserializeInverts ==
  ASSUME NEW s \in VmSnapshot
  PROVE  Deserialize(Serialize(s)) = s
<1> DEFINE n == Len(s.vmName)
           m == Len(s.memoryBytes)
           p == Payload(s)
           R == RegisterCount
<1>10. LaidOut(s, n, m, p)
  BY Layout
<1>2. /\ s.vmName \in Seq(Byte) /\ s.regs \in Seq(Byte) /\ s.memoryBytes \in Seq(Byte)
      /\ Len(s.regs) = R
      /\ s = [vmName |-> s.vmName, pc |-> s.pc, hi |-> s.hi, lo |-> s.lo,
              regs |-> s.regs, memoryBytes |-> s.memoryBytes]
  BY SnapshotType
<1>9. n = Len(s.vmName) /\ m = Len(s.memoryBytes) /\ R = Len(s.regs)
  BY <1>2
<1> HIDE DEF p, n, R, m
<1>1. /\ n \in Nat /\ m \in Nat /\ R \in Nat
      /\ p \in Seq(Byte) /\ Len(p) = n + R + m + 5
      /\ p[1] = n
      /\ \A k \in 1 .. n : p[1 + k] = s.vmName[k]
      /\ p[n + 2] = s.pc /\ p[n + 3] = s.hi /\ p[n + 4] = s.lo
      /\ \A k \in 1 .. R : p[n + 4 + k] = s.regs[k]
      /\ p[n + R + 5] = m
      /\ \A k \in 1 .. m : p[n + R + 5 + k] = s.memoryBytes[k]
  BY <1>10, Zenon DEF LaidOut, R
<1>3. Extract(p, 1, n) = s.vmName
  <2>1. 1 \in Nat /\ 1 + n <= Len(p)
    BY <1>1
  <2>2. \A k \in 1 .. Len(s.vmName) : p[1 + k] = s.vmName[k]
    BY <1>1, <1>9
  <2>3. 1 + Len(s.vmName) <= Len(p)
    BY <1>9, <2>1
  <2>4. Extract(p, 1, Len(s.vmName)) = s.vmName
    BY <1>1, <1>2, <2>1, <2>2, <2>3, Extracted
  <2> QED
    BY <1>9, <2>4
<1>4. Extract(p, n + 4, R) = s.regs
  <2>1. n + 4 \in Nat /\ n + 4 + R <= Len(p)
    BY <1>1
  <2>2. \A k \in 1 .. Len(s.regs) : p[n + 4 + k] = s.regs[k]
    BY <1>1, <1>9
  <2>3. n + 4 + Len(s.regs) <= Len(p)
    BY <1>9, <2>1
  <2>4. Extract(p, n + 4, Len(s.regs)) = s.regs
    BY <1>1, <1>2, <2>1, <2>2, <2>3, Extracted
  <2> QED
    BY <1>9, <2>4
<1>5. Extract(p, n + R + 5, m) = s.memoryBytes
  <2>1. n + R + 5 \in Nat /\ n + R + 5 + m <= Len(p)
    BY <1>1
  <2>2. \A k \in 1 .. Len(s.memoryBytes) : p[n + R + 5 + k] = s.memoryBytes[k]
    BY <1>1, <1>9
  <2>3. n + R + 5 + Len(s.memoryBytes) <= Len(p)
    BY <1>9, <2>1
  <2>4. Extract(p, n + R + 5, Len(s.memoryBytes)) = s.memoryBytes
    BY <1>1, <1>2, <2>1, <2>2, <2>3, Extracted
  <2> QED
    BY <1>9, <2>4
<1>6. n + 4 + R + 1 = n + R + 5
  BY <1>1
<1>7. Serialize(s).payload = p
  BY DEF Serialize, p
<1>8. Deserialize(Serialize(s)) =
        [vmName |-> Extract(p, 1, n), pc |-> p[n + 2], hi |-> p[n + 3], lo |-> p[n + 4],
         regs |-> Extract(p, n + 4, R), memoryBytes |-> Extract(p, n + 4 + R + 1, p[n + 4 + R + 1])]
  BY <1>1, <1>7 DEF Deserialize, R
<1> QED
  BY <1>1, <1>2, <1>3, <1>4, <1>5, <1>6, <1>8

-----------------------------------------------------------------------------
(* The packet on its way. *)

(* A packet that differs from the one of s in one byte, or in its head. *)
Damaged(p, s) ==
  LET q == Serialize(s)
  IN \/ \E k \in 1 .. Len(q.payload), b \in Byte :
          p = [q EXCEPT !.payload = [q.payload EXCEPT ![k] = b]]
     \/ \E h \in Hash : p = [q EXCEPT !.checksum = h]
     \/ \E v \in Versions : p = [q EXCEPT !.version = v]

PacketInv ==
  /\ snapshot \in VmSnapshot
  /\ packet = Serialize(snapshot) \/ Damaged(packet, snapshot)

LEMMA PacketStep == PacketInv /\ [Next]_vars => PacketInv'
<1> SUFFICES ASSUME PacketInv, [Next]_vars PROVE PacketInv'
  OBVIOUS
<1>1. CASE Damage
  <2> DEFINE q == Serialize(snapshot)
  <2>1. snapshot \in VmSnapshot /\ packet = q /\ snapshot' = snapshot
    BY <1>1 DEF Damage, PacketInv
  <2>2. \/ \E k \in DOMAIN q.payload, b \in Byte : packet' = [q EXCEPT !.payload[k] = b]
        \/ \E h \in Hash : packet' = [q EXCEPT !.checksum = h]
        \/ \E v \in Versions : packet' = [q EXCEPT !.version = v]
    BY <1>1, <2>1, Zenon DEF Damage
  <2>3. q.payload \in Seq(Byte)
    BY <2>1, Layout DEF Serialize, LaidOut
  <2> HIDE DEF q
  <2>4. DOMAIN q.payload = 1 .. Len(q.payload)
    BY <2>3
  <2>5. Damaged(packet', snapshot)
    BY <2>2, <2>4, Zenon DEF Damaged, q
  <2> QED
    BY <2>1, <2>5 DEF PacketInv
<1>2. CASE Resend
  BY <1>2 DEF Resend, PacketInv
<1>3. CASE UNCHANGED vars
  BY <1>3 DEF vars, PacketInv
<1> QED
  BY <1>1, <1>2, <1>3 DEF Next

(* The packet is the one of the snapshot, or has one piece of damage. *)
THEOREM PacketInductive == Spec => []PacketInv
<1>1. Init => PacketInv
  BY DEF Init, PacketInv
<1> QED
  BY <1>1, PacketStep, PTL DEF Spec

(***************************************************************************)
(* Deserialize gives back the snapshot Serialize was given, for names and  *)
(* memories of every length: it finds each field where it was written.     *)
(***************************************************************************)
THEOREM Returns == Spec => []RoundTrip
<1>1. PacketInv => RoundTrip
  <2> SUFFICES ASSUME PacketInv, packet = Serialize(snapshot)
               PROVE  Accepts(packet) /\ Deserialize(packet) = snapshot
    BY DEF RoundTrip
  <2>1. Accepts(packet)
    BY DEF Accepts, Serialize
  <2>2. snapshot \in VmSnapshot
    BY DEF PacketInv
  <2> QED
    BY <2>1, <2>2, DeserializeInverts
<1> QED
  BY <1>1, PacketInductive, PTL

(***************************************************************************)
(* A packet with one byte, the checksum or the version changed is rejected *)
(* by Deserialize, for hashes of every width and every odd multiplier.     *)
(***************************************************************************)
THEOREM Rejects == Spec => []DamageRejected
<1>1. PacketInv => DamageRejected
  <2> SUFFICES ASSUME PacketInv, packet # Serialize(snapshot)
               PROVE  ~Accepts(packet)
    BY DEF DamageRejected
  <2> DEFINE q == Serialize(snapshot)
             t == Payload(snapshot)
  <2>1. /\ q = [version |-> 1, payload |-> t, checksum |-> ComputeChecksum(t)]
        /\ t \in Seq(Byte)
    BY Layout DEF Serialize, PacketInv, LaidOut
  <2>2. Damaged(packet, snapshot) /\ packet # q
    BY DEF PacketInv
  <2> HIDE DEF t
  <2>3. ASSUME NEW k \in 1 .. Len(t), NEW b \in Byte,
               packet = [q EXCEPT !.payload = [t EXCEPT ![k] = b]]
        PROVE  ~Accepts(packet)
    <3> DEFINE u == [t EXCEPT ![k] = b]
    <3>1. /\ u \in Seq(Byte) /\ Len(u) = Len(t) /\ u[k] = b
          /\ \A j \in (1 .. Len(t)) \ {k} : u[j] = t[j]
      BY <2>1
    <3>2. b # t[k]
      <4>1. ASSUME b = t[k] PROVE u = t
        BY <2>1, <4>1
      <4> HIDE DEF u
      <4> QED
        BY <2>1, <2>2, <2>3, <4>1 DEF u
    <3> HIDE DEF u
    <3>3. ComputeChecksum(u) # ComputeChecksum(t)
      BY <2>1, <3>1, <3>2, ChecksumSeesOneByte
    <3>4. packet.payload = u /\ packet.checksum = ComputeChecksum(t)
      BY <2>1, <2>3 DEF u
    <3> QED
      BY <3>3, <3>4 DEF Accepts
  <2>4. ASSUME NEW h \in Hash, packet = [q EXCEPT !.checksum = h]
        PROVE  ~Accepts(packet)
    <3>1. packet.payload = t /\ packet.checksum = h
      BY <2>1, <2>4
    <3>2. h # ComputeChecksum(t)
      BY <2>1, <2>2, <2>4
    <3> QED
      BY <3>1, <3>2 DEF Accepts
  <2>5. ASSUME NEW v \in Versions, packet = [q EXCEPT !.version = v]
        PROVE  ~Accepts(packet)
    <3>1. packet.version = v /\ v # 1
      BY <2>1, <2>2, <2>5
    <3> QED
      BY <3>1 DEF Accepts
  <2>6. q.payload = t
    BY <2>1
  <2> QED
    BY <2>2, <2>3, <2>4, <2>5, <2>6 DEF Damaged
<1> QED
  BY <1>1, PacketInductive, PTL

=============================================================================
