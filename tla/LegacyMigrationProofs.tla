------------------------ MODULE LegacyMigrationProofs -----------------------
(***************************************************************************)
(* Proofs about LegacyMigration and the LegacyMachine it moves, for        *)
(* registers of any number and width and programs of any length.           *)
(***************************************************************************)
EXTENDS LegacyMigration, WellFoundedInduction, TLAPS

-----------------------------------------------------------------------------
(* Recursion over numbers. *)

(* A set of numbers that is not empty has a least element. *)
LEMMA Least ==
  ASSUME NEW T, T \subseteq Nat, T # {}
  PROVE  \E n \in T : \A k \in T : n <= k
<1>1. PICK n \in T : \A k \in T : ~(<<k, n>> \in OpToRel(<, Nat))
  BY NatLessThanWellFounded, WFMin
<1>2. \A k \in T : ~(k < n)
  BY <1>1 DEF OpToRel
<1> QED
  BY <1>2

(* A property of 0 that goes from each number to the next holds up to n. *)
LEMMA UpTo ==
  ASSUME NEW n \in Nat, NEW Good, 0 \in Good,
         \A k \in 1 .. n : k - 1 \in Good => k \in Good
  PROVE  0 .. n \subseteq Good
<1> DEFINE Bad == (0 .. n) \ Good
<1>1. Bad \subseteq Nat
  OBVIOUS
<1>2. ASSUME Bad # {}
      PROVE  FALSE
  <2> HIDE DEF Bad
  <2>1. PICK k \in Bad : \A j \in Bad : k <= j
    BY <1>1, <1>2, Least
  <2>2. k \in 1 .. n /\ k - 1 \in 0 .. n /\ k - 1 \notin Bad
    BY <2>1 DEF Bad
  <2> QED
    BY <2>1, <2>2 DEF Bad
<1> QED
  BY <1>2

-----------------------------------------------------------------------------
(* Powers of two. *)

Twice(y) == 2 * y

Powers(f, n) == f = [k \in 0 .. n |-> IF k = 0 THEN 1 ELSE Twice(f[k - 1])]

LEMMA PowersExist ==
  ASSUME NEW n \in Nat
  PROVE  \E f : Powers(f, n)
<1> DEFINE Good == {k \in Nat : \E f : Powers(f, k)}
<1>1. 0 \in Good
  <2> DEFINE f == [k \in 0 .. 0 |-> 1]
  <2>1. Powers(f, 0)
    BY DEF Powers
  <2> QED
    BY <2>1
<1>2. ASSUME NEW l \in 1 .. n, l - 1 \in Good
      PROVE  l \in Good
  <2>1. PICK f : Powers(f, l - 1)
    BY <1>2
  <2> DEFINE g == [k \in 0 .. l |-> IF k = l THEN Twice(f[l - 1]) ELSE f[k]]
  <2>2. ASSUME NEW k \in 0 .. l
        PROVE  g[k] = IF k = 0 THEN 1 ELSE Twice(g[k - 1])
    BY <2>1 DEF Powers
  <2>3. Powers(g, l)
    BY <2>2, Zenon DEF Powers
  <2> QED
    BY <2>3
<1> HIDE DEF Good
<1>3. 0 .. n \subseteq Good
  BY <1>1, <1>2, UpTo
<1> QED
  BY <1>3 DEF Good

LEMMA PowerType ==
  ASSUME NEW n \in Nat
  PROVE  /\ PowerOfTwo(n) \in Nat \ {0}
         /\ n # 0 => \E half \in Nat \ {0} : PowerOfTwo(n) = 2 * half
<1> DEFINE f == CHOOSE g : Powers(g, n)
           Good == {k \in Nat : f[k] \in Nat \ {0}}
<1>1. Powers(f, n)
  BY PowersExist
<1>2. PowerOfTwo(n) = f[n]
  BY DEF PowerOfTwo, Powers, Twice
<1> HIDE DEF f
<1>3. 0 \in Good
  BY <1>1 DEF Powers
<1>4. ASSUME NEW k \in 1 .. n, k - 1 \in Good
      PROVE  k \in Good
  BY <1>1, <1>4 DEF Powers, Twice
<1>5. 0 .. n \subseteq Good
  <2> HIDE DEF Good
  <2> QED
    BY <1>3, <1>4, UpTo
<1>6. n # 0 => f[n] = 2 * f[n - 1] /\ f[n - 1] \in Nat \ {0}
  <2>1. n # 0 => n - 1 \in 0 .. n /\ f[n] = Twice(f[n - 1])
    BY <1>1 DEF Powers
  <2> QED
    BY <1>5, <2>1 DEF Twice
<1> QED
  BY <1>2, <1>5, <1>6

(* The space of values is a pair of halves. *)
LEMMA SpaceType ==
  /\ Space \in Nat \ {0} /\ MinValue \in Int /\ MinValue < 0 /\ Space = -2 * MinValue
  /\ 0 \in Value /\ Value \subseteq Int
BY PowerType, LegacyAssumption DEF Space, MinValue, Value

-----------------------------------------------------------------------------
(* The bits of xor, and and or. *)

LEMMA UnsignedType ==
  ASSUME NEW v \in Int
  PROVE  Unsigned(v) \in 0 .. Space - 1
BY SpaceType DEF Unsigned

LEMMA SignedType ==
  ASSUME NEW n \in Int
  PROVE  Signed(n) \in Value
<1>1. (n - MinValue) % Space \in 0 .. Space - 1
  BY SpaceType
<1> QED
  BY <1>1, SpaceType DEF Signed, Value

(* A remainder is what it is by its range. *)
LEMMA ModUnique ==
  ASSUME NEW m \in Nat \ {0}, NEW k \in Int, NEW r \in 0 .. m - 1
  PROVE  (m * k + r) % m = r /\ (m * k + r) \div m = k
OBVIOUS

LEMMA DivMod ==
  ASSUME NEW n \in Int, NEW m \in Nat \ {0}
  PROVE  /\ n = m * (n \div m) + (n % m)
         /\ n \div m \in Int /\ n % m \in 0 .. m - 1
OBVIOUS

(* Neither conversion loses anything of the low word. *)
LEMMA SignedKeepsWord ==
  ASSUME NEW n \in Int
  PROVE  /\ Unsigned(Signed(n)) = n % Space
         /\ n \in Value => Signed(n) = n
<1> DEFINE q == (n - MinValue) \div Space
           r == (n - MinValue) % Space
           k == n \div Space
<1>1. n - MinValue = Space * q + r /\ q \in Int /\ r \in 0 .. Space - 1
  <2>1. n - MinValue \in Int
    BY SpaceType
  <2> QED
    BY <2>1, SpaceType, DivMod
<1>2. n = Space * k + (n % Space) /\ k \in Int /\ n % Space \in 0 .. Space - 1
  BY SpaceType, DivMod
<1> HIDE DEF q, r, k
<1>3. Signed(n) = n - Space * q
  BY <1>1, SpaceType DEF Signed, r
<1>4. Signed(n) = Space * (k - q) + (n % Space)
  BY <1>1, <1>2, <1>3, SpaceType, SMTT(30)
<1>5. Unsigned(Signed(n)) = n % Space
  <2>1. PICK c \in Int : c = k - q
    BY <1>1, <1>2
  <2>2. (Space * c + (n % Space)) % Space = n % Space
    BY <1>2, SpaceType, ModUnique
  <2> QED
    BY <1>4, <2>1, <2>2 DEF Unsigned
<1>6. ASSUME n \in Value
      PROVE  Signed(n) = n
  <2>1. n - MinValue \in 0 .. Space - 1
    BY <1>6, SpaceType DEF Value
  <2>2. n - MinValue = Space * 0 + (n - MinValue)
    BY SpaceType
  <2>3. (n - MinValue) % Space = n - MinValue
    BY <2>1, <2>2, SpaceType, ModUnique
  <2> QED
    BY <2>3, SpaceType DEF Signed
<1> QED
  BY <1>5, <1>6

(* The sum of the first bits of Bits; One is what bit n - 1 adds to it. *)
One(table, a, b, n) ==
  IF <<Bit(a, n - 1), Bit(b, n - 1)>> \in table THEN PowerOfTwo(n - 1) ELSE 0

Plus(y, z) == y + z

Sums(f, table, a, b, n) ==
  f = [k \in 0 .. n |-> IF k = 0 THEN 0 ELSE Plus(f[k - 1], One(table, a, b, k))]

LEMMA SumsExist ==
  ASSUME NEW table, NEW a, NEW b, NEW n \in Nat
  PROVE  \E f : Sums(f, table, a, b, n)
<1> DEFINE Good == {k \in Nat : \E f : Sums(f, table, a, b, k)}
<1>1. 0 \in Good
  <2> DEFINE f == [k \in 0 .. 0 |-> 0]
  <2>1. Sums(f, table, a, b, 0)
    BY DEF Sums
  <2> QED
    BY <2>1
<1>2. ASSUME NEW l \in 1 .. n, l - 1 \in Good
      PROVE  l \in Good
  <2>1. PICK f : Sums(f, table, a, b, l - 1)
    BY <1>2
  <2> DEFINE g == [k \in 0 .. l |-> IF k = l THEN Plus(f[l - 1], One(table, a, b, l)) ELSE f[k]]
  <2>2. ASSUME NEW k \in 0 .. l
        PROVE  g[k] = IF k = 0 THEN 0 ELSE Plus(g[k - 1], One(table, a, b, k))
    BY <2>1 DEF Sums
  <2>3. Sums(g, table, a, b, l)
    BY <2>2, Zenon DEF Sums
  <2> QED
    BY <2>3
<1> HIDE DEF Good
<1>3. 0 .. n \subseteq Good
  BY <1>1, <1>2, UpTo
<1> QED
  BY <1>3 DEF Good

LEMMA BitsType ==
  ASSUME NEW table, NEW a, NEW b
  PROVE  Bits(table, a, b) \in Int
<1> DEFINE f == CHOOSE g : Sums(g, table, a, b, Width)
           Good == {k \in Nat : f[k] \in Int}
<1>1. Sums(f, table, a, b, Width)
  BY SumsExist, LegacyAssumption
<1>2. Bits(table, a, b) = f[Width]
  BY DEF Bits, Sums, One, Plus
<1> HIDE DEF f
<1>3. 0 \in Good
  BY <1>1, LegacyAssumption DEF Sums
<1>4. ASSUME NEW k \in 1 .. Width, k - 1 \in Good
      PROVE  k \in Good
  <2>1. One(table, a, b, k) \in Int
    BY PowerType, LegacyAssumption DEF One
  <2> QED
    BY <1>1, <1>4, <2>1, LegacyAssumption DEF Sums, Plus
<1> HIDE DEF Good
<1>5. 0 .. Width \subseteq Good
  BY <1>3, <1>4, UpTo, LegacyAssumption
<1>6. Width \in 0 .. Width
  BY LegacyAssumption
<1> QED
  BY <1>2, <1>5, <1>6 DEF Good

-----------------------------------------------------------------------------
(* What the opcodes leave in the registers. *)

(* The high half of a product. *)
LEMMA HighType ==
  ASSUME NEW a \in Value, NEW b \in Value
  PROVE  (a * b) \div Space \in Value
<1> DEFINE h == -MinValue
           n == a * b
           q == n \div Space
<1>1. h \in Nat \ {0} /\ Space = 2 * h /\ a \in -h .. h - 1 /\ b \in -h .. h - 1
  BY SpaceType DEF Value
<1>2. n \in Int /\ n <= h * h /\ -(h * h) <= n /\ h * h \in Nat
  <2>1. ASSUME NEW y \in 0 .. h, NEW z \in 0 .. h
        PROVE  y * z \in 0 .. h * h
    BY <1>1
  <2>2. PICK y \in 0 .. h, z \in 0 .. h : a \in {y, -y} /\ b \in {z, -z}
    <3>1. \E y \in 0 .. h : a \in {y, -y}
      BY <1>1
    <3>2. \E z \in 0 .. h : b \in {z, -z}
      BY <1>1
    <3> QED
      BY <3>1, <3>2
  <2>3. n = y * z \/ n = -(y * z)
    BY <1>1, <2>2
  <2>4. y * z \in 0 .. h * h /\ h * h \in Nat
    BY <1>1, <2>1
  <2> HIDE DEF n
  <2> QED
    BY <2>3, <2>4
<1>3. n = Space * q + (n % Space) /\ q \in Int /\ n % Space \in 0 .. Space - 1
  BY <1>2, SpaceType, DivMod
<1> HIDE DEF q, n, h
<1>4. q <= h - 1
  <2> SUFFICES ASSUME q >= h PROVE FALSE
    BY <1>1, <1>3
  <2>1. Space * q >= 2 * (h * h)
    BY <1>1, <1>3
  <2> QED
    BY <1>1, <1>2, <1>3, <2>1
<1>5. q >= -h
  <2> SUFFICES ASSUME q + 1 <= -h PROVE FALSE
    BY <1>1, <1>3
  <2>1. Space * (q + 1) <= -2 * (h * h)
    BY <1>1, <1>3
  <2>2. Space * (q + 1) = Space * q + Space
    BY <1>1, <1>3
  <2> QED
    BY <1>1, <1>2, <1>3, <2>1, <2>2
<1>6. q \in MinValue .. -MinValue - 1
  BY <1>3, <1>4, <1>5, SpaceType DEF h
<1> QED
  BY <1>6 DEF Value, q, n

Abs(n) == IF n < 0 THEN -n ELSE n

(* The quotient divi computes, rounded towards zero. *)
Quotient(a, b) ==
  IF (a < 0) = (b < 0) THEN Abs(a) \div Abs(b) ELSE -(Abs(a) \div Abs(b))

(***************************************************************************)
(* The quotient is one with a remainder that is smaller than the divisor   *)
(* and has the sign of the dividend; only -MinValue does not fit.          *)
(***************************************************************************)
LEMMA Euclid ==
  ASSUME NEW a \in Value, NEW b \in Value, b # 0
  PROVE  /\ Quotient(a, b) \in Int
         /\ \E r \in 0 .. Abs(b) - 1 :
              a - b * Quotient(a, b) = IF a < 0 THEN -r ELSE r
         /\ a # MinValue \/ b # -1 => Quotient(a, b) \in Value
<1> DEFINE A == Abs(a)
           B == Abs(b)
<1>1. a \in Int /\ b \in Int /\ A \in Nat /\ B \in Nat \ {0}
  BY SpaceType DEF Abs
<1>2. A = (IF a < 0 THEN -a ELSE a) /\ B = (IF b < 0 THEN -b ELSE b)
  BY DEF Abs
<1> HIDE DEF A, B
<1> DEFINE q == A \div B
           r == A % B
<1>3. A = B * q + r /\ q \in Int /\ r \in 0 .. B - 1
  BY <1>1, DivMod
<1>4. Quotient(a, b) = IF (a < 0) = (b < 0) THEN q ELSE -q
  BY DEF Quotient, A, B
<1> HIDE DEF q, r
<1>5. b * Quotient(a, b) = IF a < 0 THEN -(B * q) ELSE B * q
  <2>1. CASE a < 0 /\ b < 0
    <3>1. Quotient(a, b) = q /\ B = -b
      BY <1>4, <1>2, <2>1
    <3> QED
      BY <1>1, <1>3, <2>1, <3>1
  <2>2. CASE a < 0 /\ ~(b < 0)
    <3>1. Quotient(a, b) = -q /\ B = b
      BY <1>4, <1>2, <2>2
    <3> QED
      BY <1>1, <1>3, <2>2, <3>1
  <2>3. CASE ~(a < 0) /\ b < 0
    <3>1. Quotient(a, b) = -q /\ B = -b
      BY <1>4, <1>2, <2>3
    <3> QED
      BY <1>1, <1>3, <2>3, <3>1
  <2>4. CASE ~(a < 0) /\ ~(b < 0)
    <3>1. Quotient(a, b) = q /\ B = b
      BY <1>4, <1>2, <2>4
    <3> QED
      BY <1>1, <1>3, <2>4, <3>1
  <2> QED
    BY <2>1, <2>2, <2>3, <2>4
<1>6. a - b * Quotient(a, b) = IF a < 0 THEN -r ELSE r
  <2>1. PICK p \in Int : p = B * q
    BY <1>1, <1>3
  <2> QED
    BY <1>1, <1>3, <1>2, <1>5, <2>1
<1>7. q \in 0 .. A
  <2>1. q >= 0
    <3> SUFFICES ASSUME q + 1 <= 0 PROVE FALSE
      BY <1>3
    <3>1. B * (q + 1) <= 0 /\ B * (q + 1) = B * q + B
      BY <1>1, <1>3
    <3> QED
      BY <1>1, <1>3, <3>1
  <2>2. B * q >= q
    BY <1>1, <1>3, <2>1
  <2> QED
    BY <1>1, <1>3, <2>1, <2>2
<1>8. B # 1 /\ A # 0 => q < A
  <2> SUFFICES ASSUME B >= 2, q >= A, A > 0 PROVE FALSE
    BY <1>1, <1>3, <1>7
  <2>1. B * q >= 2 * q
    BY <1>1, <1>3, <1>7
  <2> QED
    BY <1>1, <1>3, <2>1
<1>9. ASSUME a # MinValue \/ b # -1
      PROVE  Quotient(a, b) \in Value
  <2>1. PICK h \in Nat \ {0} : MinValue = -h
    BY SpaceType
  <2>2. a \in -h .. h - 1
    BY <2>1 DEF Value
  <2>3. A \in 0 .. h /\ (A = h => a = -h)
    BY <1>2, <2>1, <2>2
  <2>4. Quotient(a, b) \in -h .. h - 1
    <3>1. CASE q < h
      BY <1>3, <1>4, <1>7, <2>1, <3>1
    <3>2. CASE q >= h
      <4>1. A = h /\ q = h /\ a = -h /\ B = 1
        BY <1>1, <1>7, <1>8, <2>1, <2>3, <3>2
      <4>2. b = 1
        BY <1>1, <1>2, <1>9, <2>1, <4>1
      <4> QED
        BY <1>1, <1>4, <2>1, <4>1, <4>2
    <3> QED
      BY <1>3, <2>1, <3>1, <3>2
  <2> QED
    BY <2>1, <2>4 DEF Value
<1> QED
  BY <1>1, <1>3, <1>4, <1>6, <1>9 DEF B

LEMMA DiviIsQuotient ==
  ASSUME NEW m, NEW a, NEW b
  PROVE  divi(m, a, b) =
           [m EXCEPT !.low = Signed(Quotient(a, b)), !.hi = a - b * Quotient(a, b)]
BY DEF divi, Quotient, Abs

LEMMA LineType ==
  ASSUME NEW line \in Lines
  PROVE  /\ line.op \in ThreeRegisters \cup Immediate \cup TwoRegisters
         /\ line.d \in Registers /\ line.s \in Registers
         /\ line.op \in Immediate => line.t \in Value
         /\ line.op \notin Immediate => line.t \in Registers
BY DEF Lines, ThreeRegisters, Immediate, TwoRegisters

(* Every opcode that writes its first register computes a number for it. *)
LEMMA ResultType ==
  ASSUME NEW line \in Lines, line.op \in ThreeRegisters \cup Immediate,
         NEW a \in Value, NEW b \in Value, line.op \notin Immediate \/ line.t \in Value
  PROVE  Result(line, a, b) \in Int
<1>1. a \in Int /\ b \in Int
  BY SpaceType
<1>2. \A table : Bits(table, a, b) \in Int /\ Bits(table, a, line.t) \in Int
  BY BitsType
<1>3. CASE line.op \in ThreeRegisters
  BY <1>1, <1>2, <1>3 DEF Result, ThreeRegisters
<1>4. CASE line.op \in Immediate
  <2>1. line.t \in Int
    BY <1>4, SpaceType
  <2>2. Count(line.t) \in Nat
    BY <2>1, UnsignedType, SpaceType, LegacyAssumption DEF Count
  <2>3. PICK p \in Nat \ {0} : p = PowerOfTwo(Count(line.t))
    BY <2>2, PowerType
  <2>4. a * p \in Int /\ a \div p \in Int
    BY <1>1
  <2> QED
    BY <1>1, <1>2, <1>4, <2>1, <2>3, <2>4 DEF Result, Immediate
<1> QED
  BY <1>3, <1>4

(* No line but a division by zero makes anything but a machine. *)
LEMMA SolveType ==
  ASSUME NEW m \in VmClass, NEW line \in Lines, ~Exits(m, line)
  PROVE  solve(m, line) \in VmClass
<1>1. /\ m.registers \in [Registers -> Value] /\ m.hi \in Value /\ m.low \in Value
      /\ m = [registers |-> m.registers, hi |-> m.hi, low |-> m.low]
  BY DEF VmClass
<1> DEFINE a == m.registers[line.d]
           b == m.registers[line.s]
<1>2. a \in Value /\ b \in Value
  BY <1>1, LineType
<1>3. CASE line.op \in ThreeRegisters \cup Immediate
  <2> DEFINE n == Result(line, b, m.registers[line.t])
  <2>1. n \in Int
    <3>1. CASE line.op \in Immediate
      <4>1. n = Result(line, b, 0)
        BY <3>1 DEF Result, Immediate
      <4> QED
        BY <1>2, <1>3, <3>1, <4>1, LineType, ResultType, SpaceType
    <3>2. CASE line.op \notin Immediate
      <4>1. m.registers[line.t] \in Value
        BY <1>1, <3>2, LineType
      <4> QED
        BY <1>2, <1>3, <3>2, <4>1, ResultType
    <3> QED
      BY <3>1, <3>2
  <2>2. Signed(n) \in Value
    BY <2>1, SignedType
  <2>3. solve(m, line) = [m EXCEPT !.registers[line.d] = Signed(n)]
    <3>1. line.op # "mult" /\ line.op # "div"
      BY <1>3 DEF ThreeRegisters, Immediate
    <3> QED
      BY <1>3, <3>1, Zenon DEF solve
  <2> HIDE DEF n
  <2> QED
    BY <1>1, <2>2, <2>3 DEF VmClass
<1>4. CASE line.op = "mult"
  <2>1. solve(m, line) = mult(m, a, b)
    BY <1>4 DEF solve, ThreeRegisters, Immediate
  <2>2. (a * b) \div Space \in Value /\ Signed(a * b) \in Value
    <3>1. a \in Int /\ b \in Int
      BY <1>2, SpaceType
    <3>2. a * b \in Int
      BY <3>1
    <3> QED
      BY <1>2, <3>2, HighType, SignedType
  <2> QED
    BY <1>1, <2>1, <2>2 DEF VmClass, mult
<1>5. CASE line.op = "div"
  <2>1. solve(m, line) = divi(m, a, b) /\ b # 0
    BY <1>5 DEF solve, ThreeRegisters, Immediate, Exits
  <2> DEFINE high == a - b * Quotient(a, b)
             low == Signed(Quotient(a, b))
  <2>2. low \in Value /\ \E r \in 0 .. Abs(b) - 1 : high = IF a < 0 THEN -r ELSE r
    BY <1>2, <2>1, Euclid, SignedType
  <2>3. solve(m, line) = [m EXCEPT !.low = low, !.hi = high]
    BY <2>1, DiviIsQuotient
  <2> HIDE DEF high, low
  <2>4. high \in Value
    <3>1. Abs(b) \in Nat /\ Abs(b) <= -MinValue
      BY <1>2, SpaceType DEF Abs, Value
    <3> QED
      BY <2>2, <3>1, SpaceType DEF Value
  <2> QED
    BY <1>1, <2>2, <2>3, <2>4 DEF VmClass
<1> QED
  BY <1>3, <1>4, <1>5, LineType DEF TwoRegisters

-----------------------------------------------------------------------------
(* Alone is defined by recursion over the lines of a program. *)

(* The machines after 0 to n lines of p. *)
IsRun(f, m, p, n) ==
  f = [k \in 0 .. n |-> IF k = 0 THEN m ELSE After(f[k - 1], p[k])]

(* A run of n lines can be made one longer, so there is one of any length. *)
LEMMA RunExists ==
  ASSUME NEW m, NEW p, NEW n \in Nat
  PROVE  \E f : IsRun(f, m, p, n)
<1> DEFINE Good == {k \in Nat : \E f : IsRun(f, m, p, k)}
<1>1. 0 \in Good
  <2> DEFINE f == [k \in 0 .. 0 |-> m]
  <2>1. IsRun(f, m, p, 0)
    BY DEF IsRun
  <2> QED
    BY <2>1
<1>2. ASSUME NEW l \in 1 .. n, l - 1 \in Good
      PROVE  l \in Good
  <2>1. PICK f : IsRun(f, m, p, l - 1)
    BY <1>2
  <2> DEFINE g == [k \in 0 .. l |-> IF k = l THEN After(f[l - 1], p[l]) ELSE f[k]]
  <2>2. ASSUME NEW k \in 0 .. l
        PROVE  g[k] = IF k = 0 THEN m ELSE After(g[k - 1], p[k])
    BY <2>1 DEF IsRun
  <2>3. IsRun(g, m, p, l)
    BY <2>2, Zenon DEF IsRun
  <2> QED
    BY <2>3
<1> HIDE DEF Good
<1>3. 0 .. n \subseteq Good
  BY <1>1, <1>2, UpTo
<1> QED
  BY <1>3 DEF Good

(* Two runs agree as far as both go. *)
LEMMA RunUnique ==
  ASSUME NEW m, NEW p, NEW n \in Nat, NEW l \in n .. n + 1,
         NEW f, IsRun(f, m, p, n), NEW g, IsRun(g, m, p, l)
  PROVE  f[n] = g[n]
<1> DEFINE Good == {k \in Nat : f[k] = g[k]}
<1>1. 0 \in Good
  BY DEF IsRun
<1>2. ASSUME NEW k \in 1 .. n, k - 1 \in Good
      PROVE  k \in Good
  BY <1>2 DEF IsRun
<1> HIDE DEF Good
<1>3. n \in Good
  BY <1>1, <1>2, UpTo
<1> QED
  BY <1>3 DEF Good

(* Alone is the last machine of a run. *)
LEMMA AloneIsRun ==
  ASSUME NEW m, NEW p, NEW n \in Nat
  PROVE  \E f : IsRun(f, m, p, n) /\ Alone(m, p, n) = f[n]
<1> DEFINE f == CHOOSE g : IsRun(g, m, p, n)
<1>1. IsRun(f, m, p, n)
  BY RunExists
<1>2. Alone(m, p, n) = f[n]
  BY DEF Alone, IsRun
<1> QED
  BY <1>1, <1>2

(* The equations of Alone. *)
LEMMA AloneStarts ==
  ASSUME NEW m, NEW p
  PROVE  Alone(m, p, 0) = m
BY AloneIsRun DEF IsRun

LEMMA AloneStep ==
  ASSUME NEW m, NEW p, NEW n \in Nat
  PROVE  Alone(m, p, n + 1) = After(Alone(m, p, n), p[n + 1])
<1>1. PICK f : IsRun(f, m, p, n) /\ Alone(m, p, n) = f[n]
  BY AloneIsRun
<1>2. PICK g : IsRun(g, m, p, n + 1) /\ Alone(m, p, n + 1) = g[n + 1]
  BY AloneIsRun
<1>3. f[n] = g[n]
  BY <1>1, <1>2, RunUnique
<1> QED
  BY <1>1, <1>2, <1>3 DEF IsRun

-----------------------------------------------------------------------------
(* Types: what both machines hold stays in their registers. *)

(***************************************************************************)
(* The client counts no line it has not read, and connects once for each   *)
(* MIGRATE; the server reads lines of the file that was named to it.       *)
(***************************************************************************)
Typed ==
  /\ TypeOK
  /\ pc <= clientPos /\ connections <= clientPos
  /\ clientAt = "connecting" => connections < clientPos
  /\ serverAt \in {"skipping", "running"} => received \in Message
  /\ serverAt \in {"starting", "listening", "connected", "skipping"} => serverPos = 0

(* The lines of a program, and those of a file that was named. *)
LEMMA ProgramType ==
  ASSUME NEW p \in Programs
  PROVE  /\ Len(p) \in Nat
         /\ \A n \in 1 .. Len(p) : p[n] \in Lines \cup {Empty, Migrate, Snapshot, Malformed}
BY LegacyMigrationAssumption

LEMMA MessageType ==
  ASSUME NEW m \in Message
  PROVE  /\ m # NoMessage /\ m.registers \in [Registers -> Value] /\ m.pc \in Int
         /\ Len(m.lines) \in Nat
         /\ \A n \in 1 .. Len(m.lines) :
              m.lines[n] \in Lines \cup {Empty, Migrate, Snapshot, Malformed}
<1>1. m # NoMessage
  BY LegacyMigrationAssumption
<1>2. m.registers \in [Registers -> Value] /\ m.pc \in Int /\ m.lines \in Programs \cup {<<>>}
  BY DEF Message
<1>3. CASE m.lines = <<>>
  <2>1. Len(m.lines) = 0
    BY <1>3
  <2>2. 1 .. 0 = {}
    OBVIOUS
  <2> QED
    BY <1>1, <1>2, <2>1, <2>2
<1>4. CASE m.lines \in Programs
  BY <1>1, <1>2, <1>4, ProgramType
<1> QED
  BY <1>2, <1>3, <1>4

(* Between the lines skipped and the end of the file. *)
LEMMA SkippedType ==
  ASSUME received \in Message, NEW n \in Int
  PROVE  Skipped(n) \in 0 .. Len(received.lines)
BY MessageType DEF Skipped

(* A line after which the program runs leaves a machine. *)
LEMMA AfterType ==
  ASSUME NEW m \in VmClass, NEW line \in Lines \cup {Empty, Migrate, Snapshot, Malformed},
         "running" \in Outcomes(m, line)
  PROVE  After(m, line) \in VmClass
<1>1. CASE line.op \in Inert
  BY <1>1 DEF After
<1>2. CASE line.op \notin Inert
  <2>1. line.op # "malformed" /\ ~Exits(m, line)
    BY <1>2 DEF Outcomes
  <2>2. line \in Lines
    BY <1>2, <2>1 DEF Empty, Migrate, Snapshot, Malformed, Inert
  <2> QED
    BY <1>2, <2>1, <2>2, SolveType DEF After
<1> QED
  BY <1>1, <1>2

LEMMA TypeInit == Init => Typed
<1>1. Constructed \in VmClass
  BY SpaceType DEF Constructed, VmClass
<1> QED
  BY <1>1, ProgramType, LegacyMigrationAssumption
     DEF Init, Typed, TypeOK, Starts, ClientState, ServerState

LEMMA TypeStep == Typed /\ [Next]_vars => Typed'
<1> SUFFICES ASSUME Typed, [Next]_vars
             PROVE  Typed'
  OBVIOUS
<1> USE DEF Typed, TypeOK, input, clientVars, serverVars
<1>1. Len(program) \in Nat
  BY ProgramType
<1>2. CASE UNCHANGED vars
  BY <1>2 DEF vars
<1>3. CASE ClientLine
  <2>1. CASE clientPos = Len(program)
    BY <1>3, <2>1 DEF ClientLine, ClientState
  <2>2. CASE clientPos # Len(program)
    <3> DEFINE line == program[clientPos + 1]
    <3>1. /\ clientPos' = clientPos + 1 /\ clientPos + 1 \in 1 .. Len(program)
          /\ pc' \in {pc, pc + 1}
          /\ clientAt' \in IF line.op = "MIGRATE" THEN {"connecting"} ELSE Outcomes(client, line)
          /\ client' = IF clientAt' = "running" THEN After(client, line) ELSE client
          /\ UNCHANGED <<input, connections, serverVars, sent>>
      BY <1>1, <1>3, <2>2 DEF ClientLine, Counted
    <3>2. clientAt' \in ClientState
      BY <3>1 DEF Outcomes, ClientState
    <3>3. line \in Lines \cup {Empty, Migrate, Snapshot, Malformed}
      BY <3>1, ProgramType
    <3>4. client' \in VmClass
      BY <3>1, <3>3, AfterType
    <3> QED
      BY <1>1, <3>1, <3>2, <3>4
  <2> QED
    BY <2>1, <2>2
<1>4. CASE Connect
  <2>1. connections' \in 0 .. Len(program) /\ connections' <= clientPos
    BY <1>1, <1>4 DEF Connect
  <2> QED
    BY <1>4, <2>1 DEF Connect, ClientState
<1>5. CASE Send
  <2>1. StateToSend \in Message
    BY <1>1 DEF StateToSend, Message, VmClass
  <2> QED
    BY <1>5, <2>1 DEF Send, ClientState
<1>6. CASE Listen \/ Accept \/ AcceptFails \/ RecvFails
  BY <1>6 DEF Listen, Accept, AcceptFails, RecvFails, ServerState
<1>7. CASE Receive
  <2>1. Constructed \in VmClass
    BY SpaceType DEF Constructed, VmClass
  <2>2. received' \in Message
    BY <1>7, LegacyMigrationAssumption DEF Receive, RecvMessage, RecvNothing, SentOnFirst
  <2>3. server' \in VmClass
    BY <1>7, <2>1, <2>2 DEF Receive, VmClass, Message
  <2>4. serverPos' = 0 /\ received' # NoMessage /\ Len(received'.lines) \in Nat
    BY <1>7, <2>2, MessageType DEF Receive
  <2>5. serverPos' \in 0 .. IF received' = NoMessage THEN 0 ELSE Len(received'.lines)
    BY <2>4
  <2> QED
    BY <1>7, <2>2, <2>3, <2>4, <2>5 DEF Receive, ServerState
<1>8. CASE Skip
  <2>1. received \in Message /\ received # NoMessage /\ received.pc \in Int
    BY <1>8, MessageType DEF Skip
  <2>2. serverPos' \in 0 .. Len(received.lines)
    BY <1>8, <2>1, SkippedType DEF Skip
  <2> QED
    BY <1>8, <2>1, <2>2 DEF Skip, ServerState
<1>9. CASE ServerLine
  <2>1. CASE UNCHANGED <<server, serverPos>>
    BY <1>9, <2>1 DEF ServerLine, Outcomes, ServerState
  <2>2. CASE ~UNCHANGED <<server, serverPos>>
    <3> DEFINE line == received.lines[serverPos + 1]
    <3>0. received \in Message /\ received # NoMessage /\ Len(received.lines) \in Nat
          /\ serverPos \in 0 .. Len(received.lines)
      BY <1>9, MessageType DEF ServerLine
    <3>1. /\ serverPos' = serverPos + 1 /\ serverPos + 1 \in 1 .. Len(received.lines)
          /\ serverAt = "running" /\ serverAt' \in Outcomes(server, line)
          /\ server' = IF serverAt' = "running" THEN After(server, line) ELSE server
          /\ UNCHANGED <<input, clientVars, received, sent>>
      BY <1>9, <2>2, <3>0 DEF ServerLine, ServerAfter, After
    <3>2. serverAt' \in {"running", "exited", "killed"}
      BY <3>1 DEF Outcomes
    <3>3. line \in Lines \cup {Empty, Migrate, Snapshot, Malformed}
      BY <3>0, <3>1, MessageType
    <3>4. server' \in VmClass
      BY <3>1, <3>3, AfterType
    <3>5. serverPos' \in 0 .. Len(received.lines)
      BY <3>0, <3>1
    <3> QED
      BY <3>0, <3>1, <3>2, <3>4, <3>5 DEF ServerState
  <2> QED
    BY <2>1, <2>2
<1> QED
  BY <1>2, <1>3, <1>4, <1>5, <1>6, <1>7, <1>8, <1>9 DEF Next, ClientStep, ServerStep

-----------------------------------------------------------------------------
(* The steps both programs have left. *)

(* A line of the client takes one of its lines, and leaves at most a MIGRATE. *)
LEMMA ClientLineNearsEnd ==
  ASSUME Typed, ClientLine
  PROVE  ClientLeft' < ClientLeft /\ ClientLeft' \in Nat
<1>1. Len(program) \in Nat /\ clientPos \in 0 .. Len(program) /\ program' = program
  BY ProgramType DEF Typed, TypeOK, ClientLine, input
<1>2. ClientLeft = 3 * (Len(program) - clientPos) + 1
  BY DEF ClientLine, ClientLeft
<1>3. CASE clientPos = Len(program)
  <2>1. ClientLeft' = 0
    BY <1>3 DEF ClientLine, ClientLeft
  <2> QED
    BY <1>1, <1>2, <2>1
<1>4. CASE clientPos # Len(program)
  <2>1. /\ clientPos' = clientPos + 1
        /\ clientAt' \in {"connecting", "running", "exited", "killed"}
    BY <1>4 DEF ClientLine, Outcomes
  <2>2. \/ ClientLeft' = 3 * (Len(program) - (clientPos + 1)) + 3
        \/ ClientLeft' = 3 * (Len(program) - (clientPos + 1)) + 1
        \/ ClientLeft' = 0
    BY <1>1, <2>1 DEF ClientLeft
  <2> QED
    BY <1>1, <1>2, <1>4, <2>2
<1> QED
  BY <1>3, <1>4

(* So does a call of a MIGRATE, whether it fails or not. *)
LEMMA MigrateNearsEnd ==
  ASSUME Typed, Connect \/ Send
  PROVE  ClientLeft' < ClientLeft /\ ClientLeft' \in Nat
<1>1. /\ Len(program) \in Nat /\ clientPos \in 0 .. Len(program)
      /\ program' = program /\ clientPos' = clientPos
  BY ProgramType DEF Typed, TypeOK, Connect, Send, input
<1> DEFINE rest == 3 * (Len(program) - clientPos)
<1>2. rest \in Nat
  BY <1>1
<1>3. CASE Connect
  <2>1. ClientLeft = rest + 3 /\ (ClientLeft' = rest + 1 \/ ClientLeft' = rest + 2)
    BY <1>1, <1>3 DEF Connect, ClientLeft
  <2> HIDE DEF rest
  <2> QED
    BY <1>2, <2>1
<1>4. CASE Send
  <2>1. ClientLeft = rest + 2 /\ (ClientLeft' = rest + 1 \/ ClientLeft' = 0)
    BY <1>1, <1>4 DEF Send, ClientLeft
  <2> HIDE DEF rest
  <2> QED
    BY <1>2, <2>1
<1> QED
  BY <1>3, <1>4

(* Every call of the server, whether it fails or not, is one of its calls. *)
LEMMA ServerCallNearsEnd ==
  ASSUME Listen \/ Accept \/ AcceptFails \/ RecvFails \/ Receive \/ Skip
  PROVE  ServerNearer
BY DEF Listen, Accept, AcceptFails, RecvFails, Receive, Skip, ServerCallsLeft, ServerNearer

(* A line of the server is one of its lines, or its end. *)
LEMMA ServerLineNearsEnd ==
  ASSUME Typed, ServerLine
  PROVE  ServerNearer
<1>1. /\ received \in Message /\ received # NoMessage /\ Len(received.lines) \in Nat
      /\ serverPos \in 0 .. Len(received.lines) /\ received' = received
      /\ serverAt = "running"
  BY MessageType DEF Typed, TypeOK, ServerLine
<1>2. \/ serverAt' \in {"finished", "exited", "killed"}
      \/ serverAt' = "running" /\ serverPos' = serverPos + 1 /\ serverPos # Len(received.lines)
  BY DEF ServerLine, Outcomes
<1>3. CASE serverAt' \in {"finished", "exited", "killed"}
  <2>1. ServerCallsLeft = 1 /\ ServerCallsLeft' = 0
    BY <1>1, <1>3 DEF ServerCallsLeft
  <2> QED
    BY <2>1 DEF ServerNearer
<1>4. CASE serverAt' = "running" /\ serverPos' = serverPos + 1 /\ serverPos # Len(received.lines)
  <2>1. ServerCallsLeft' = ServerCallsLeft
    BY <1>1, <1>4 DEF ServerCallsLeft
  <2>2. /\ ServerLinesLeft = Len(received.lines) - serverPos
        /\ ServerLinesLeft' = Len(received.lines) - (serverPos + 1)
    BY <1>1, <1>4 DEF ServerLinesLeft
  <2>3. ServerLinesLeft' \in 0 .. ServerLinesLeft - 1
    BY <1>1, <1>4, <2>2
  <2> QED
    BY <2>1, <2>3 DEF ServerNearer
<1> QED
  BY <1>2, <1>3, <1>4

(***************************************************************************)
(* Each step brings the end of one of the two programs nearer and that of  *)
(* the other no further away, for programs of any length.                  *)
(***************************************************************************)
THEOREM BothGetDone == Spec => BothNearEnd
<1> DEFINE Nearer ==
             \/ ClientLeft' \in 0 .. ClientLeft - 1 /\ UNCHANGED serverVars
             \/ ServerNearer /\ UNCHANGED <<input, clientVars>>
<1>1. ASSUME Typed, Next
      PROVE  Nearer
  <2>1. CASE ClientStep
    <3>1. ClientLeft' < ClientLeft /\ ClientLeft' \in Nat /\ UNCHANGED serverVars
      BY <1>1, <2>1, ClientLineNearsEnd, MigrateNearsEnd
      DEF ClientStep, ClientLine, Connect, Send
    <3>2. ClientLeft \in Nat
      <4>1. Len(program) \in Nat /\ clientPos \in 0 .. Len(program)
        BY <1>1, ProgramType DEF Typed, TypeOK
      <4> QED
        BY <4>1 DEF ClientLeft
    <3> QED
      BY <3>1, <3>2
  <2>2. CASE Listen \/ ServerStep \/ AcceptFails \/ RecvFails
    <3>1. ServerNearer
      BY <1>1, <2>2, ServerCallNearsEnd, ServerLineNearsEnd DEF ServerStep
    <3>2. UNCHANGED <<input, clientVars>>
      BY <2>2 DEF Listen, ServerStep, Accept, AcceptFails, RecvFails, Receive, Skip, ServerLine
    <3> QED
      BY <3>1, <3>2
  <2> QED
    BY <1>1, <2>1, <2>2 DEF Next
<1>2. Spec => []Typed
  BY TypeInit, TypeStep, PTL DEF Spec
<1>3. Typed /\ [Next]_vars => [Nearer]_vars
  BY <1>1
<1> QED
  BY <1>2, <1>3, PTL DEF Spec, BothNearEnd

-----------------------------------------------------------------------------
(* The client on its own. *)

(* A client that migrated is still what its program has made of it. *)
ClientInv ==
  clientAt \in {"running", "connecting", "sending", "migrated", "finished"} =>
    client = Alone(started, program, clientPos)

LEMMA ClientInit == Init => ClientInv
BY AloneStarts DEF Init, ClientInv

LEMMA ClientStays == Typed /\ ClientInv /\ [Next]_vars => ClientInv'
<1> SUFFICES ASSUME Typed, ClientInv, [Next]_vars
             PROVE  ClientInv'
  OBVIOUS
<1> USE DEF ClientInv, input, clientVars, serverVars
<1>1. CASE UNCHANGED vars
  BY <1>1 DEF vars
<1>2. CASE ClientLine
  <2>1. CASE clientPos = Len(program)
    BY <1>2, <2>1 DEF ClientLine
  <2>2. CASE clientPos # Len(program)
    <3> DEFINE line == program[clientPos + 1]
    <3>1. /\ clientAt = "running" /\ clientPos \in Nat
          /\ clientPos' = clientPos + 1 /\ program' = program /\ started' = started
          /\ clientAt' \in IF line.op = "MIGRATE" THEN {"connecting"} ELSE Outcomes(client, line)
          /\ client' = IF clientAt' = "running" THEN After(client, line) ELSE client
      BY <1>2, <2>2, ProgramType DEF ClientLine, Typed, TypeOK
    <3>2. ASSUME clientAt' \in {"running", "connecting", "sending", "migrated", "finished"}
          PROVE  client' = After(client, line)
      BY <3>1, <3>2 DEF Outcomes, After, Inert
    <3> QED
      BY <3>1, <3>2, AloneStep
  <2> QED
    BY <2>1, <2>2
<1>3. CASE Connect
  BY <1>3 DEF Connect
<1>4. CASE Send
  BY <1>4 DEF Send
<1>5. CASE Listen \/ ServerStep \/ AcceptFails \/ RecvFails
  BY <1>5 DEF Listen, ServerStep, Accept, AcceptFails, RecvFails, Receive, Skip, ServerLine
<1> QED
  BY <1>1, <1>2, <1>3, <1>4, <1>5 DEF Next, ClientStep

(***************************************************************************)
(* A connection or a send that fails makes solve return, and costs the     *)
(* client no line and no register.                                         *)
(***************************************************************************)
THEOREM FailuresAreHarmless == Spec => []FailureIsHarmless
<1>1. Init => Typed /\ ClientInv
  BY TypeInit, ClientInit
<1>2. Typed /\ ClientInv /\ [Next]_vars => Typed' /\ ClientInv'
  BY TypeStep, ClientStays
<1>3. ClientInv => FailureIsHarmless
  BY DEF ClientInv, FailureIsHarmless
<1> QED
  BY <1>1, <1>2, <1>3, PTL DEF Spec

-----------------------------------------------------------------------------
(* The message, and the server that goes on from it. *)

(***************************************************************************)
(* What was sent is what the client still is, for it exited.  Before the   *)
(* first connection is made and used the server has received nothing, and  *)
(* before it has received something it executes nothing.                   *)
(***************************************************************************)
MessageInv ==
  /\ sent # NoMessage => clientAt = "migrated" /\ sent = StateToSend
  /\ connections = 0 \/ (clientAt = "sending" /\ connections = 1) => received = NoMessage
  /\ serverAt \in {"starting", "listening", "connected"} => received = NoMessage
  /\ serverAt = "connected" => connections # 0
  /\ serverAt = "skipping" => server = [Constructed EXCEPT !.registers = received.registers]

LEMMA MessageInit == Init => MessageInv
BY DEF Init, MessageInv

LEMMA MessageStep == Typed /\ MessageInv /\ [Next]_vars => MessageInv'
<1> SUFFICES ASSUME Typed, MessageInv, [Next]_vars
             PROVE  MessageInv'
  OBVIOUS
<1> USE DEF MessageInv, StateToSend, input, clientVars, serverVars
<1>1. CASE UNCHANGED vars
  BY <1>1 DEF vars
<1>2. CASE ClientLine
  <2>1. clientAt' # "sending"
    BY <1>2 DEF ClientLine, Outcomes
  <2> QED
    BY <1>2, <2>1 DEF ClientLine
<1>3. CASE Connect
  <2>1. connections \in Nat
    BY DEF Typed, TypeOK
  <2> QED
    BY <1>3, <2>1 DEF Connect
<1>4. CASE Send
  <2>1. sent = NoMessage
    BY <1>4 DEF Send
  <2> QED
    BY <1>4, <2>1 DEF Send
<1>5. CASE Listen \/ Accept \/ AcceptFails \/ RecvFails
  BY <1>5 DEF Listen, Accept, AcceptFails, RecvFails
<1>6. CASE Receive
  <2>1. ~(connections = 0 \/ (clientAt = "sending" /\ connections = 1))
    BY <1>6 DEF Receive, RecvMessage, RecvNothing, SentOnFirst
  <2> QED
    BY <1>6, <2>1 DEF Receive
<1>7. CASE Skip
  BY <1>7 DEF Skip
<1>8. CASE ServerLine
  BY <1>8 DEF ServerLine, Outcomes
<1> QED
  BY <1>1, <1>2, <1>3, <1>4, <1>5, <1>6, <1>7, <1>8 DEF Next, ClientStep, ServerStep

(***************************************************************************)
(* What a line does to the registers, and what a mult or a div puts into   *)
(* hi and low, is up to the registers alone; no other line changes these.  *)
(***************************************************************************)
LEMMA RegistersAlone ==
  ASSUME NEW m \in VmClass, NEW n \in VmClass, m.registers = n.registers, NEW line
  PROVE  /\ After(m, line).registers = After(n, line).registers
         /\ line.op \in TwoRegisters => After(m, line) = After(n, line)
         /\ line.op \notin TwoRegisters =>
              /\ After(m, line).hi = m.hi /\ After(m, line).low = m.low
              /\ After(n, line).hi = n.hi /\ After(n, line).low = n.low
<1>1. /\ m = [registers |-> m.registers, hi |-> m.hi, low |-> m.low]
      /\ n = [registers |-> n.registers, hi |-> n.hi, low |-> n.low]
  BY DEF VmClass
<1>2. PICK g, h1, l1, h2, l2 : /\ m = [registers |-> g, hi |-> h1, low |-> l1]
                               /\ n = [registers |-> g, hi |-> h2, low |-> l2]
  BY <1>1
<1> DEFINE a == g[line.s]
           c == g[line.d]
<1>3. CASE line.op \in Inert
  BY <1>3 DEF After, Inert, TwoRegisters
<1>4. CASE line.op \in ThreeRegisters \cup Immediate /\ line.op \notin Inert
  <2>1. line.op # "mult" /\ line.op # "div" /\ line.op \notin TwoRegisters
    BY <1>4 DEF ThreeRegisters, Immediate, TwoRegisters
  <2> DEFINE value(k) == Signed(Result(line, k.registers[line.s], k.registers[line.t]))
  <2>2. \A k : solve(k, line) = [k EXCEPT !.registers[line.d] = value(k)]
    BY <1>4, <2>1, Zenon DEF solve
  <2>3. value(m) = value(n)
    BY <1>2
  <2> HIDE DEF value
  <2>4. /\ solve(m, line) = [m EXCEPT !.registers[line.d] = value(m)]
        /\ solve(n, line) = [n EXCEPT !.registers[line.d] = value(n)]
    BY <2>2, Zenon
  <2> QED
    BY <1>2, <1>4, <2>1, <2>3, <2>4 DEF After
<1>5. CASE line.op = "mult"
  <2>1. ASSUME NEW k, k.registers = g
        PROVE  solve(k, line) = mult(k, c, a)
    BY <1>5, <2>1 DEF solve, ThreeRegisters, Immediate
  <2>2. solve(m, line) = mult(m, c, a) /\ solve(n, line) = mult(n, c, a)
    BY <1>2, <2>1
  <2> HIDE DEF a, c
  <2>3. /\ After(m, line) = [registers |-> g, hi |-> (c * a) \div Space, low |-> Signed(c * a)]
        /\ After(n, line) = [registers |-> g, hi |-> (c * a) \div Space, low |-> Signed(c * a)]
    BY <1>2, <1>5, <2>2 DEF After, Inert, mult
  <2>4. line.op \in TwoRegisters
    BY <1>5 DEF TwoRegisters
  <2> QED
    BY <2>3, <2>4
<1>6. CASE line.op = "div"
  <2>1. ASSUME NEW k, k.registers = g
        PROVE  solve(k, line) = divi(k, c, a)
    BY <1>6, <2>1 DEF solve, ThreeRegisters, Immediate
  <2>2. solve(m, line) = divi(m, c, a) /\ solve(n, line) = divi(n, c, a)
    BY <1>2, <2>1
  <2> HIDE DEF a, c
  <2> DEFINE low == Signed(Quotient(c, a))
             high == c - a * Quotient(c, a)
  <2>3. /\ divi(m, c, a) = [m EXCEPT !.low = low, !.hi = high]
        /\ divi(n, c, a) = [n EXCEPT !.low = low, !.hi = high]
    BY DiviIsQuotient, Zenon
  <2> HIDE DEF low, high
  <2>4. /\ After(m, line) = [registers |-> g, hi |-> high, low |-> low]
        /\ After(n, line) = [registers |-> g, hi |-> high, low |-> low]
    BY <1>2, <1>6, <2>2, <2>3 DEF After, Inert
  <2>5. line.op \in TwoRegisters
    BY <1>6 DEF TwoRegisters
  <2> QED
    BY <2>4, <2>5
<1>7. CASE line.op \notin ThreeRegisters \cup Immediate \cup {"mult", "div"} \cup Inert
  BY <1>7 DEF After, solve, TwoRegisters
<1> QED
  BY <1>3, <1>4, <1>5, <1>6, <1>7

(* A mult or a div among the lines from b to e. *)
SetsWords(b, e) == \E k \in b .. e : program[k].op \in TwoRegisters

(* So a mult or a div makes the same machine of both. *)
LEMMA WordsAlone ==
  ASSUME NEW m \in VmClass, NEW n \in VmClass, m.registers = n.registers,
         NEW line, line.op \in TwoRegisters
  PROVE  After(m, line) = After(n, line)
BY RegistersAlone

(***************************************************************************)
(* The server on the trail of the client: it has skipped what the client   *)
(* has read, its registers are those the program would have had alone,     *)
(* when no empty line was left uncounted, and so are hi and low once a     *)
(* line has set them.                                                      *)
(***************************************************************************)
Trail ==
  LET alone == Alone(started, program, serverPos)
  IN /\ alone \in VmClass
     /\ server.registers = alone.registers
     /\ <<server.hi, server.low>> =
          IF SetsWords(pc + 1, serverPos) THEN <<alone.hi, alone.low>> ELSE <<0, 0>>

TrailInv == Arrived /\ pc = clientPos => serverPos >= pc /\ Trail

(* A line the server executes is one the program would have executed. *)
LEMMA TrailLine ==
  ASSUME Typed, Trail, received \in Message, received.lines = program, serverPos >= pc,
         ServerLine, serverAt' = "running"
  PROVE  serverPos' >= pc' /\ Trail'
<1> USE DEF input, clientVars
<1> DEFINE line == program[serverPos + 1]
           alone == Alone(started, program, serverPos)
<1>1. /\ UNCHANGED <<input, clientVars>> /\ pc \in Nat
      /\ serverPos' = serverPos + 1 /\ serverPos \in Nat
      /\ "running" \in Outcomes(server, line) /\ server' = After(server, line)
      /\ server \in VmClass
  BY MessageType DEF ServerLine, ServerAfter, After, Outcomes, Typed, TypeOK
<1>2. line \in Lines \cup {Empty, Migrate, Snapshot, Malformed}
  <2>1. Len(program) \in Nat /\ serverPos # Len(program) /\ serverPos \in 0 .. Len(program)
    BY MessageType DEF ServerLine, Typed, TypeOK
  <2>2. serverPos + 1 \in 1 .. Len(program)
    BY <2>1
  <2> QED
    BY <2>2, ProgramType DEF Typed, TypeOK
<1>3. /\ alone \in VmClass /\ server.registers = alone.registers
      /\ <<server.hi, server.low>> =
           IF SetsWords(pc + 1, serverPos) THEN <<alone.hi, alone.low>> ELSE <<0, 0>>
  BY Zenon DEF Trail
<1>4. Alone(started, program, serverPos)' = After(alone, line)
  BY <1>1, AloneStep
<1>5. After(alone, line) \in VmClass
  <2>1. "running" \in Outcomes(alone, line)
    BY <1>1, <1>3 DEF Outcomes, Exits, MayTrap
  <2> QED
    BY <1>2, <1>3, <2>1, AfterType
<1>6. SetsWords(pc + 1, serverPos)' <=>
        SetsWords(pc + 1, serverPos) \/ line.op \in TwoRegisters
  <2>1. (pc + 1 .. serverPos)' = (pc + 1 .. serverPos) \cup {serverPos + 1}
    BY <1>1
  <2> QED
    BY <1>1, <2>1 DEF SetsWords
<1> HIDE DEF alone, line
<1>7. /\ After(server, line).registers = After(alone, line).registers
      /\ line.op \in TwoRegisters =>
           /\ After(server, line).hi = After(alone, line).hi
           /\ After(server, line).low = After(alone, line).low
      /\ line.op \notin TwoRegisters =>
           /\ After(server, line).hi = server.hi /\ After(server, line).low = server.low
           /\ After(alone, line).hi = alone.hi /\ After(alone, line).low = alone.low
  <2>1. server \in VmClass /\ alone \in VmClass /\ server.registers = alone.registers
    BY <1>1, <1>3, Zenon
  <2>2. After(server, line).registers = After(alone, line).registers
    BY <2>1, RegistersAlone
  <2>3. ASSUME line.op \in TwoRegisters
        PROVE  /\ After(server, line).hi = After(alone, line).hi
               /\ After(server, line).low = After(alone, line).low
    <3>1. After(server, line) = After(alone, line)
      BY <2>1, <2>3, WordsAlone
    <3> QED
      BY <3>1, Zenon
  <2>4. ASSUME line.op \notin TwoRegisters
        PROVE  /\ After(server, line).hi = server.hi /\ After(server, line).low = server.low
               /\ After(alone, line).hi = alone.hi /\ After(alone, line).low = alone.low
    BY <2>1, <2>4, RegistersAlone
  <2> QED
    BY <2>2, <2>3, <2>4
<1>8. <<server.hi, server.low>>' =
        IF SetsWords(pc + 1, serverPos)'
        THEN <<After(alone, line).hi, After(alone, line).low>> ELSE <<0, 0>>
  <2>1. server'.hi = After(server, line).hi /\ server'.low = After(server, line).low
    BY <1>1
  <2>2. CASE line.op \in TwoRegisters
    BY <1>6, <1>7, <2>1, <2>2, Zenon
  <2>3. CASE line.op \notin TwoRegisters
    <3>1. SetsWords(pc + 1, serverPos)' <=> SetsWords(pc + 1, serverPos)
      BY <1>6, <2>3, Zenon
    <3>2. <<server.hi, server.low>>' = <<server.hi, server.low>>
      BY <1>7, <2>1, <2>3, Zenon
    <3>3. <<After(alone, line).hi, After(alone, line).low>> = <<alone.hi, alone.low>>
      BY <1>7, <2>3, Zenon
    <3> QED
      BY <1>3, <3>1, <3>2, <3>3, Zenon
  <2> QED
    BY <2>2, <2>3
<1>9. serverPos' >= pc'
  BY <1>1
<1> QED
  BY <1>1, <1>4, <1>5, <1>7, <1>8, <1>9 DEF Trail

LEMMA TrailStep ==
  Typed /\ ClientInv /\ MessageInv /\ TrailInv /\ [Next]_vars => TrailInv'
<1> SUFFICES ASSUME Typed, ClientInv, MessageInv, TrailInv, [Next]_vars,
                    Arrived', pc' = clientPos'
             PROVE  serverPos' >= pc' /\ Trail'
  BY DEF TrailInv
<1> USE DEF input, clientVars, serverVars
<1>1. CASE UNCHANGED vars
  <2>1. Arrived /\ pc = clientPos
    BY <1>1 DEF vars, Arrived, SentOnFirst
  <2> QED
    BY <1>1, <2>1 DEF vars, TrailInv, Trail, SetsWords
<1>2. CASE ClientStep
  <2>1. UNCHANGED serverVars /\ sent = NoMessage
    BY <1>2 DEF ClientStep, ClientLine, Connect, Send, MessageInv
  <2>2. sent' # NoMessage /\ connections' = 1 /\ received' = sent'
    BY DEF Arrived, SentOnFirst
  <2>3. Send /\ clientAt = "sending" /\ connections = 1
    BY <1>2, <2>1, <2>2 DEF ClientStep, ClientLine, Connect, Send
  <2> QED
    BY <2>1, <2>2, <2>3 DEF MessageInv
<1>3. CASE Listen \/ Accept \/ AcceptFails \/ RecvFails \/ Receive
  BY <1>3 DEF Listen, Accept, AcceptFails, RecvFails, Receive, Arrived
<1>4. CASE Skip
  <2>1. /\ UNCHANGED <<input, clientVars, server, received, sent>> /\ serverAt = "skipping"
        /\ serverPos' = Skipped(received.pc)
    BY <1>4 DEF Skip
  <2>2. sent # NoMessage /\ received = sent /\ pc = clientPos
    BY <2>1 DEF Arrived, SentOnFirst
  <2>3. /\ received = [registers |-> client.registers, pc |-> pc, lines |-> program]
        /\ clientAt = "migrated"
        /\ server = [Constructed EXCEPT !.registers = received.registers]
    BY <2>1, <2>2 DEF MessageInv, StateToSend
  <2>4. serverPos' = clientPos /\ clientPos \in Nat
    BY <2>1, <2>2, <2>3, ProgramType DEF Typed, TypeOK, Skipped
  <2>5. client = Alone(started, program, clientPos) /\ client \in VmClass
    BY <2>3 DEF ClientInv, Typed, TypeOK
  <2>6. server.registers = client.registers /\ server.hi = 0 /\ server.low = 0
    BY <2>3 DEF Constructed
  <2>7. ~SetsWords(pc + 1, serverPos)'
    <3>1. pc' + 1 .. serverPos' = {}
      BY <2>1, <2>2, <2>4
    <3> QED
      BY <3>1 DEF SetsWords
  <2>8. serverPos' >= pc'
    BY <2>1, <2>2, <2>4
  <2> QED
    BY <2>1, <2>4, <2>5, <2>6, <2>7, <2>8 DEF Trail
<1>5. CASE ServerLine
  <2>1. UNCHANGED <<input, clientVars, received, sent>> /\ serverAt = "running"
    BY <1>5 DEF ServerLine
  <2>2. Arrived /\ pc = clientPos
    BY <2>1 DEF Arrived, SentOnFirst
  <2>3. serverPos >= pc /\ Trail
    BY <2>2 DEF TrailInv
  <2>4. received \in Message /\ received.lines = program
    BY <2>1, <2>2 DEF Arrived, SentOnFirst, MessageInv, StateToSend, Typed
  <2>5. CASE serverAt' = "running"
    BY <1>5, <2>3, <2>4, <2>5, TrailLine
  <2>6. CASE serverAt' # "running"
    <3>1. UNCHANGED <<server, serverPos>>
      BY <1>5, <2>6 DEF ServerLine, Outcomes, Arrived
    <3> QED
      BY <2>1, <2>3, <3>1 DEF Trail, SetsWords
  <2> QED
    BY <2>5, <2>6
<1> QED
  BY <1>1, <1>2, <1>3, <1>4, <1>5 DEF Next, ServerStep

(***************************************************************************)
(* The registers, the pc and the name of the file are enough for what a    *)
(* program computes in its registers; hi and low are lost in the move, and *)
(* right again after the next mult or div.                                 *)
(***************************************************************************)
THEOREM Resumes == Spec => []MigrationResumes
<1> DEFINE Inv == Typed /\ ClientInv /\ MessageInv /\ TrailInv
<1>1. Init => Inv
  BY TypeInit, ClientInit, MessageInit DEF Init, TrailInv, Arrived
<1>2. Inv /\ [Next]_vars => Inv'
  BY TypeStep, ClientStays, MessageStep, TrailStep
<1>3. Inv => MigrationResumes
  BY DEF TrailInv, Trail, SetsWords, MigrationResumes
<1> QED
  BY <1>1, <1>2, <1>3, PTL DEF Spec

(***************************************************************************)
(* The client executes nothing once its state is sent, and the server      *)
(* nothing before it has received: a step of the program is taken once.    *)
(***************************************************************************)
THEOREM OneSide == Spec => NeverOnBothSides
<1> DEFINE Safe ==
             /\ clientPos' # clientPos => sent = NoMessage
             /\ serverPos' # serverPos => received # NoMessage
<1>1. Init => Typed /\ MessageInv
  BY TypeInit, MessageInit
<1>2. Typed /\ MessageInv /\ [Next]_vars => Typed' /\ MessageInv'
  BY TypeStep, MessageStep
<1>3. Typed /\ MessageInv /\ [Next]_vars => [Safe]_vars
  <2> SUFFICES ASSUME Typed, MessageInv, [Next]_vars
               PROVE  Safe
    OBVIOUS
  <2> USE DEF input, clientVars, serverVars
  <2>1. CASE UNCHANGED vars
    BY <2>1 DEF vars
  <2>2. CASE ClientStep
    BY <2>2 DEF ClientStep, ClientLine, Connect, Send, MessageInv
  <2>3. CASE Listen \/ Accept \/ AcceptFails \/ RecvFails \/ Receive
    BY <2>3 DEF Listen, Accept, AcceptFails, RecvFails, Receive
  <2>4. CASE Skip \/ ServerLine
    <3>1. received \in Message
      BY <2>4 DEF Skip, ServerLine, Typed
    <3> QED
      BY <2>4, <3>1, LegacyMigrationAssumption DEF Skip, ServerLine
  <2> QED
    BY <2>1, <2>2, <2>3, <2>4 DEF Next, ServerStep
<1> QED
  BY <1>1, <1>2, <1>3, PTL DEF Spec, NeverOnBothSides

-----------------------------------------------------------------------------
(* What mult and div leave in hi and low. *)

(* A mult on the registers c and a puts their product into the halves. *)
LEMMA MultIsWhole ==
  ASSUME NEW m \in VmClass, NEW line \in Lines, line.op = "mult"
  PROVE  LET n == After(m, line)
         IN n.hi * Space + Unsigned(n.low) = n.registers[line.d] * n.registers[line.s]
<1>1. /\ m.registers \in [Registers -> Value]
      /\ m = [registers |-> m.registers, hi |-> m.hi, low |-> m.low]
      /\ line.d \in Registers /\ line.s \in Registers
  BY LineType DEF VmClass
<1> DEFINE a == m.registers[line.d]
           b == m.registers[line.s]
<1>2. a \in Int /\ b \in Int
  BY <1>1, SpaceType
<1>3. After(m, line) = mult(m, a, b)
  BY DEF After, Inert, solve, ThreeRegisters, Immediate
<1> HIDE DEF a, b
<1>4. PICK p \in Int : p = a * b
  BY <1>2
<1>5. After(m, line) = [registers |-> m.registers, hi |-> p \div Space, low |-> Signed(p)]
  BY <1>1, <1>3, <1>4 DEF mult
<1>6. Unsigned(Signed(p)) = p % Space
  BY <1>4, SignedKeepsWord
<1>7. p = Space * (p \div Space) + (p % Space) /\ p \div Space \in Int
  BY <1>4, SpaceType, DivMod
<1>8. p = (p \div Space) * Space + Unsigned(Signed(p))
  BY <1>6, <1>7, SpaceType
<1> QED
  BY <1>4, <1>5, <1>8 DEF a, b

(* A div that does not trap leaves quotient and remainder. *)
LEMMA DivIsEuclid ==
  ASSUME NEW m \in VmClass, NEW line \in Lines, line.op = "div", ~Exits(m, line)
  PROVE  LET n == After(m, line)
             a == n.registers[line.d]
             b == n.registers[line.s]
         IN ~MayTrap(n, line) =>
              /\ a = n.low * b + n.hi
              /\ n.hi * n.hi < b * b
              /\ n.hi # 0 => (n.hi < 0) = (a < 0)
<1>1. /\ m.registers \in [Registers -> Value]
      /\ m = [registers |-> m.registers, hi |-> m.hi, low |-> m.low]
      /\ line.d \in Registers /\ line.s \in Registers
  BY LineType DEF VmClass
<1> DEFINE a == m.registers[line.d]
           b == m.registers[line.s]
<1>2. a \in Value /\ b \in Value /\ a \in Int /\ b \in Int /\ b # 0
  BY <1>1, SpaceType DEF Exits
<1>3. After(m, line) = divi(m, a, b)
  BY DEF After, Inert, solve, ThreeRegisters, Immediate
<1>4. MayTrap(m, line) = (a = MinValue /\ b = -1)
  BY DEF MayTrap
<1> HIDE DEF a, b
<1> DEFINE q == Quotient(a, b)
<1>5. q \in Int /\ (~MayTrap(m, line) => q \in Value)
  BY <1>2, <1>4, Euclid
<1>6. PICK r \in 0 .. Abs(b) - 1 : a - b * q = IF a < 0 THEN -r ELSE r
  BY <1>2, Euclid
<1>7. divi(m, a, b) = [m EXCEPT !.low = Signed(q), !.hi = a - b * q]
  BY DiviIsQuotient
<1> HIDE DEF q
<1>8. PICK p \in Int, h \in Int : p = b * q /\ h = a - p
  BY <1>2, <1>5
<1>9. After(m, line) = [registers |-> m.registers, hi |-> h, low |-> Signed(q)]
  BY <1>1, <1>3, <1>7, <1>8
<1>10. MayTrap(After(m, line), line) = MayTrap(m, line)
  BY <1>9 DEF MayTrap
<1>11. ~MayTrap(m, line) => a = Signed(q) * b + h
  <2>1. ~MayTrap(m, line) => Signed(q) = q
    BY <1>5, SignedKeepsWord
  <2>2. a = q * b + h
    BY <1>2, <1>5, <1>8
  <2> QED
    BY <2>1, <2>2
<1>12. h = (IF a < 0 THEN -r ELSE r)
  BY <1>2, <1>6, <1>8
<1>13. h * h < b * b
  <2>1. PICK c \in Nat : c = Abs(b) /\ (b = c \/ b = -c)
    BY <1>2 DEF Abs
  <2>2. r \in Nat /\ r < c
    BY <1>6, <2>1
  <2>3. ASSUME NEW y \in Nat, NEW z \in Nat, y < z
        PROVE  y * y < z * z
    <3>1. y * y <= y * z /\ y * z < z * z
      BY <2>3
    <3> QED
      BY <2>3, <3>1
  <2>4. r * r < c * c
    BY <2>2, <2>3
  <2>5. h * h = r * r /\ b * b = c * c
    BY <1>12, <2>1, <2>2
  <2> QED
    BY <2>4, <2>5
<1>14. h # 0 => (h < 0) = (a < 0)
  BY <1>2, <1>6, <1>12 DEF Abs
<1> QED
  BY <1>9, <1>10, <1>11, <1>13, <1>14 DEF a, b

(* A client that goes on after an attempt to migrate last read a MIGRATE. *)
WordsInv ==
  /\ clientAt \in {"connecting", "sending"} =>
       clientPos # 0 /\ program[clientPos].op = "MIGRATE"
  /\ ProductIsWhole
  /\ DivisionIsEuclid

LEMMA WordsStep == Typed /\ WordsInv /\ [Next]_vars => WordsInv'
<1> SUFFICES ASSUME Typed, WordsInv, [Next]_vars
             PROVE  WordsInv'
  OBVIOUS
<1> USE DEF input, clientVars, serverVars
<1>1. CASE UNCHANGED <<input, clientVars>>
  BY <1>1 DEF WordsInv, ProductIsWhole, DivisionIsEuclid, Executed, MayTrap
<1>2. CASE ClientLine
  <2>1. CASE clientPos = Len(program)
    BY <1>2, <2>1 DEF ClientLine, WordsInv, ProductIsWhole, DivisionIsEuclid, Executed
  <2>2. CASE clientPos # Len(program)
    <3> DEFINE line == program[clientPos + 1]
    <3>1. /\ clientPos' = clientPos + 1 /\ clientPos + 1 \in 1 .. Len(program)
          /\ program' = program /\ client \in VmClass
          /\ clientAt' \in IF line.op = "MIGRATE" THEN {"connecting"} ELSE Outcomes(client, line)
          /\ client' = IF clientAt' = "running" THEN After(client, line) ELSE client
      BY <1>2, <2>2, ProgramType DEF ClientLine, Typed, TypeOK
    <3>2. line \in Lines \cup {Empty, Migrate, Snapshot, Malformed}
      BY <3>1, ProgramType DEF Typed, TypeOK
    <3>3. line.op \in {"mult", "div"} => line \in Lines
      BY <3>2 DEF Empty, Migrate, Snapshot, Malformed
    <3>4. ProductIsWhole'
      <4> SUFFICES ASSUME Executed("mult")'
                   PROVE  client'.hi * Space + Unsigned(client'.low)
                            = client'.registers[line.d] * client'.registers[line.s]
        BY <3>1 DEF ProductIsWhole
      <4>1. line.op = "mult" /\ client' = After(client, line)
        BY <3>1 DEF Executed
      <4> QED
        BY <3>1, <3>3, <4>1, MultIsWhole
    <3>5. DivisionIsEuclid'
      <4> DEFINE a == client'.registers[line.d]
                 b == client'.registers[line.s]
      <4> SUFFICES ASSUME Executed("div")', ~MayTrap(client', line)
                   PROVE  /\ a = client'.low * b + client'.hi
                          /\ client'.hi * client'.hi < b * b
                          /\ client'.hi # 0 => (client'.hi < 0) = (a < 0)
        BY <3>1 DEF DivisionIsEuclid
      <4>1. line.op = "div" /\ client' = After(client, line) /\ ~Exits(client, line)
        BY <3>1 DEF Executed, Outcomes, Inert
      <4> QED
        BY <3>1, <3>3, <4>1, DivIsEuclid
    <3>6. clientAt' \in {"connecting", "sending"} => line.op = "MIGRATE"
      BY <3>1 DEF Outcomes
    <3> QED
      BY <3>1, <3>4, <3>5, <3>6 DEF WordsInv
  <2> QED
    BY <2>1, <2>2
<1>3. CASE Connect \/ Send
  <2>1. program[clientPos].op = "MIGRATE" /\ clientPos' = clientPos /\ program' = program
    BY <1>3 DEF Connect, Send, WordsInv
  <2>2. clientPos # 0
    BY <1>3 DEF Connect, Send, WordsInv
  <2> QED
    BY <2>1, <2>2 DEF WordsInv, ProductIsWhole, DivisionIsEuclid, Executed
<1>4. CASE Listen \/ ServerStep \/ AcceptFails \/ RecvFails
  BY <1>1, <1>4
  DEF Listen, ServerStep, Accept, AcceptFails, RecvFails, Receive, Skip, ServerLine
<1> QED
  BY <1>1, <1>2, <1>3, <1>4 DEF Next, ClientStep, vars

LEMMA WordsInit == Init => WordsInv
BY DEF Init, WordsInv, ProductIsWhole, DivisionIsEuclid, Executed

(* The halves of mult are the product, for every width and every sign. *)
THEOREM WholeProduct == Spec => []ProductIsWhole
<1>1. WordsInv => ProductIsWhole
  BY DEF WordsInv
<1> QED
  BY <1>1, TypeInit, WordsInit, TypeStep, WordsStep, PTL DEF Spec

(* div rounds towards zero, but for the one quotient that does not fit. *)
THEOREM EuclideanDivision == Spec => []DivisionIsEuclid
<1>1. WordsInv => DivisionIsEuclid
  BY DEF WordsInv
<1> QED
  BY <1>1, TypeInit, WordsInit, TypeStep, WordsStep, PTL DEF Spec

=============================================================================
