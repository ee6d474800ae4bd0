------------------------- MODULE SnapshotFileProofs -------------------------
(***************************************************************************)
(* Proofs about SnapshotFile, for snapshots of any size and content.       *)
(***************************************************************************)
EXTENDS SnapshotFile, SequenceTheorems, WellFoundedInduction, TLAPS

(* What was loaded last is what Load makes of the file. *)
FileInv ==
  /\ last \in Objects \cup {None}
  /\ disk # None => last \in Objects
  /\ WasRead =>
       /\ disk # None /\ given \in Objects
       /\ \/ answer = "thrown" /\ SizeGot(given) > MaxMemory
          \/ answer = "true" /\ object = Loaded(given, MemoryGot(given))
       /\ object.numbers = [k \in 1 .. NumberCount |-> Got(k + 1, given.numbers[k])]

(* A value Load reads back as it was written. *)
Sound(k, v) == v \in Int /\ Fits(k, v) /\ (Unsigned(k) => v >= 0)

LEMMA SoundIsKept ==
  ASSUME NEW k, NEW v, Sound(k, v)
  PROVE  Converted(k, v) = v
BY DEF Sound, Converted

(* The beginning of a number that fits fits. *)
LEMMA WithinIsSound ==
  ASSUME NEW k, NEW v, Sound(k, v), NEW w, WithinOf(v, w)
  PROVE  Sound(k, w)
<1>1. SizeSpace \in Nat /\ IntHalf \in Nat
  BY SnapshotFileAssumption
<1>2. w \in Int /\ v \in Int
  BY DEF WithinOf, Sound
<1>3. CASE Unsigned(k)
  BY <1>1, <1>2, <1>3 DEF Sound, Fits, WithinOf, Magnitude
<1>4. CASE ~Unsigned(k)
  BY <1>1, <1>2, <1>4 DEF Sound, Fits, WithinOf
<1> QED
  BY <1>3, <1>4

(* A byte is not changed by the cast to one. *)
LEMMA ByteIsKept ==
  ASSUME NEW v \in 0 .. ByteSpace - 1
  PROVE  v % ByteSpace = v
<1>1. ByteSpace \in Nat \ {0}
  BY SnapshotFileAssumption
<1>2. PICK q \in Int, r \in 0 .. ByteSpace - 1 :
        v = ByteSpace * q + r /\ r = v % ByteSpace
  <2>1. /\ v = ByteSpace * (v \div ByteSpace) + (v % ByteSpace)
        /\ v \div ByteSpace \in Int /\ v % ByteSpace \in 0 .. ByteSpace - 1
    BY <1>1
  <2> QED
    BY <2>1
<1>3. q = 0
  <2>1. CASE q >= 1
    <3>1. ByteSpace * q >= ByteSpace
      BY <1>1, <2>1
    <3> QED
      BY <1>1, <1>2, <3>1
  <2>2. CASE q <= -1
    <3>1. ByteSpace * q <= -ByteSpace
      BY <1>1, <2>2
    <3> QED
      BY <1>1, <1>2, <3>1
  <2> QED
    BY <1>2, <2>1, <2>2
<1> QED
  BY <1>1, <1>2, <1>3

(***************************************************************************)
(* Two sequences one after the other, without the sequence they are in.    *)
(***************************************************************************)
LEMMA Concat ==
  ASSUME NEW T, NEW f \in Seq(T), NEW g \in Seq(T)
  PROVE  /\ f \o g \in Seq(T)
         /\ Len(f) \in Nat /\ Len(g) \in Nat
         /\ Len(f \o g) = Len(f) + Len(g)
         /\ \A i \in 1 .. Len(f) : (f \o g)[i] = f[i]
         /\ \A i \in 1 .. Len(g) : (f \o g)[Len(f) + i] = g[i]
<1>1. /\ f \o g \in Seq(T) /\ Len(f \o g) = Len(f) + Len(g)
      /\ Len(f) \in Nat /\ Len(g) \in Nat
      /\ \A i \in 1 .. Len(f) + Len(g) :
           (f \o g)[i] = IF i <= Len(f) THEN f[i] ELSE g[i - Len(f)]
  BY ConcatProperties, LenProperties
<1> DEFINE h == f \o g
           m == Len(f)
           n == Len(g)
<1>2. \A i \in 1 .. m + n : h[i] = IF i <= m THEN f[i] ELSE g[i - m]
  BY <1>1, Zenon
<1>3. m \in Nat /\ n \in Nat
  BY <1>1
<1> HIDE DEF h, m, n
<1>4. ASSUME NEW i \in 1 .. m PROVE h[i] = f[i]
  <2>1. i \in 1 .. m + n /\ i <= m
    BY <1>3
  <2> QED
    BY <1>2, <2>1, Zenon
<1>5. ASSUME NEW i \in 1 .. n PROVE h[m + i] = g[i]
  <2>1. m + i \in 1 .. m + n /\ ~(m + i <= m) /\ (m + i) - m = i
    BY <1>3
  <2>2. h[m + i] = g[(m + i) - m]
    BY <1>2, <2>1, Zenon
  <2> QED
    BY <2>1, <2>2, Zenon
<1> QED
  BY <1>1, <1>4, <1>5, Zenon DEF h, m, n

(***************************************************************************)
(* Where Save writes what: the first line of the name, the rest of it, the *)
(* numbers, the size, the bytes.                                           *)
(***************************************************************************)
Tokens == Lines \cup Int \cup {Unreadable}

LEMMA Layout ==
  ASSUME NEW s \in Objects, NEW n \in Nat, n = Len(Rest(s.vmName))
  PROVE  /\ Rest(s.vmName) \in Seq(Int \cup {Unreadable})
         /\ Fields(s) \in Seq(Tokens)
         /\ Len(Fields(s)) = n + 1 + NumberCount + 1 + Len(s.memoryBytes)
         /\ Fields(s)[1] = s.vmName.line
         /\ \A k \in 1 .. n : Fields(s)[1 + k] = Rest(s.vmName)[k]
         /\ \A k \in 1 .. NumberCount : Fields(s)[n + 1 + k] = s.numbers[k]
         /\ Fields(s)[n + 1 + NumberCount + 1] = Len(s.memoryBytes)
         /\ \A b \in 1 .. Len(s.memoryBytes) :
              Fields(s)[n + 1 + NumberCount + 1 + b] = s.memoryBytes[b]
<1> DEFINE name == s.vmName
<1>1. /\ name \in Name
      /\ s.numbers \in [1 .. NumberCount -> Int]
      /\ s.memoryBytes \in Seq(0 .. ByteSpace - 1)
      /\ NumberCount \in Nat
  BY SnapshotFileAssumption, ObjectsAssumption DEF VmSnapshot
<1>2. name.line \in Lines /\ Rest(name) \in Seq(Int \cup {Unreadable})
  BY <1>1 DEF Name, Rest
<1> DEFINE A == <<name.line>>
           R == Rest(name)
           N == s.numbers
           S == <<Len(s.memoryBytes)>>
           M == s.memoryBytes
<1>3. A \in Seq(Tokens) /\ Len(A) = 1 /\ A[1] = name.line
  BY <1>2 DEF Tokens
<1>4. R \in Seq(Tokens) /\ Len(R) = n
  <2>1. \A i \in 1 .. Len(R) : R[i] \in Tokens
    BY <1>2 DEF Tokens
  <2> QED
    BY <1>2, <2>1 DEF Tokens
<1>5. N \in Seq(Tokens) /\ Len(N) = NumberCount
  BY <1>1 DEF Tokens
<1>6. M \in Seq(Tokens) /\ Len(M) \in Nat
  BY <1>1, SnapshotFileAssumption DEF Tokens
<1>7. S \in Seq(Tokens) /\ Len(S) = 1 /\ S[1] = Len(M)
  BY <1>6 DEF Tokens
<1>8. Fields(s) = ((((A \o R) \o N) \o S) \o M)
  BY DEF Fields, NameFields
<1> DEFINE B == A \o R
           C == B \o N
           D == C \o S
           F == D \o M
<1>9. /\ B \in Seq(Tokens) /\ Len(B) = 1 + n
      /\ B[1] = name.line /\ \A k \in 1 .. n : B[1 + k] = R[k]
  <2> HIDE DEF A, R
  <2>1. /\ A \o R \in Seq(Tokens) /\ Len(A \o R) = Len(A) + Len(R)
        /\ \A i \in 1 .. Len(A) : (A \o R)[i] = A[i]
        /\ \A i \in 1 .. Len(R) : (A \o R)[Len(A) + i] = R[i]
    BY <1>3, <1>4, Concat
  <2>2. 1 \in 1 .. Len(A)
    BY <1>3
  <2> HIDE DEF B
  <2> QED
    BY <1>3, <1>4, <2>1, <2>2, Zenon DEF B
<1> HIDE DEF A, B, R
<1>10. /\ C \in Seq(Tokens) /\ Len(C) = 1 + n + NumberCount
       /\ \A i \in 1 .. 1 + n : C[i] = B[i]
       /\ \A k \in 1 .. NumberCount : C[1 + n + k] = N[k]
  <2> HIDE DEF N
  <2>1. N \in Seq(Tokens) /\ B \in Seq(Tokens)
    BY <1>5, <1>9
  <2>2. /\ B \o N \in Seq(Tokens) /\ Len(B \o N) = Len(B) + Len(N)
        /\ \A i \in 1 .. Len(B) : (B \o N)[i] = B[i]
        /\ \A i \in 1 .. Len(N) : (B \o N)[Len(B) + i] = N[i]
    BY <2>1, Concat
  <2>3. Len(N) = NumberCount /\ Len(B) = 1 + n
    BY <1>5, <1>9
  <2> HIDE DEF C
  <2> QED
    BY <2>2, <2>3, Zenon DEF C
<1> HIDE DEF C, N
<1>11. /\ D \in Seq(Tokens) /\ Len(D) = 1 + n + NumberCount + 1
       /\ \A i \in 1 .. 1 + n + NumberCount : D[i] = C[i]
       /\ D[1 + n + NumberCount + 1] = Len(M)
  <2> HIDE DEF S, M
  <2>0. C \in Seq(Tokens) /\ S \in Seq(Tokens)
    BY <1>7, <1>10
  <2>1. /\ C \o S \in Seq(Tokens) /\ Len(C \o S) = Len(C) + Len(S)
        /\ \A i \in 1 .. Len(C) : (C \o S)[i] = C[i]
        /\ \A i \in 1 .. Len(S) : (C \o S)[Len(C) + i] = S[i]
    BY <2>0, Concat
  <2>2. 1 \in 1 .. Len(S) /\ Len(S) = 1 /\ Len(C) = 1 + n + NumberCount /\ S[1] = Len(M)
    BY <1>7, <1>10
  <2> HIDE DEF D
  <2> QED
    BY <2>1, <2>2, Zenon DEF D
<1> HIDE DEF D, S
<1>12. /\ F \in Seq(Tokens) /\ Len(F) = 1 + n + NumberCount + 1 + Len(M)
       /\ \A i \in 1 .. 1 + n + NumberCount + 1 : F[i] = D[i]
       /\ \A b \in 1 .. Len(M) : F[1 + n + NumberCount + 1 + b] = M[b]
  <2> HIDE DEF M
  <2>0. D \in Seq(Tokens) /\ M \in Seq(Tokens)
    BY <1>6, <1>11, Zenon
  <2>1. Len(D) = 1 + n + NumberCount + 1
    BY <1>11, Zenon
  <2>2. /\ D \o M \in Seq(Tokens) /\ Len(D \o M) = Len(D) + Len(M)
        /\ \A i \in 1 .. Len(D) : (D \o M)[i] = D[i]
        /\ \A i \in 1 .. Len(M) : (D \o M)[Len(D) + i] = M[i]
    BY <2>0, Concat, SMTT(30)
  <2> HIDE DEF F
  <2> QED
    BY <2>1, <2>2, Zenon DEF F
<1>13. Fields(s) = F
  BY <1>8 DEF B, C, D
<1> HIDE DEF F, M
<1>14. 1 + n = n + 1
  OBVIOUS
<1>15. /\ 1 \in 1 .. 1 + n
       /\ \A i \in 1 .. 1 + n :
            i \in 1 .. 1 + n + NumberCount /\ i \in 1 .. 1 + n + NumberCount + 1
       /\ \A k \in 1 .. n : 1 + k \in 1 .. 1 + n
       /\ \A k \in 1 .. NumberCount :
            /\ 1 + n + k \in 1 .. 1 + n + NumberCount
            /\ 1 + n + k \in 1 .. 1 + n + NumberCount + 1
       /\ 1 + n + NumberCount + 1 \in 1 .. 1 + n + NumberCount + 1
  BY <1>1
<1>16. /\ F[1] = name.line
       /\ \A k \in 1 .. n : F[1 + k] = R[k]
       /\ \A k \in 1 .. NumberCount : F[1 + n + k] = N[k]
       /\ F[1 + n + NumberCount + 1] = Len(M)
  <2>1. \A i \in 1 .. 1 + n : F[i] = B[i]
    BY <1>10, <1>11, <1>12, <1>15, Zenon
  <2>2. F[1] = name.line /\ \A k \in 1 .. n : F[1 + k] = R[k]
    BY <1>9, <1>15, <2>1, Zenon
  <2>3. ASSUME NEW k \in 1 .. NumberCount PROVE F[1 + n + k] = N[k]
    BY <1>10, <1>11, <1>12, <1>15, Zenon
  <2>4. F[1 + n + NumberCount + 1] = Len(M)
    BY <1>11, <1>12, <1>15, Zenon
  <2> QED
    BY <2>2, <2>3, <2>4, Zenon
<1> QED
  BY <1>2, <1>12, <1>13, <1>14, <1>16, Zenon DEF M, N, R

LEMMA BytesAreBytes ==
  ASSUME NEW s \in Objects, NEW b \in 1 .. Len(s.memoryBytes)
  PROVE  s.memoryBytes[b] \in 0 .. ByteSpace - 1
<1>1. s.memoryBytes \in Seq(0 .. ByteSpace - 1)
  BY ObjectsAssumption DEF VmSnapshot
<1> QED
  BY <1>1, ElementOfSeq, Zenon

(* Without a rest of the name everything stands where Load expects it. *)
LEMMA LayoutStraight ==
  ASSUME NEW s \in Objects, Rest(s.vmName) = <<>>
  PROVE  /\ Len(Fields(s)) = NumberCount + 2 + Len(s.memoryBytes)
         /\ Fields(s)[1] = s.vmName.line
         /\ \A k \in 1 .. NumberCount : Fields(s)[k + 1] = s.numbers[k]
         /\ Fields(s)[NumberCount + 2] = Len(s.memoryBytes)
         /\ \A b \in 1 .. Len(s.memoryBytes) :
              Fields(s)[NumberCount + 2 + b] = s.memoryBytes[b]
         /\ \A k \in 2 .. Len(Fields(s)) : Sound(k, Fields(s)[k])
<1>1. /\ s.numbers \in [1 .. NumberCount -> Int]
      /\ s.memoryBytes \in Seq(0 .. ByteSpace - 1)
      /\ NumberCount \in Nat /\ Len(s.memoryBytes) \in Nat
      /\ Len(s.memoryBytes) <= MaxMemory
      /\ \A k \in 1 .. NumberCount :
           Fits(k + 1, s.numbers[k]) /\ (k = 1 => s.numbers[k] >= 0)
  BY SnapshotFileAssumption, ObjectsAssumption DEF VmSnapshot
<1>2. 0 = Len(Rest(s.vmName))
  OBVIOUS
<1> DEFINE f == Fields(s)
           len == Len(s.memoryBytes)
<1>3. /\ Len(f) = 0 + 1 + NumberCount + 1 + len
      /\ f[1] = s.vmName.line
      /\ \A k \in 1 .. NumberCount : f[0 + 1 + k] = s.numbers[k]
      /\ f[0 + 1 + NumberCount + 1] = len
      /\ \A b \in 1 .. len : f[0 + 1 + NumberCount + 1 + b] = s.memoryBytes[b]
  BY <1>2, Layout, SMTT(30)
<1>4. /\ 0 + 1 + NumberCount + 1 = NumberCount + 2
      /\ \A k \in 1 .. NumberCount : 0 + 1 + k = k + 1
  BY <1>1
<1> HIDE DEF f, len
<1>5. /\ Len(f) = NumberCount + 2 + len
      /\ \A k \in 1 .. NumberCount : f[k + 1] = s.numbers[k]
      /\ f[NumberCount + 2] = len
      /\ \A b \in 1 .. len : f[NumberCount + 2 + b] = s.memoryBytes[b]
  BY <1>3, <1>4
<1>6. ASSUME NEW k \in 2 .. Len(f) PROVE Sound(k, f[k])
  <2>1. k \in 2 .. NumberCount + 2 + len /\ len \in Nat
    BY <1>1, <1>5 DEF len
  <2>2. CASE k \in 2 .. NumberCount + 1
    <3>1. k - 1 \in 1 .. NumberCount /\ (k - 1) + 1 = k
      BY <1>1, <2>2
    <3>2. f[k] = s.numbers[k - 1] /\ Fits(k, s.numbers[k - 1]) /\ s.numbers[k - 1] \in Int
          /\ (k - 1 = 1 => s.numbers[k - 1] >= 0)
      BY <1>1, <1>5, <3>1
    <3>3. Unsigned(k) => k - 1 = 1
      BY <1>1, <2>2 DEF Unsigned
    <3> QED
      BY <3>2, <3>3 DEF Sound
  <2>3. CASE k = NumberCount + 2
    <3>1. f[k] = len /\ len \in 0 .. SizeSpace - 1
      BY <1>1, <1>5, <2>3, SnapshotFileAssumption DEF len
    <3> QED
      BY <2>3, <3>1, SnapshotFileAssumption DEF Sound, Fits, Unsigned, Magnitude
  <2>4. CASE k > NumberCount + 2
    <3>1. PICK b \in 1 .. len : k = NumberCount + 2 + b
      <4>1. k - (NumberCount + 2) \in 1 .. len
        BY <1>1, <2>1, <2>4
      <4> QED
        BY <1>1, <2>1, <4>1
    <3>2. f[k] = s.memoryBytes[b] /\ s.memoryBytes[b] \in 0 .. ByteSpace - 1
      <4>1. f[k] = s.memoryBytes[b]
        BY <1>5, <3>1
      <4>2. b \in 1 .. Len(s.memoryBytes)
        BY DEF len
      <4> QED
        BY <4>1, <4>2, BytesAreBytes
    <3>3. ~Unsigned(k)
      BY <1>1, <2>1, <2>4 DEF Unsigned
    <3>4. f[k] \in Int /\ f[k] \in -IntHalf .. IntHalf - 1
      BY <3>2, SnapshotFileAssumption
    <3> QED
      BY <3>3, <3>4 DEF Sound, Fits
  <2> QED
    BY <1>1, <2>1, <2>2, <2>3, <2>4
<1> QED
  BY <1>3, <1>5, <1>6, Zenon DEF f, len

(* Sound values are read, and are no Unreadable text. *)
LEMMA SoundIsReadable ==
  ASSUME NEW k, NEW v, Sound(k, v)
  PROVE  v # Unreadable /\ Fits(k, v)
BY SnapshotFileAssumption DEF Sound

(* The places of a numbers, a size and b bytes after a name. *)
LEMMA Positions ==
  ASSUME NEW a \in Nat, NEW b \in Nat
  PROVE  /\ a + 2 + b \in Nat \ {0}
         /\ \A n \in 1 .. a : n + 1 \in 1 .. a + 2 + b /\ n + 1 \in 2 .. a + 2 + b
         /\ a + 2 \in 2 .. a + 2 + b
         /\ \A n \in 1 .. b : a + 2 + n \in 2 .. a + 2 + b
OBVIOUS

(* A record with another name and page table. *)
LEMMA Renamed ==
  ASSUME NEW s \in VmSnapshot, NEW x, NEW y
  PROVE  [s EXCEPT !.vmName = x, !.pageTable = y] =
           [vmName |-> x, numbers |-> s.numbers, pageTable |-> y,
            memoryBytes |-> s.memoryBytes]
<1>1. [s EXCEPT !.vmName = x] =
        [vmName |-> x, numbers |-> s.numbers, pageTable |-> s.pageTable,
         memoryBytes |-> s.memoryBytes]
  BY DEF VmSnapshot
<1> DEFINE r == [s EXCEPT !.vmName = x]
<1>2. /\ r = [vmName |-> r.vmName, numbers |-> r.numbers, pageTable |-> r.pageTable,
              memoryBytes |-> r.memoryBytes]
      /\ r.vmName = x /\ r.numbers = s.numbers /\ r.memoryBytes = s.memoryBytes
  BY <1>1
<1> HIDE DEF r
<1>3. [r EXCEPT !.pageTable = y] =
        [vmName |-> r.vmName, numbers |-> r.numbers, pageTable |-> y,
         memoryBytes |-> r.memoryBytes]
  BY <1>2
<1> QED
  BY <1>2, <1>3, Zenon DEF r

(* How many fields there are after a name with n in its rest. *)
LEMMA Counts ==
  ASSUME NEW n \in Nat, NEW a \in Nat, NEW b \in Nat
  PROVE  1 + 1 = 2 /\ n + 1 + a + 1 + b \in Nat /\ n + 1 + a + 1 + b >= 2
OBVIOUS

(* Load of a file Save completed. *)
LEMMA LoadedWhole ==
  ASSUME NEW s \in Objects, NEW o \in Objects, Rest(s.vmName) = <<>>,
         disk = Fields(s)
  PROVE  /\ SizeGot(o) \in 0 .. MaxMemory
         /\ Loaded(o, MemoryGot(o)) =
              [s EXCEPT !.vmName = [line |-> s.vmName.line, rest |-> NoBreak],
                        !.pageTable = o.pageTable]
<1>1. /\ s \in VmSnapshot /\ o \in VmSnapshot /\ NumberCount \in Nat
      /\ Len(s.memoryBytes) \in Nat /\ Len(s.memoryBytes) <= MaxMemory
  BY SnapshotFileAssumption, ObjectsAssumption DEF VmSnapshot
<1>2. /\ Len(disk) = NumberCount + 2 + Len(s.memoryBytes)
      /\ disk[1] = s.vmName.line
      /\ \A k \in 1 .. NumberCount : disk[k + 1] = s.numbers[k]
      /\ disk[NumberCount + 2] = Len(s.memoryBytes)
      /\ \A b \in 1 .. Len(s.memoryBytes) : disk[NumberCount + 2 + b] = s.memoryBytes[b]
      /\ \A k \in 2 .. Len(disk) : Sound(k, disk[k])
  BY LayoutStraight
<1>3. /\ Len(disk) \in Nat \ {0}
      /\ \A n \in 1 .. NumberCount : n + 1 \in 2 .. Len(disk)
      /\ NumberCount + 2 \in 2 .. Len(disk)
      /\ \A b \in 1 .. Len(s.memoryBytes) : NumberCount + 2 + b \in 2 .. Len(disk)
  BY <1>1, <1>2, Positions, Zenon
<1>4. ASSUME NEW k \in 2 .. Len(disk), NEW value PROVE Got(k, value) = disk[k]
  <2>1. Len(disk) \in Nat
    BY <1>3, Zenon
  <2>2. /\ ~(k > Len(disk)) /\ disk[k] # Unreadable /\ Converted(k, disk[k]) = disk[k]
    BY <1>2, <2>1, SoundIsKept, SoundIsReadable
  <2>3. \A j \in 2 .. k - 1 : Readable(j)
    <3>1. \A j \in 2 .. k - 1 : j \in 2 .. Len(disk)
      BY <2>1
    <3> QED
      BY <1>2, <3>1, SoundIsReadable DEF Readable
  <2> QED
    BY <2>2, <2>3 DEF Got
<1>5. NameGot = [line |-> s.vmName.line, rest |-> NoBreak]
  <2>1. Len(disk) # 0
    BY <1>3
  <2>2. disk # <<>>
    BY <2>1
  <2> QED
    BY <1>2, <2>2 DEF NameGot
<1>6. \A k \in 1 .. NumberCount : Got(k + 1, o.numbers[k]) = s.numbers[k]
  BY <1>2, <1>3, <1>4
<1>7. SizeGot(o) = Len(s.memoryBytes)
  BY <1>4, <1>2, <1>3 DEF SizeGot
<1>8. \A b \in 1 .. Len(s.memoryBytes) :
        Got(NumberCount + 2 + b, 0) % ByteSpace = s.memoryBytes[b]
  <2> SUFFICES ASSUME NEW b \in 1 .. Len(s.memoryBytes)
               PROVE  Got(NumberCount + 2 + b, 0) % ByteSpace = s.memoryBytes[b]
    OBVIOUS
  <2>1. NumberCount + 2 + b \in 2 .. Len(disk)
    BY <1>3, Zenon
  <2>2. Got(NumberCount + 2 + b, 0) = s.memoryBytes[b]
    BY <1>4, <1>2, <2>1
  <2>3. s.memoryBytes[b] \in 0 .. ByteSpace - 1
    BY BytesAreBytes
  <2> QED
    BY <2>2, <2>3, ByteIsKept
<1>9. [k \in 1 .. NumberCount |-> Got(k + 1, o.numbers[k])] = s.numbers
  BY <1>1, <1>6 DEF VmSnapshot
<1>10. MemoryGot(o) = s.memoryBytes
  <2>1. s.memoryBytes = [b \in 1 .. Len(s.memoryBytes) |-> s.memoryBytes[b]]
    BY <1>1 DEF VmSnapshot
  <2>2. MemoryGot(o) = [b \in 1 .. Len(s.memoryBytes) |-> s.memoryBytes[b]]
    BY <1>7, <1>8 DEF MemoryGot
  <2> QED
    BY <2>1, <2>2, Zenon
<1>11. Loaded(o, MemoryGot(o)) =
         [vmName |-> [line |-> s.vmName.line, rest |-> NoBreak], numbers |-> s.numbers,
          pageTable |-> o.pageTable, memoryBytes |-> s.memoryBytes]
  BY <1>5, <1>9, <1>10 DEF Loaded
<1>12. SizeGot(o) \in 0 .. MaxMemory
  BY <1>1, <1>7, SnapshotFileAssumption
<1>13. s \in VmSnapshot =>
         [s EXCEPT !.vmName = [line |-> s.vmName.line, rest |-> NoBreak],
                   !.pageTable = o.pageTable] =
           [vmName |-> [line |-> s.vmName.line, rest |-> NoBreak], numbers |-> s.numbers,
            pageTable |-> o.pageTable, memoryBytes |-> s.memoryBytes]
  BY Renamed
<1> QED
  BY <1>1, <1>11, <1>12, <1>13, Zenon

-----------------------------------------------------------------------------

(* Only Save changes the file, and it forgets what was loaded before. *)
LEMMA FileStep == FileInv /\ [Next]_vars => FileInv'
<1> SUFFICES ASSUME FileInv, [Next]_vars PROVE FileInv'
  OBVIOUS
<1>1. CASE SaveFails
  BY <1>1 DEF SaveFails, NothingLoaded, WasRead, FileInv
<1>2. ASSUME NEW s \in Objects, Save(s) PROVE FileInv'
  BY <1>2 DEF Save, NothingLoaded, WasRead, FileInv
<1>4. ASSUME NEW s \in Objects, Load(s) PROVE FileInv'
  <2>1. /\ disk # None /\ disk' = disk /\ last' = last /\ given' = s /\ answer' = "true"
        /\ object' = Loaded(s, MemoryGot(s))
    BY <1>4 DEF Load
  <2>2. Loaded(s, MemoryGot(s)).numbers = [k \in 1 .. NumberCount |-> Got(k + 1, s.numbers[k])]
    BY DEF Loaded
  <2>3. object' = Loaded(s, MemoryGot(s))'
    BY <2>1 DEF Loaded, NameGot, MemoryGot, SizeGot, Got, Readable
  <2>4. object'.numbers = [k \in 1 .. NumberCount |-> Got(k + 1, s.numbers[k])]'
    BY <2>1, <2>2 DEF Got, Readable
  <2> QED
    BY <2>1, <2>3, <2>4 DEF FileInv, WasRead
<1>5. ASSUME NEW s \in Objects, LoadThrows(s) PROVE FileInv'
  <2>1. /\ disk # None /\ disk' = disk /\ last' = last /\ given' = s /\ answer' = "thrown"
        /\ object' = Loaded(s, s.memoryBytes) /\ SizeGot(s) > MaxMemory
    BY <1>5 DEF LoadThrows
  <2>2. SizeGot(s)' = SizeGot(s)
    BY <2>1 DEF SizeGot, Got, Readable
  <2>3. object'.numbers = [k \in 1 .. NumberCount |-> Got(k + 1, s.numbers[k])]'
    BY <2>1 DEF Loaded, Got, Readable
  <2> QED
    BY <2>1, <2>2, <2>3 DEF FileInv, WasRead
<1>6. ASSUME NEW s \in Objects, LoadFails(s) PROVE FileInv'
  BY <1>6 DEF LoadFails, FileInv, WasRead
<1>7. CASE UNCHANGED vars
  BY <1>7 DEF vars, FileInv, WasRead, Loaded, NameGot, MemoryGot, SizeGot, Got, Readable
<1> QED
  BY <1>1, <1>2, <1>4, <1>5, <1>6, <1>7 DEF Next

(***************************************************************************)
(* Load gives back what Save wrote, for memories of any size, whatever the *)
(* object held before: pc, hi, lo and the registers in their order, and    *)
(* all of the memory, but not the page table.                              *)
(***************************************************************************)
THEOREM WholeFile == Spec => []WholeFileRestores
<1>1. Init => FileInv
  BY DEF Init, FileInv, WasRead
<1>2. FileInv /\ [Next]_vars => FileInv'
  BY FileStep
<1>3. FileInv => WholeFileRestores
  <2> SUFFICES ASSUME FileInv, WasRead, disk = Fields(last), Rest(last.vmName) = <<>>
               PROVE  /\ answer = "true"
                      /\ object = [last EXCEPT
                           !.vmName = [line |-> last.vmName.line, rest |-> NoBreak],
                           !.pageTable = given.pageTable]
    BY DEF WholeFileRestores
  <2>1. last \in Objects /\ given \in Objects
    BY DEF FileInv
  <2>2. /\ SizeGot(given) \in 0 .. MaxMemory
        /\ Loaded(given, MemoryGot(given)) =
             [last EXCEPT !.vmName = [line |-> last.vmName.line, rest |-> NoBreak],
                          !.pageTable = given.pageTable]
    BY <2>1, LoadedWhole
  <2>3. ~(SizeGot(given) > MaxMemory)
    BY <2>2, SnapshotFileAssumption
  <2> QED
    BY <2>2, <2>3 DEF FileInv
<1> QED
  BY <1>1, <1>2, <1>3, PTL DEF Spec

-----------------------------------------------------------------------------
(* What can be read of a number without its last digits. *)

(* A set of numbers that is not empty has a least element. *)
LEMMA Least ==
  ASSUME NEW T, T \subseteq Nat, T # {}
  PROVE  \E n \in T : \A k \in T : n <= k
<1>1. PICK n \in T : \A k \in T : ~(<<k, n>> \in OpToRel(<, Nat))
  BY NatLessThanWellFounded, WFMin
<1>2. \A k \in T : ~(k < n)
  BY <1>1 DEF OpToRel
<1> QED
  BY <1>2

(* A property of 0 that goes from each number to the next holds up to n. *)
LEMMA UpTo ==
  ASSUME NEW n \in Nat, NEW Good, 0 \in Good,
         \A k \in 1 .. n : k - 1 \in Good => k \in Good
  PROVE  0 .. n \subseteq Good
<1> DEFINE Bad == (0 .. n) \ Good
<1>1. Bad \subseteq Nat
  OBVIOUS
<1>2. ASSUME Bad # {}
      PROVE  FALSE
  <2> HIDE DEF Bad
  <2>1. PICK k \in Bad : \A j \in Bad : k <= j
    BY <1>1, <1>2, Least
  <2>2. k \in 1 .. n /\ k - 1 \in 0 .. n /\ k - 1 \notin Bad
    BY <2>1 DEF Bad
  <2> QED
    BY <2>1, <2>2 DEF Bad
<1> QED
  BY <1>2

(* The numbers left of m when a digit is dropped n times. *)
Dropped(y) == y \div Base

Digits(f, m, n) == f = [k \in 0 .. n |-> IF k = 0 THEN m ELSE Dropped(f[k - 1])]

LEMMA DigitsExist ==
  ASSUME NEW m, NEW n \in Nat
  PROVE  \E f : Digits(f, m, n)
<1> DEFINE Good == {k \in Nat : \E f : Digits(f, m, k)}
<1>1. 0 \in Good
  <2> DEFINE f == [k \in 0 .. 0 |-> m]
  <2>1. Digits(f, m, 0)
    BY DEF Digits
  <2> QED
    BY <2>1
<1>2. ASSUME NEW l \in 1 .. n, l - 1 \in Good
      PROVE  l \in Good
  <2>1. PICK f : Digits(f, m, l - 1)
    BY <1>2
  <2> DEFINE g == [k \in 0 .. l |-> IF k = l THEN Dropped(f[l - 1]) ELSE f[k]]
  <2>2. ASSUME NEW k \in 0 .. l
        PROVE  g[k] = IF k = 0 THEN m ELSE Dropped(g[k - 1])
    BY <2>1 DEF Digits
  <2>3. Digits(g, m, l)
    BY <2>2, Zenon DEF Digits
  <2> QED
    BY <2>3
<1> HIDE DEF Good
<1>3. 0 .. n \subseteq Good
  BY <1>1, <1>2, UpTo
<1> QED
  BY <1>3 DEF Good

(* Dropping digits never makes a number larger. *)
LEMMA DroppedLess ==
  ASSUME NEW m \in Nat, NEW y \in 0 .. m
  PROVE  Dropped(y) \in 0 .. m
<1>1. Base \in Nat \ {0, 1}
  BY SnapshotFileAssumption
<1>2. PICK q \in Int, r \in 0 .. Base - 1 : y = Base * q + r /\ q = y \div Base
  <2>1. /\ y = Base * (y \div Base) + (y % Base)
        /\ y \div Base \in Int /\ y % Base \in 0 .. Base - 1
    BY <1>1
  <2> QED
    BY <2>1
<1>3. q >= 0
  <2> SUFFICES ASSUME q <= -1 PROVE FALSE
    BY <1>2
  <2>1. Base * q <= -Base
    BY <1>1, <1>2
  <2> QED
    BY <1>1, <1>2, <2>1
<1>4. Base * q >= q
  BY <1>1, <1>3
<1> QED
  BY <1>1, <1>2, <1>3, <1>4 DEF Dropped

LEMMA LeadingWithin ==
  ASSUME NEW v \in Int, NEW got \in Leading(v)
  PROVE  got = Unreadable \/ WithinOf(v, got)
<1> DEFINE m == Magnitude(v)
           f == CHOOSE g : Digits(g, m, m)
           Good == {k \in Nat : f[k] \in 0 .. m}
           parts == {f[k] : k \in 1 .. m} \ {0}
<1>1. m \in Nat /\ v \in {m, -m} /\ (v < 0 => v = -m) /\ (v >= 0 => v = m)
  BY DEF Magnitude
<1>2. Digits(f, m, m)
  BY <1>1, DigitsExist
<1>3. Leading(v) = IF v < 0 THEN {-n : n \in parts} \cup {Unreadable} ELSE parts
  BY DEF Leading, Digits, Dropped
<1> HIDE DEF f, m
<1>4. 0 \in Good
  BY <1>1, <1>2 DEF Digits
<1>5. ASSUME NEW k \in 1 .. m, k - 1 \in Good
      PROVE  k \in Good
  <2>1. f[k] = Dropped(f[k - 1])
    BY <1>1, <1>2 DEF Digits
  <2> QED
    BY <1>1, <1>5, <2>1, DroppedLess
<1>6. 0 .. m \subseteq Good
  <2> HIDE DEF Good
  <2> QED
    BY <1>1, <1>4, <1>5, UpTo
<1>7. \A n \in parts : n \in 0 .. m
  BY <1>1, <1>6
<1> HIDE DEF parts
<1> QED
  BY <1>1, <1>3, <1>7 DEF WithinOf

-----------------------------------------------------------------------------
(* Files that break off. *)

(* The first c fields of f are in d, and perhaps a piece of the next. *)
CutOf(d, f, c) ==
  /\ c \in 0 .. Len(f)
  /\ Len(d) \in {c, c + 1}
  /\ \A j \in 1 .. c : d[j] = f[j]
  /\ Len(d) = c + 1 => c < Len(f) /\ d[c + 1] \in FragmentsOf(f, c + 1)

LEMMA TornIsCut ==
  ASSUME NEW T, NEW f \in Seq(T), NEW d \in {f} \cup Torn(f)
  PROVE  \E c \in 0 .. Len(f) : CutOf(d, f, c)
<1>1. Len(f) \in Nat /\ DOMAIN f = 1 .. Len(f) /\ \A i \in 1 .. Len(f) : f[i] \in T
  BY LenProperties
<1>2. ASSUME NEW k \in 0 .. Len(f), NEW S, T \subseteq S
      PROVE  /\ SubSeq(f, 1, k) \in Seq(S) /\ Len(SubSeq(f, 1, k)) = k
             /\ \A i \in 1 .. k : SubSeq(f, 1, k)[i] = f[i]
  <2>1. \A i \in 1 .. k : f[i] \in S
    BY <1>1, <1>2
  <2>2. /\ SubSeq(f, 1, k) \in Seq(S)
        /\ Len(SubSeq(f, 1, k)) = IF 1 <= k THEN k - 1 + 1 ELSE 0
        /\ \A i \in 1 .. k - 1 + 1 : SubSeq(f, 1, k)[i] = f[1 + i - 1]
    BY <1>1, <2>1, SubSeqProperties
  <2> QED
    BY <1>1, <2>2
<1>3. CASE d = f
  <2>1. PICK l \in Nat : l = Len(f)
    BY <1>1
  <2>2. Len(d) = l /\ \A j \in 1 .. l : d[j] = f[j]
    BY <1>3, <2>1, Zenon
  <2>3. CutOf(d, f, Len(f))
    BY <2>1, <2>2 DEF CutOf
  <2> QED
    BY <1>1, <2>3
<1>4. ASSUME NEW k \in 0 .. Len(f) - 1, d = SubSeq(f, 1, k)
      PROVE  CutOf(d, f, k)
  <2>1. Len(d) = k /\ \A i \in 1 .. k : d[i] = f[i]
    <3>1. k \in 0 .. Len(f)
      BY <1>1
    <3> QED
      BY <1>2, <1>4, <3>1
  <2> QED
    BY <1>1, <2>1 DEF CutOf
<1>5. ASSUME NEW k \in 1 .. Len(f), NEW v \in FragmentsOf(f, k),
             d = Append(SubSeq(f, 1, k - 1), v)
      PROVE  CutOf(d, f, k - 1)
  <2> DEFINE S == T \cup {v}
             g == SubSeq(f, 1, k - 1)
  <2>1. /\ g \in Seq(S) /\ Len(g) = k - 1
        /\ \A i \in 1 .. k - 1 : g[i] = f[i]
    BY <1>1, <1>2
  <2> HIDE DEF g
  <2>2. Len(d) = k /\ d[k] = v /\ \A i \in 1 .. k - 1 : d[i] = g[i]
    <3>1. d = Append(g, v) /\ v \in S
      BY <1>5 DEF g
    <3> HIDE DEF S
    <3>2. /\ Len(Append(g, v)) = Len(g) + 1
          /\ \A i \in 1 .. Len(g) : Append(g, v)[i] = g[i]
          /\ Append(g, v)[Len(g) + 1] = v
      BY <2>1, <3>1, AppendProperties
    <3>3. /\ Len(d) = Len(g) + 1 /\ d[Len(g) + 1] = v
          /\ \A i \in 1 .. Len(g) : d[i] = g[i]
      BY <3>1, <3>2, Zenon
    <3>4. Len(g) = k - 1 /\ k - 1 + 1 = k
      BY <2>1
    <3> QED
      BY <3>3, <3>4
  <2> QED
    BY <1>1, <2>1, <2>2 DEF CutOf
<1>6. CASE d \in Torn(f)
  <2>1. \/ \E k \in 0 .. Len(f) - 1 : d = SubSeq(f, 1, k)
        \/ \E k \in 1 .. Len(f) : \E v \in FragmentsOf(f, k) :
             d = Append(SubSeq(f, 1, k - 1), v)
    BY <1>1, <1>6 DEF Torn
  <2> QED
    BY <1>1, <1>4, <1>5, <2>1
<1> QED
  BY <1>3, <1>6

(* Text at the start of the rest of a name is what Load takes for the pc. *)
LEMMA LayoutBroken ==
  ASSUME NEW s \in Objects, Aligned(s.vmName), Rest(s.vmName) # <<>>
  PROVE  Len(Fields(s)) \in Nat /\ Len(Fields(s)) >= 2 /\ Fields(s)[2] = Unreadable
<1>1. s.vmName \in Name /\ NumberCount \in Nat /\ Len(s.memoryBytes) \in Nat
  BY SnapshotFileAssumption, ObjectsAssumption DEF VmSnapshot
<1>2. Rest(s.vmName) \in Seq(Int \cup {Unreadable}) /\ Rest(s.vmName)[1] = Unreadable
  BY <1>1 DEF Name, Rest, Aligned
<1>3. PICK n \in Nat : n = Len(Rest(s.vmName)) /\ n >= 1
  BY <1>2
<1>4. /\ Len(Fields(s)) = n + 1 + NumberCount + 1 + Len(s.memoryBytes)
      /\ \A k \in 1 .. n : Fields(s)[1 + k] = Rest(s.vmName)[k]
  BY <1>3, Layout, SMTT(30)
<1>5. Fields(s)[1 + 1] = Unreadable
  <2>1. 1 \in 1 .. n
    BY <1>3
  <2> QED
    BY <1>2, <1>4, <2>1
<1>6. 1 + 1 = 2 /\ n + 1 + NumberCount + 1 + Len(s.memoryBytes) \in Nat
      /\ n + 1 + NumberCount + 1 + Len(s.memoryBytes) >= 2
  BY <1>1, Counts, Zenon
<1> QED
  BY <1>4, <1>5, <1>6, Zenon

(* After that Load reads nothing any more. *)
LEMMA GotBroken ==
  ASSUME NEW s \in Objects, Aligned(s.vmName), Rest(s.vmName) # <<>>,
         NEW c, CutOf(disk, Fields(s), c), NEW k \in Nat, k >= 2, NEW value
  PROVE  Got(k, value) = value \/ (k = 2 /\ Got(k, value) = 0)
<1> DEFINE f == Fields(s)
<1>1. Len(f) \in Nat /\ f[2] = Unreadable
  BY LayoutBroken
<1>2. CASE k > Len(disk)
  <2>1. Got(k, value) = value
    BY <1>2, Zenon DEF Got
  <2> QED
    BY <2>1
<1>3. CASE k <= Len(disk)
  <2>1. /\ c \in Nat /\ Len(disk) \in {c, c + 1} /\ Len(disk) >= 2
        /\ \A j \in 1 .. c : disk[j] = f[j]
        /\ Len(disk) = c + 1 => disk[c + 1] \in FragmentsOf(f, c + 1)
    BY <1>1, <1>3 DEF CutOf
  <2>2. disk[2] = Unreadable
    <3>1. CASE c >= 2
      BY <1>1, <2>1, <3>1
    <3>2. CASE c < 2
      <4>1. c = 1 /\ disk[2] \in FragmentsOf(f, 2)
        BY <2>1, <3>2
      <4> QED
        BY <1>1, <4>1 DEF FragmentsOf
    <3> QED
      BY <2>1, <3>1, <3>2
  <2>3. CASE k = 2
    <3>1. disk[k] = Unreadable
      BY <2>2, <2>3
    <3>2. Got(k, value) \in {value, 0}
      BY <3>1, Zenon DEF Got
    <3> QED
      BY <2>3, <3>2
  <2>4. CASE k > 2
    <3>1. \E j \in 2 .. k - 1 : ~Readable(j)
      <4>1. 2 \in 2 .. k - 1 /\ ~Readable(2)
        BY <2>2, <2>4 DEF Readable
      <4> QED
        BY <4>1
    <3>2. Got(k, value) = value
      BY <3>1, Zenon DEF Got
    <3> QED
      BY <3>2
  <2> QED
    BY <2>3, <2>4
<1> QED
  <2>1. Len(disk) \in Nat
    BY <1>1 DEF CutOf
  <2> QED
    BY <1>2, <1>3, <2>1

(* What Load reads of a file that breaks off after field c. *)
LEMMA GotCut ==
  ASSUME NEW s \in Objects, Rest(s.vmName) = <<>>, NEW c, CutOf(disk, Fields(s), c),
         NEW k \in 2 .. Len(Fields(s)), NEW value
  PROVE  /\ c \in Nat
         /\ k <= c => Got(k, value) = Fields(s)[k]
         /\ k = c + 1 => Got(k, value) = value \/ WithinOf(Fields(s)[k], Got(k, value))
         /\ k > c + 1 => Got(k, value) = value
<1> DEFINE f == Fields(s)
<1>1. Len(f) \in Nat /\ \A j \in 2 .. Len(f) : Sound(j, f[j])
  <2>1. NumberCount \in Nat /\ Len(s.memoryBytes) \in Nat
    BY SnapshotFileAssumption, ObjectsAssumption DEF VmSnapshot
  <2> HIDE DEF f
  <2>2. Len(Fields(s)) = NumberCount + 2 + Len(s.memoryBytes)
        /\ \A j \in 2 .. Len(Fields(s)) : Sound(j, Fields(s)[j])
    <3>1. s \in Objects /\ Rest(s.vmName) = <<>>
      OBVIOUS
    <3> QED
      BY <3>1, LayoutStraight, Zenon
  <2>3. NumberCount + 2 + Len(s.memoryBytes) \in Nat
    BY <2>1, Positions, Zenon
  <2> QED
    BY <2>2, <2>3, Zenon DEF f
<1>2. /\ c \in 0 .. Len(f) /\ Len(disk) \in {c, c + 1}
      /\ \A j \in 1 .. c : disk[j] = f[j]
      /\ Len(disk) = c + 1 => disk[c + 1] \in FragmentsOf(f, c + 1)
  BY DEF CutOf
<1>3. Sound(k, f[k]) /\ f[k] \in Int
  BY <1>1 DEF Sound
<1> HIDE DEF f
<1>4. \A j \in 2 .. c : Readable(j)
  <2>1. \A j \in 2 .. c : j \in 1 .. c /\ j \in 2 .. Len(f)
    BY <1>1, <1>2
  <2> QED
    BY <1>1, <1>2, <2>1, SoundIsReadable DEF Readable
<1>5. CASE k <= c
  <2>1. k <= Len(disk) /\ k \in 2 .. c /\ k \in 1 .. c
    BY <1>1, <1>2, <1>5
  <2>2. ~(k > Len(disk))
    BY <1>1, <1>2, <2>1
  <2>3. \A j \in 2 .. k - 1 : Readable(j)
    BY <1>1, <1>2, <1>4, <1>5
  <2>4. disk[k] = f[k] /\ disk[k] # Unreadable /\ Converted(k, disk[k]) = disk[k]
    BY <1>2, <1>3, <2>1, SoundIsKept, SoundIsReadable
  <2>5. Got(k, value) = f[k]
    BY <2>2, <2>3, <2>4, Zenon DEF Got
  <2> QED
    BY <1>1, <1>2, <1>5, <2>5 DEF f
<1>6. CASE k > Len(disk)
  <2>1. Got(k, value) = value
    BY <1>6 DEF Got
  <2> QED
    BY <1>1, <1>2, <1>6, <2>1
<1>7. CASE k = c + 1 /\ Len(disk) = c + 1
  <2>1. \A j \in 2 .. k - 1 : Readable(j)
    BY <1>1, <1>2, <1>4, <1>7
  <2>2. disk[k] \in Leading(f[k])
    <3>1. disk[k] \in FragmentsOf(f, k) /\ k # 1 /\ f[k] # Unreadable
      BY <1>1, <1>2, <1>3, <1>7, SoundIsReadable
    <3> QED
      BY <3>1 DEF FragmentsOf
  <2>3. disk[k] = Unreadable \/ WithinOf(f[k], disk[k])
    BY <1>3, <2>2, LeadingWithin
  <2>4. Got(k, value) = IF disk[k] = Unreadable THEN 0 ELSE Converted(k, disk[k])
    BY <1>2, <1>7, <2>1 DEF Got
  <2>5. disk[k] = Unreadable \/ Converted(k, disk[k]) = disk[k]
    BY <1>3, <2>3, WithinIsSound, SoundIsKept
  <2>6. WithinOf(f[k], 0)
    BY <1>3 DEF WithinOf
  <2>7. WithinOf(f[k], Got(k, value))
    BY <2>3, <2>4, <2>5, <2>6
  <2> QED
    BY <1>1, <1>2, <1>7, <2>7 DEF f
<1> QED
  BY <1>1, <1>2, <1>5, <1>6, <1>7

(* The numbers that Load leaves in o after a Save of s that broke off. *)
LEMMA LoadedNumbers ==
  ASSUME NEW s \in Objects, NEW o \in Objects, Aligned(s.vmName),
         NEW c, CutOf(disk, Fields(s), c)
  PROVE  \E k \in 0 .. NumberCount :
           /\ \A j \in 1 .. k : Got(j + 1, o.numbers[j]) = s.numbers[j]
           /\ \A j \in k + 2 .. NumberCount : Got(j + 1, o.numbers[j]) = o.numbers[j]
           /\ k < NumberCount =>
                \/ Got(k + 2, o.numbers[k + 1]) = o.numbers[k + 1]
                \/ WithinOf(s.numbers[k + 1], Got(k + 2, o.numbers[k + 1]))
<1>1. /\ s.numbers \in [1 .. NumberCount -> Int] /\ NumberCount \in Nat
      /\ Len(s.memoryBytes) \in Nat
  BY SnapshotFileAssumption, ObjectsAssumption DEF VmSnapshot
<1>2. CASE Rest(s.vmName) # <<>>
  <2>1. ASSUME NEW j \in 2 .. NumberCount
        PROVE  Got(j + 1, o.numbers[j]) = o.numbers[j]
    <3>1. j + 1 \in Nat /\ j + 1 > 2
      BY <1>1
    <3> QED
      BY <1>2, <3>1, GotBroken
  <2>2. Got(2, o.numbers[1]) = o.numbers[1] \/ Got(2, o.numbers[1]) = 0
    BY <1>2, GotBroken
  <2>3. 0 < NumberCount => WithinOf(s.numbers[1], 0)
    BY <1>1 DEF WithinOf
  <2>4. /\ \A j \in 0 + 2 .. NumberCount : Got(j + 1, o.numbers[j]) = o.numbers[j]
        /\ 0 < NumberCount =>
             \/ Got(0 + 2, o.numbers[0 + 1]) = o.numbers[0 + 1]
             \/ WithinOf(s.numbers[0 + 1], Got(0 + 2, o.numbers[0 + 1]))
    <3>1. 0 + 2 = 2 /\ 0 + 1 = 1
      OBVIOUS
    <3> QED
      BY <2>1, <2>2, <2>3, <3>1
  <2>5. 0 \in 0 .. NumberCount /\ 1 .. 0 = {}
    BY <1>1
  <2> QED
    BY <2>4, <2>5
<1>3. CASE Rest(s.vmName) = <<>>
  <2>1. ASSUME NEW j \in 1 .. NumberCount, NEW value
        PROVE  /\ c \in Nat
               /\ j + 1 <= c => Got(j + 1, value) = s.numbers[j]
               /\ j + 1 = c + 1 => \/ Got(j + 1, value) = value
                                   \/ WithinOf(s.numbers[j], Got(j + 1, value))
               /\ j + 1 > c + 1 => Got(j + 1, value) = value
    <3>1. /\ Len(Fields(s)) = NumberCount + 2 + Len(s.memoryBytes)
          /\ Fields(s)[j + 1] = s.numbers[j]
      BY <1>3, LayoutStraight
    <3>2. j + 1 \in 2 .. Len(Fields(s)) /\ Fields(s)[j + 1] \in Int
      <4>1. j + 1 \in 2 .. NumberCount + 2 + Len(s.memoryBytes) /\ s.numbers[j] \in Int
        <5>1. NumberCount \in Nat /\ Len(s.memoryBytes) \in Nat /\ s.numbers[j] \in Int
          BY <1>1
        <5>2. j + 1 \in 2 .. NumberCount + 2 + Len(s.memoryBytes)
          BY <5>1, Positions, Zenon
        <5> QED
          BY <5>1, <5>2
      <4> QED
        BY <3>1, <4>1, Zenon
    <3> QED
      BY <1>3, <3>1, <3>2, GotCut
  <2>2. c \in Nat
    <3>1. Len(Fields(s)) = NumberCount + 2 + Len(s.memoryBytes)
      BY <1>3, LayoutStraight
    <3> QED
      BY <1>1, <3>1 DEF CutOf
  <2>3. PICK k \in 0 .. NumberCount :
          /\ k = 0 \/ k <= c - 1
          /\ k < NumberCount => k >= c - 1
    <3>1. CASE c = 0
      BY <1>1, <3>1, SMTT(30)
    <3>2. CASE c # 0 /\ c - 1 <= NumberCount
      <4>1. c - 1 \in 0 .. NumberCount
        BY <2>2, <3>2
      <4> QED
        BY <2>2, <4>1
    <3>3. CASE c - 1 > NumberCount
      BY <1>1, <2>2, <3>3
    <3> QED
      BY <1>1, <2>2, <3>1, <3>2, <3>3
  <2>4. ASSUME NEW j \in 1 .. k
        PROVE  Got(j + 1, o.numbers[j]) = s.numbers[j]
    <3>1. j \in 1 .. NumberCount /\ j + 1 <= c
      BY <1>1, <2>2, <2>3
    <3> QED
      BY <2>1, <3>1
  <2>5. ASSUME NEW j \in k + 2 .. NumberCount
        PROVE  Got(j + 1, o.numbers[j]) = o.numbers[j]
    <3>1. j \in 1 .. NumberCount /\ j + 1 > c + 1
      BY <1>1, <2>2, <2>3
    <3> QED
      BY <2>1, <3>1
  <2>6. ASSUME k < NumberCount
        PROVE  \/ Got(k + 2, o.numbers[k + 1]) = o.numbers[k + 1]
               \/ WithinOf(s.numbers[k + 1], Got(k + 2, o.numbers[k + 1]))
    <3>1. k + 1 \in 1 .. NumberCount /\ (k + 1) + 1 = k + 2 /\ k + 2 >= c + 1
      BY <1>1, <2>2, <2>3, <2>6
    <3>2. CASE k + 2 = c + 1
      BY <2>1, <3>1, <3>2
    <3>3. CASE k + 2 > c + 1
      BY <2>1, <3>1, <3>3
    <3> QED
      BY <2>2, <3>1, <3>2, <3>3
  <2> QED
    BY <2>4, <2>5, <2>6
<1> QED
  BY <1>2, <1>3

(* The memory that Load leaves in o after a Save of s that broke off. *)
LEMMA LoadedMemory ==
  ASSUME NEW s \in Objects, NEW o, Aligned(s.vmName), NEW c, CutOf(disk, Fields(s), c)
  PROVE  /\ SizeGot(o) \in 0 .. Len(s.memoryBytes)
         /\ \E k \in 0 .. SizeGot(o) :
              /\ \A b \in 1 .. k : Got(NumberCount + 2 + b, 0) = s.memoryBytes[b]
              /\ \A b \in k + 2 .. SizeGot(o) : Got(NumberCount + 2 + b, 0) = 0
              /\ k < SizeGot(o) =>
                   WithinOf(s.memoryBytes[k + 1], Got(NumberCount + 2 + (k + 1), 0))
<1> DEFINE len == Len(s.memoryBytes)
<1>1. s.memoryBytes \in Seq(0 .. ByteSpace - 1) /\ NumberCount \in Nat /\ len \in Nat
  BY SnapshotFileAssumption, ObjectsAssumption DEF VmSnapshot
<1>2. CASE Rest(s.vmName) # <<>>
  <2>1. NumberCount + 2 \in Nat /\ NumberCount + 2 >= 2
    BY <1>1
  <2>2. SizeGot(o) = 0
    BY <1>2, <2>1, GotBroken DEF SizeGot
  <2> QED
    BY <1>1, <2>2
<1>3. CASE Rest(s.vmName) = <<>>
  <2>1. /\ Len(Fields(s)) = NumberCount + 2 + len
        /\ Fields(s)[NumberCount + 2] = len
        /\ \A b \in 1 .. len : Fields(s)[NumberCount + 2 + b] = s.memoryBytes[b]
    <3>1. s \in Objects /\ Rest(s.vmName) = <<>>
      BY <1>3
    <3>2. /\ Len(Fields(s)) = NumberCount + 2 + Len(s.memoryBytes)
          /\ Fields(s)[NumberCount + 2] = Len(s.memoryBytes)
          /\ \A b \in 1 .. Len(s.memoryBytes) :
               Fields(s)[NumberCount + 2 + b] = s.memoryBytes[b]
      BY <3>1, LayoutStraight, Zenon
    <3> QED
      BY <3>2, Zenon
  <2>2. c \in Nat
    BY <1>1, <2>1 DEF CutOf
  <2>3. \A b \in 1 .. len : s.memoryBytes[b] \in Nat
    <3>1. \A b \in 1 .. len : s.memoryBytes[b] \in 0 .. ByteSpace - 1
      BY BytesAreBytes, Zenon
    <3>2. 0 .. ByteSpace - 1 \subseteq Nat
      BY SnapshotFileAssumption
    <3> QED
      BY <3>1, <3>2, Zenon
  <2> HIDE DEF len
  <2>4. ASSUME NEW b \in 1 .. len
        PROVE  /\ NumberCount + 2 + b <= c =>
                    Got(NumberCount + 2 + b, 0) = s.memoryBytes[b]
               /\ NumberCount + 2 + b = c + 1 =>
                    WithinOf(s.memoryBytes[b], Got(NumberCount + 2 + b, 0))
               /\ NumberCount + 2 + b > c + 1 => Got(NumberCount + 2 + b, 0) = 0
    <3>1. /\ NumberCount + 2 + b \in 2 .. Len(Fields(s))
          /\ Fields(s)[NumberCount + 2 + b] \in Int
      <4>1. NumberCount + 2 + b \in 2 .. NumberCount + 2 + len /\ s.memoryBytes[b] \in Int
        BY <1>1, <2>3 DEF len
      <4> QED
        BY <2>1, <4>1, Zenon
    <3>2. WithinOf(s.memoryBytes[b], 0)
      BY <2>3 DEF WithinOf
    <3> QED
      BY <1>3, <2>1, <3>1, <3>2, GotCut
  <2>5. /\ NumberCount + 2 <= c => SizeGot(o) = len
        /\ NumberCount + 2 = c + 1 => SizeGot(o) = 0 \/ WithinOf(len, SizeGot(o))
        /\ NumberCount + 2 > c + 1 => SizeGot(o) = 0
    <3>1. /\ NumberCount + 2 \in 2 .. Len(Fields(s))
          /\ Fields(s)[NumberCount + 2] \in Int
      BY <1>1, <2>1
    <3> QED
      BY <1>3, <2>1, <3>1, GotCut DEF SizeGot
  <2>6. SizeGot(o) \in 0 .. len
    BY <1>1, <2>2, <2>5 DEF WithinOf
  <2> DEFINE n == SizeGot(o)
  <2> HIDE DEF n
  <2>7. CASE NumberCount + 2 <= c
    <3>1. n = len
      BY <2>5, <2>7 DEF n
    <3>2. PICK k \in 0 .. len :
            /\ k = 0 \/ NumberCount + 2 + k <= c
            /\ k < len => NumberCount + 2 + k >= c
      <4>1. CASE c - (NumberCount + 2) <= len
        <5>1. PICK d \in 0 .. len : d = c - (NumberCount + 2)
          BY <1>1, <2>2, <2>7, <4>1
        <5>2. NumberCount + 2 + d = c
          BY <1>1, <2>2, <5>1
        <5>3. (d = 0 \/ NumberCount + 2 + d <= c) /\ (d < len => NumberCount + 2 + d >= c)
          BY <2>2, <5>2
        <5> QED
          BY <5>3
      <4>2. CASE c - (NumberCount + 2) > len
        BY <1>1, <2>2, <4>2
      <4> QED
        BY <1>1, <2>2, <4>1, <4>2
    <3>3. ASSUME NEW b \in 1 .. k
          PROVE  Got(NumberCount + 2 + b, 0) = s.memoryBytes[b]
      <4>1. b \in 1 .. len /\ NumberCount + 2 + b <= c
        BY <1>1, <2>2, <3>2
      <4> QED
        BY <2>4, <4>1
    <3>4. ASSUME NEW b \in k + 2 .. n
          PROVE  Got(NumberCount + 2 + b, 0) = 0
      <4>1. b \in 1 .. len /\ NumberCount + 2 + b > c + 1
        BY <1>1, <2>2, <3>1, <3>2
      <4> QED
        BY <2>4, <4>1
    <3>5. ASSUME k < n
          PROVE  WithinOf(s.memoryBytes[k + 1], Got(NumberCount + 2 + (k + 1), 0))
      <4>1. k + 1 \in 1 .. len /\ NumberCount + 2 + (k + 1) >= c + 1
        BY <1>1, <2>2, <3>1, <3>2, <3>5
      <4>2. WithinOf(s.memoryBytes[k + 1], 0)
        BY <2>3, <4>1 DEF WithinOf
      <4>3. NumberCount + 2 + (k + 1) = c + 1 \/ NumberCount + 2 + (k + 1) > c + 1
        BY <1>1, <2>2, <4>1
      <4> QED
        BY <2>4, <4>1, <4>2, <4>3
    <3> QED
      BY <2>6, <3>1, <3>3, <3>4, <3>5 DEF n, len
  <2>8. CASE NumberCount + 2 > c
    <3>1. ASSUME NEW b \in 1 .. n
          PROVE  Got(NumberCount + 2 + b, 0) = 0 /\ WithinOf(s.memoryBytes[b], 0)
      <4>1. b \in 1 .. len /\ NumberCount + 2 + b > c + 1
        BY <1>1, <2>2, <2>6, <2>8 DEF n
      <4> QED
        BY <2>3, <2>4, <4>1 DEF WithinOf
    <3>2. n \in Nat /\ 0 \in 0 .. n /\ 1 .. 0 = {}
      BY <1>1, <2>6 DEF n
    <3>3. \A b \in 0 + 2 .. n : Got(NumberCount + 2 + b, 0) = 0
      BY <3>1, <3>2
    <3>4. 0 < n => WithinOf(s.memoryBytes[0 + 1], Got(NumberCount + 2 + (0 + 1), 0))
      <4>1. 0 + 1 = 1 /\ (0 < n => 1 \in 1 .. n)
        BY <3>2
      <4> QED
        BY <3>1, <4>1
    <3> QED
      BY <2>6, <3>2, <3>3, <3>4 DEF n, len
  <2> QED
    BY <1>1, <2>2, <2>7, <2>8
<1> QED
  BY <1>2, <1>3

-----------------------------------------------------------------------------

(* A file holds what the last Save wrote, or the beginning of it. *)
DiskInv ==
  /\ FileInv
  /\ disk # None => \E c \in 0 .. Len(Fields(last)) : CutOf(disk, Fields(last), c)

LEMMA FieldsAreASeq ==
  ASSUME NEW s \in Objects
  PROVE  \E T : Fields(s) \in Seq(T)
<1>1. s.vmName \in Name
  BY ObjectsAssumption DEF VmSnapshot
<1>2. Rest(s.vmName) \in Seq(Int \cup {Unreadable})
  BY <1>1 DEF Name, Rest
<1>3. PICK n \in Nat : n = Len(Rest(s.vmName))
  BY <1>2
<1> QED
  BY <1>3, Layout

LEMMA DiskStep == DiskInv /\ [Next]_vars => DiskInv'
<1> SUFFICES ASSUME DiskInv, [Next]_vars, disk' # None
             PROVE  \E c \in 0 .. Len(Fields(last')) : CutOf(disk', Fields(last'), c)
  BY FileStep DEF DiskInv
<1>1. ASSUME NEW s \in Objects, Save(s)
      PROVE  \E c \in 0 .. Len(Fields(last')) : CutOf(disk', Fields(last'), c)
  <2>1. disk' \in {Fields(s)} \cup Torn(Fields(s)) /\ last' = s
    BY <1>1 DEF Save
  <2>2. PICK T : Fields(s) \in Seq(T)
    BY FieldsAreASeq
  <2>3. \E c \in 0 .. Len(Fields(s)) : CutOf(disk', Fields(s), c)
    BY <2>1, <2>2, TornIsCut
  <2> QED
    BY <2>1, <2>3
<1>2. CASE UNCHANGED <<disk, last>>
  BY <1>2 DEF DiskInv
<1> QED
  BY <1>1, <1>2 DEF Next, vars, SaveFails, Load, LoadThrows, LoadFails

LEMMA DiskInit == Init => DiskInv
BY DEF Init, FileInv, WasRead, DiskInv

(***************************************************************************)
(* Of a file that broke off Load takes the numbers up to some point, and   *)
(* leaves the rest of the object: none lands in another's place, unless    *)
(* the name moves the fields.                                              *)
(***************************************************************************)
THEOREM TornNumbers == Spec => []TornNumbersAreAPrefix
<1>1. DiskInv => TornNumbersAreAPrefix
  <2> SUFFICES ASSUME DiskInv, WasRead, Aligned(last.vmName)
               PROVE  \E k \in 0 .. NumberCount :
                        /\ \A j \in 1 .. k : object.numbers[j] = last.numbers[j]
                        /\ \A j \in k + 2 .. NumberCount : object.numbers[j] = given.numbers[j]
                        /\ k < NumberCount =>
                             \/ object.numbers[k + 1] = given.numbers[k + 1]
                             \/ WithinOf(last.numbers[k + 1], object.numbers[k + 1])
    BY DEF TornNumbersAreAPrefix
  <2>1. /\ last \in Objects /\ given \in Objects
        /\ \E c \in 0 .. Len(Fields(last)) : CutOf(disk, Fields(last), c)
    BY DEF DiskInv, FileInv
  <2>2. PICK k \in 0 .. NumberCount :
          /\ \A j \in 1 .. k : Got(j + 1, given.numbers[j]) = last.numbers[j]
          /\ \A j \in k + 2 .. NumberCount : Got(j + 1, given.numbers[j]) = given.numbers[j]
          /\ k < NumberCount =>
               \/ Got(k + 2, given.numbers[k + 1]) = given.numbers[k + 1]
               \/ WithinOf(last.numbers[k + 1], Got(k + 2, given.numbers[k + 1]))
    BY <2>1, LoadedNumbers
  <2>3. ASSUME NEW j \in 1 .. NumberCount
        PROVE  object.numbers[j] = Got(j + 1, given.numbers[j])
    BY DEF DiskInv, FileInv
  <2>4. NumberCount \in Nat
    BY SnapshotFileAssumption
  <2>5. \A j \in 1 .. k : object.numbers[j] = last.numbers[j]
    <3>1. \A j \in 1 .. k : j \in 1 .. NumberCount
      BY <2>4
    <3> QED
      BY <2>2, <2>3, <3>1
  <2>6. \A j \in k + 2 .. NumberCount : object.numbers[j] = given.numbers[j]
    <3>1. \A j \in k + 2 .. NumberCount : j \in 1 .. NumberCount
      BY <2>4
    <3> QED
      BY <2>2, <2>3, <3>1
  <2>7. ASSUME k < NumberCount
        PROVE  object.numbers[k + 1] = Got(k + 2, given.numbers[k + 1])
    <3>1. k + 1 \in 1 .. NumberCount /\ (k + 1) + 1 = k + 2
      BY <2>4, <2>7
    <3> QED
      BY <2>3, <3>1
  <2> QED
    BY <2>2, <2>5, <2>6, <2>7
<1> QED
  BY <1>1, DiskInit, DiskStep, PTL DEF Spec

(***************************************************************************)
(* The memory that Load takes from such a file is the beginning of the one *)
(* saved, with zeros after it, and never larger; it is always obtained.    *)
(***************************************************************************)
THEOREM TornMemory == Spec => []TornMemoryIsAPrefix
<1>1. DiskInv => TornMemoryIsAPrefix
  <2> SUFFICES ASSUME DiskInv, WasRead, Aligned(last.vmName)
               PROVE  /\ answer = "true"
                      /\ Len(object.memoryBytes) <= Len(last.memoryBytes)
                      /\ \E k \in 0 .. Len(object.memoryBytes) :
                           /\ \A b \in 1 .. k : object.memoryBytes[b] = last.memoryBytes[b]
                           /\ \A b \in k + 2 .. Len(object.memoryBytes) :
                                object.memoryBytes[b] = 0
                           /\ k < Len(object.memoryBytes) =>
                                WithinOf(last.memoryBytes[k + 1], object.memoryBytes[k + 1])
    BY DEF TornMemoryIsAPrefix
  <2>1. /\ last \in Objects /\ given \in Objects
        /\ \E c \in 0 .. Len(Fields(last)) : CutOf(disk, Fields(last), c)
    BY DEF DiskInv, FileInv
  <2> DEFINE n == SizeGot(given)
  <2>2. /\ n \in 0 .. Len(last.memoryBytes)
        /\ \E k \in 0 .. n :
             /\ \A b \in 1 .. k : Got(NumberCount + 2 + b, 0) = last.memoryBytes[b]
             /\ \A b \in k + 2 .. n : Got(NumberCount + 2 + b, 0) = 0
             /\ k < n =>
                  WithinOf(last.memoryBytes[k + 1], Got(NumberCount + 2 + (k + 1), 0))
    BY <2>1, LoadedMemory
  <2>3. Len(last.memoryBytes) \in Nat /\ Len(last.memoryBytes) <= MaxMemory
        /\ MaxMemory \in Nat /\ ByteSpace \in Nat \ {0}
        /\ \A b \in 1 .. Len(last.memoryBytes) : last.memoryBytes[b] \in 0 .. ByteSpace - 1
    BY <2>1, SnapshotFileAssumption, ObjectsAssumption DEF VmSnapshot
  <2>4. answer = "true" /\ object = Loaded(given, MemoryGot(given))
    <3>1. ~(n > MaxMemory)
      BY <2>2, <2>3
    <3> QED
      BY <3>1 DEF DiskInv, FileInv
  <2>5. object.memoryBytes = [b \in 1 .. n |-> Got(NumberCount + 2 + b, 0) % ByteSpace]
    BY <2>4 DEF Loaded, MemoryGot
  <2> HIDE DEF n
  <2>6. n \in Nat /\ n <= Len(last.memoryBytes)
    BY <2>2, <2>3
  <2>7. /\ Len(object.memoryBytes) = n
        /\ \A b \in 1 .. n : object.memoryBytes[b] = Got(NumberCount + 2 + b, 0) % ByteSpace
    BY <2>5, <2>6
  <2>8. PICK k \in 0 .. n :
          /\ \A b \in 1 .. k : Got(NumberCount + 2 + b, 0) = last.memoryBytes[b]
          /\ \A b \in k + 2 .. n : Got(NumberCount + 2 + b, 0) = 0
          /\ k < n => WithinOf(last.memoryBytes[k + 1], Got(NumberCount + 2 + (k + 1), 0))
    BY <2>2
  <2>9. /\ \A b \in 1 .. k : b \in 1 .. n /\ b \in 1 .. Len(last.memoryBytes)
        /\ \A b \in k + 2 .. n : b \in 1 .. n
        /\ k < n => k + 1 \in 1 .. n /\ k + 1 \in 1 .. Len(last.memoryBytes)
    BY <2>3, <2>6
  <2>10. \A b \in 1 .. k : object.memoryBytes[b] = last.memoryBytes[b]
    BY <2>3, <2>7, <2>8, <2>9, ByteIsKept
  <2>11. \A b \in k + 2 .. n : object.memoryBytes[b] = 0
    <3>1. 0 \in 0 .. ByteSpace - 1
      BY <2>3
    <3> QED
      BY <2>7, <2>8, <2>9, <3>1, ByteIsKept
  <2>12. ASSUME k < n
         PROVE  WithinOf(last.memoryBytes[k + 1], object.memoryBytes[k + 1])
    <3>1. last.memoryBytes[k + 1] \in 0 .. ByteSpace - 1
      BY <2>3, <2>9, <2>12
    <3>2. Got(NumberCount + 2 + (k + 1), 0) \in 0 .. ByteSpace - 1
      BY <2>3, <2>8, <2>12, <3>1 DEF WithinOf
    <3>3. object.memoryBytes[k + 1] = Got(NumberCount + 2 + (k + 1), 0)
      BY <2>7, <2>9, <2>12, <3>2, ByteIsKept
    <3> QED
      BY <2>8, <2>12, <3>3
  <2> QED
    BY <2>4, <2>6, <2>7, <2>10, <2>11, <2>12
<1> QED
  BY <1>1, DiskInit, DiskStep, PTL DEF Spec

=============================================================================
