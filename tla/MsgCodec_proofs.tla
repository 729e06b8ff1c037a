-------------------------- MODULE MsgCodec_proofs --------------------------
(***************************************************************************)
(* The fields of a message, for any layouts, widths and numbers.           *)
(*   - canardDSDLCopyBits copies what it is asked to copy, for buffers of  *)
(*     any size, any length and any two offsets (CopyInv: the two offsets  *)
(*     have advanced together, the bits of the destination between where   *)
(*     it began and where it is are those of the source, and the others    *)
(*     are untouched);                                                     *)
(*   - bits are a number's, and make it up again (BitsMakeNumber);         *)
(*   - the loops over the signals put each where it belongs and find it    *)
(*     there (CodecInv).                                                   *)
(* Induction is to be had as a fact about sets of numbers: each set of     *)
(* natural numbers that is not empty has a least one.                      *)
(***************************************************************************)
EXTENDS MsgCodec, FiniteSetTheorems, TLAPS

-----------------------------------------------------------------------------
(* Counting. *)

\* Of a finite set of numbers, each is the k-th for one k, and each k has one.
LEMMA NthIsThere ==
  ASSUME NEW S, S \subseteq Nat, IsFiniteSet(S), NEW k \in 1 .. Cardinality(S)
  PROVE  \E i \in S : Cardinality({j \in S : j < i}) = k - 1
<1>. DEFINE Below(i) == {j \in S : j < i}
            n == Cardinality(S)
            f == [i \in S |-> Cardinality(Below(i)) + 1]
<1>1. n \in Nat
  BY FS_CardinalityType
<1>2. ASSUME NEW i \in S
      PROVE  IsFiniteSet(Below(i)) /\ Cardinality(Below(i)) \in Nat /\ Cardinality(Below(i)) < n
  <2>1. Below(i) \in SUBSET S /\ i \notin Below(i)
    OBVIOUS
  <2>. HIDE DEF Below
  <2>2. IsFiniteSet(Below(i)) /\ Cardinality(Below(i)) <= n /\ Cardinality(Below(i)) # n
    BY <2>1, FS_Subset
  <2>. QED  BY <1>1, <2>2, FS_CardinalityType
<1>3. ASSUME NEW i \in S, NEW j \in S, i < j
      PROVE  Cardinality(Below(i)) # Cardinality(Below(j))
  <2>1. i \in Nat /\ j \in Nat /\ \A x \in S : x \in Nat /\ (x < i => x < j)
    BY <1>3
  <2>2. i \in Below(j) /\ i \notin Below(i)
    BY <1>3, <2>1
  <2>3. Below(i) \subseteq Below(j)
    BY <2>1, Zenon
  <2>. HIDE DEF Below
  <2>4. Below(i) # Below(j)
    BY <2>2
  <2>5. Below(i) \in SUBSET Below(j)
    BY <2>3
  <2>. QED  BY <1>2, <2>4, <2>5, FS_Subset
<1>4. f \in [S -> 1 .. n]
  BY <1>1, <1>2
<1>5. ASSUME NEW i \in S, NEW j \in S, f[i] = f[j]
      PROVE  i = j
  <2>1. Cardinality(Below(i)) = Cardinality(Below(j))
    BY <1>2, <1>5
  <2>2. ~ (i < j) /\ ~ (j < i)
    BY <1>3, <2>1
  <2>. QED  BY <2>2
<1>6. f \in Injection(S, 1 .. n)
  BY <1>4, <1>5, Zenon DEF Injection, IsInjective
<1>7. IsFiniteSet(1 .. n) /\ Cardinality(1 .. n) = n
  BY <1>1, FS_Interval
<1>. HIDE DEF f
<1>8. f \in Surjection(S, 1 .. n)
  BY <1>6, <1>7, FS_Injection
<1>9. PICK i \in S : f[i] = k
  BY <1>8 DEF Surjection
<1>10. Cardinality(Below(i)) + 1 = k
  BY <1>9 DEF f
<1>11. Cardinality(Below(i)) = k - 1
  BY <1>2, <1>10
<1>. QED  BY <1>11

\* The least of a set of numbers.
LEMMA LeastIsThere ==
  ASSUME NEW S, S \subseteq Nat, IsFiniteSet(S), S # {}
  PROVE  \E i \in S : \A j \in S : i <= j
<1>1. Cardinality(S) \in Nat /\ Cardinality(S) # 0
  BY FS_CardinalityType, FS_EmptySet
<1>2. 1 \in 1 .. Cardinality(S)
  BY <1>1
<1>3. PICK i \in S : Cardinality({j \in S : j < i}) = 1 - 1
  BY <1>2, NthIsThere
<1>. DEFINE B == {j \in S : j < i}
<1>4. B = {}
  <2>1. IsFiniteSet(B)
    BY FS_Subset
  <2>. QED  BY <1>3, <2>1, FS_EmptySet
<1>. QED  BY <1>4

\* What holds of a number when it holds of all above it, up to a last one.
LEMMA DownFromLast ==
  ASSUME NEW n \in Nat, NEW S,
         \A k \in 1 .. n : (\A j \in 1 .. n : k < j => j \in S) => k \in S
  PROVE  \A k \in 1 .. n : k \in S
<1>. DEFINE T == {m \in 1 .. n : n + 1 - m \notin S}
<1>. SUFFICES ASSUME NEW k \in 1 .. n, k \notin S
              PROVE  FALSE
  OBVIOUS
<1>1. n + 1 - k \in T
  <2>1. n + 1 - k \in 1 .. n /\ n + 1 - (n + 1 - k) = k
    OBVIOUS
  <2>. QED  BY <2>1
<1>2. T \subseteq Nat /\ T \in SUBSET (1 .. n) /\ IsFiniteSet(1 .. n)
  <2>1. T \subseteq 1 .. n
    OBVIOUS
  <2>2. 1 .. n \subseteq Nat
    OBVIOUS
  <2>3. IsFiniteSet(1 .. n)
    BY FS_Interval
  <2>. HIDE DEF T
  <2>. QED  BY <2>1, <2>2, <2>3
<1>3. IsFiniteSet(T)
  <2>. HIDE DEF T
  <2>. QED  BY <1>2, FS_Subset
<1>4. PICK m \in T : \A j \in T : m <= j
  <2>. HIDE DEF T
  <2>. QED  BY <1>1, <1>2, <1>3, LeastIsThere
<1>5. \A j \in 1 .. n : n + 1 - m < j => j \in S
  <2>. SUFFICES ASSUME NEW j \in 1 .. n, n + 1 - m < j, j \notin S
                PROVE  FALSE
    OBVIOUS
  <2>1. n + 1 - j \in 1 .. n /\ n + 1 - (n + 1 - j) = j /\ n + 1 - j < m
    BY <1>4
  <2>2. n + 1 - j \in T
    BY <2>1
  <2>. QED  BY <1>4, <2>1, <2>2
<1>. QED  BY <1>4, <1>5

\* What holds of 0 and of each number when it holds of the one before it, up to
\* a last one.
LEMMA UpToLast ==
  ASSUME NEW n \in Nat, NEW S, 0 \in S, \A k \in 1 .. n : k - 1 \in S => k \in S
  PROVE  \A k \in 0 .. n : k \in S
<1>. DEFINE T == {k \in 0 .. n : k \notin S}
<1>. SUFFICES ASSUME T # {}
              PROVE  FALSE
  OBVIOUS
<1>1. T \subseteq Nat /\ T \subseteq 0 .. n /\ IsFiniteSet(0 .. n)
  <2>1. IsFiniteSet(0 .. n)
    BY FS_Interval
  <2>. QED  BY <2>1
<1>2. PICK m \in T : \A j \in T : m <= j
  <2>. HIDE DEF T
  <2>. QED  BY <1>1, FS_Subset, LeastIsThere
<1>3. m \in 1 .. n /\ m - 1 \in 0 .. n /\ m - 1 \notin T
  BY <1>2
<1>. QED  BY <1>2, <1>3

\* What begins with c and goes on, at each place, as g says.
Follows(f, n, c, g) == \A k \in 0 .. n : f[k] = IF k = 0 THEN c ELSE g[k][f[k - 1]]

\* There is such a function, up to a last place.
LEMMA RecursionUp ==
  ASSUME NEW n \in Nat, NEW V, NEW c \in V, NEW g \in [1 .. n -> [V -> V]]
  PROVE  \E f \in [0 .. n -> V] : Follows(f, n, c, g)
<1>. DEFINE S == {m \in 0 .. n : \E f \in [0 .. m -> V] : Follows(f, m, c, g)}
<1>1. 0 \in S
  <2>. DEFINE f == [k \in 0 .. 0 |-> c]
  <2>1. f \in [0 .. 0 -> V] /\ \A k \in 0 .. 0 : k = 0 /\ f[k] = c
    OBVIOUS
  <2>. HIDE DEF f
  <2>2. Follows(f, 0, c, g)
    BY <2>1 DEF Follows
  <2>. QED  BY <2>1, <2>2
<1>2. ASSUME NEW m \in 1 .. n, m - 1 \in S
      PROVE  m \in S
  <2>1. PICK f \in [0 .. m - 1 -> V] : Follows(f, m - 1, c, g)
    BY <1>2
  <2>. DEFINE h == [k \in 0 .. m |-> IF k = m THEN g[m][f[m - 1]] ELSE f[k]]
  <2>2. m \in 0 .. n /\ m - 1 \in 0 .. m - 1 /\ m # 0
    OBVIOUS
  <2>3. g[m][f[m - 1]] \in V
    BY <2>2
  <2>4. h \in [0 .. m -> V]
    BY <2>3
  <2>5. ASSUME NEW k \in 0 .. m
        PROVE  h[k] = IF k = 0 THEN c ELSE g[k][h[k - 1]]
    <3>1. CASE k = m
      BY <2>2, <3>1
    <3>2. CASE k # m
      <4>1. k \in 0 .. m - 1 /\ (k # 0 => k - 1 \in 0 .. m - 1 /\ k - 1 # m)
        BY <3>2
      <4>2. f[k] = IF k = 0 THEN c ELSE g[k][f[k - 1]]
        BY <2>1, <4>1 DEF Follows
      <4>3. h[k] = f[k] /\ (k # 0 => h[k - 1] = f[k - 1])
        BY <3>2, <4>1
      <4>. HIDE DEF h
      <4>. QED  BY <4>2, <4>3
    <3>. QED  BY <3>1, <3>2
  <2>. HIDE DEF h
  <2>6. Follows(h, m, c, g)
    BY <2>5 DEF Follows
  <2>. QED  BY <2>2, <2>4, <2>6
<1>3. n \in 0 .. n
  OBVIOUS
<1>. HIDE DEF S
<1>4. n \in S
  BY <1>1, <1>2, <1>3, UpToLast
<1>. QED  BY <1>4 DEF S

-----------------------------------------------------------------------------
(* BitCopy. *)

IsCopy ==
  copy = [src |-> copy.src, dst |-> copy.dst,
          src_off |-> copy.src_off, dst_off |-> copy.dst_off]

InRange ==
  /\ {call.length, call.src_offset, call.dst_offset} \subseteq Nat
  /\ {copy.src_off, copy.dst_off} \subseteq Nat
  /\ copy.src_off - call.src_offset = copy.dst_off - call.dst_offset
  /\ call.src_offset <= copy.src_off /\ copy.src_off <= last_bit

SoFar ==
  /\ DOMAIN copy.dst = DOMAIN call.before
  /\ copy.dst = [j \in DOMAIN call.before |->
       IF j >= call.dst_offset /\ j < copy.dst_off
       THEN copy.src[call.src_offset + j - call.dst_offset] ELSE call.before[j]]
  /\ DOMAIN call.before \subseteq Nat

CopyInv == IsCopy /\ InRange /\ SoFar

\* A number of bits is so many bytes and the rest.
LEMMA Bytes ==
  ASSUME NEW x \in Nat
  PROVE  /\ x \div 8 \in Nat /\ x % 8 \in 0 .. 7
         /\ x = 8 * (x \div 8) + (x % 8)
OBVIOUS

\* A piece of s bits from bit d on, all in one byte: the code finds its bits by
\* their byte and their place in it.
LEMMA PieceInByte ==
  ASSUME NEW d \in Nat, NEW s \in Nat, (d % 8) + s <= 8, NEW j \in Nat
  PROVE  (j \div 8 = d \div 8 /\ j % 8 >= d % 8 /\ j % 8 < (d % 8) + s)
           <=> (j >= d /\ j < d + s)
<1>1. /\ d \div 8 \in Nat /\ d % 8 \in 0 .. 7 /\ d = 8 * (d \div 8) + (d % 8)
      /\ j \div 8 \in Nat /\ j % 8 \in 0 .. 7 /\ j = 8 * (j \div 8) + (j % 8)
  BY Bytes
<1>. QED  BY <1>1

\* Whole bytes and the low bits of the next, from the beginning of a byte on.
LEMMA BytesFrom ==
  ASSUME NEW d \in Nat, d % 8 = 0, NEW n \in Nat, NEW j \in Nat
  PROVE  (\/ j \div 8 >= d \div 8 /\ j \div 8 < d \div 8 + n \div 8
          \/ j \div 8 = d \div 8 + n \div 8 /\ j % 8 < n % 8)
           <=> (j >= d /\ j < d + n)
<1>1. /\ d \div 8 \in Nat /\ d = 8 * (d \div 8)
      /\ j \div 8 \in Nat /\ j % 8 \in 0 .. 7 /\ j = 8 * (j \div 8) + (j % 8)
      /\ n \div 8 \in Nat /\ n % 8 \in 0 .. 7 /\ n = 8 * (n \div 8) + (n % 8)
  BY Bytes
<1>. QED  BY <1>1

\* A bit of whole bytes is found by counting the bytes before it.
LEMMA FromByte ==
  ASSUME NEW x \in Nat, x % 8 = 0, NEW d \in Nat, d % 8 = 0, NEW j \in Nat
  PROVE  8 * (x \div 8 + j \div 8 - d \div 8) + (j % 8) = x + j - d
<1>1. /\ d \div 8 \in Nat /\ d = 8 * (d \div 8)
      /\ j \div 8 \in Nat /\ j % 8 \in 0 .. 7 /\ j = 8 * (j \div 8) + (j % 8)
      /\ x \div 8 \in Nat /\ x = 8 * (x \div 8)
  BY Bytes
<1>. QED  BY <1>1

\* A bit of the source's byte, moved to its place in the destination's.
LEMMA MovedBit ==
  ASSUME NEW x \in Nat, NEW d \in Nat, NEW s \in Nat, (x % 8) + s <= 8, (d % 8) + s <= 8,
         NEW j \in Nat, j >= d, j < d + s
  PROVE  /\ j % 8 >= d % 8
         /\ (j % 8) - (d % 8) + (x % 8) < 8
         /\ 8 * (x \div 8) + ((j % 8) - (d % 8) + (x % 8)) = x + (j - d)
<1>1. /\ d \div 8 \in Nat /\ d % 8 \in 0 .. 7 /\ d = 8 * (d \div 8) + (d % 8)
      /\ j \div 8 \in Nat /\ j % 8 \in 0 .. 7 /\ j = 8 * (j \div 8) + (j % 8)
      /\ x \div 8 \in Nat /\ x % 8 \in 0 .. 7 /\ x = 8 * (x \div 8) + (x % 8)
  BY Bytes
<1>2. j \div 8 = d \div 8
  BY PieceInByte
<1>3. (j % 8) - (d % 8) = j - d
  BY <1>1, <1>2
<1>. QED  BY <1>1, <1>3

-----------------------------------------------------------------------------
LEMMA InitEstablishesCopyInv == CopyInit => CopyInv
<1>. SUFFICES ASSUME CopyInit
              PROVE  CopyInv
  OBVIOUS
<1>1. PICK m \in Nat, n \in Nat, length \in Nat, src_offset \in Nat, dst_offset \in Nat :
        \E src \in Buffers(m), dst \in Buffers(n) :
          /\ copy = [src |-> src, dst |-> dst, src_off |-> src_offset, dst_off |-> dst_offset]
          /\ call = [length |-> length, src_offset |-> src_offset,
                     dst_offset |-> dst_offset, before |-> dst]
  BY DEF CopyInit
<1>2. PICK src \in Buffers(m), dst \in Buffers(n) :
        /\ copy = [src |-> src, dst |-> dst, src_off |-> src_offset, dst_off |-> dst_offset]
        /\ call = [length |-> length, src_offset |-> src_offset,
                   dst_offset |-> dst_offset, before |-> dst]
  BY <1>1
<1>3. IsCopy
  BY <1>2 DEF IsCopy
<1>4. InRange
  BY <1>2 DEF InRange, last_bit
<1>5. SoFar
  <2>1. DOMAIN dst \subseteq Nat /\ dst = [j \in DOMAIN dst |-> dst[j]]
    BY DEF Buffers
  <2>2. \A j \in DOMAIN dst : ~(j >= dst_offset /\ j < dst_offset)
    BY <2>1
  <2>. QED  BY <1>2, <2>1, <2>2 DEF SoFar
<1>. QED  BY <1>3, <1>4, <1>5 DEF CopyInv

LEMMA CopyBytesPreservesInv ==
  ASSUME CopyInv, CopyBytes
  PROVE  CopyInv'
<1>. DEFINE first == call.dst_offset \div 8
            from(j) == 8 * (call.src_offset \div 8 + j \div 8 - first) + (j % 8)
            inside(j) == \/ j \div 8 >= first /\ j \div 8 < first + call.length \div 8
                         \/ j \div 8 = first + call.length \div 8 /\ j % 8 < call.length % 8
            dst == [j \in DOMAIN copy.dst |->
                      IF inside(j) THEN copy.src[from(j)] ELSE copy.dst[j]]
<1>1. /\ call' = call
      /\ copy' = [copy EXCEPT !.src_off = last_bit,
                              !.dst_off = call.dst_offset + call.length,
                              !.dst = dst]
      /\ call.src_offset % 8 = 0 /\ call.dst_offset % 8 = 0
  BY DEF CopyBytes, Aligned
<1>2. /\ call.length \in Nat /\ call.src_offset \in Nat /\ call.dst_offset \in Nat
      /\ copy.dst_off \in Nat /\ copy.src_off \in Nat
      /\ copy.dst_off <= call.dst_offset + call.length
  BY DEF CopyInv, InRange, last_bit
<1>3. /\ copy'.src = copy.src /\ copy'.dst = dst
      /\ copy'.src_off = last_bit /\ copy'.dst_off = call.dst_offset + call.length
      /\ IsCopy'
  <2>. HIDE DEF dst
  <2>. QED  BY <1>1 DEF CopyInv, IsCopy
<1>4. InRange'
  BY <1>1, <1>2, <1>3 DEF InRange, last_bit
<1>5. ASSUME NEW j \in DOMAIN call.before
      PROVE  dst[j] = IF j >= call.dst_offset /\ j < call.dst_offset + call.length
                      THEN copy.src[call.src_offset + j - call.dst_offset] ELSE call.before[j]
  <2>1. j \in Nat /\ j \in DOMAIN copy.dst
    BY DEF CopyInv, SoFar
  <2>2. inside(j) <=> (j >= call.dst_offset /\ j < call.dst_offset + call.length)
    BY <1>1, <1>2, <2>1, BytesFrom
  <2>3. from(j) = call.src_offset + j - call.dst_offset
    BY <1>1, <1>2, <2>1, FromByte, Zenon
  <2>4. ~(j >= call.dst_offset /\ j < call.dst_offset + call.length)
          => copy.dst[j] = call.before[j]
    BY <1>2, <2>1 DEF CopyInv, SoFar
  <2>. HIDE DEF inside, from
  <2>. QED  BY <2>1, <2>2, <2>3, <2>4
<1>6. SoFar'
  <2>1. DOMAIN dst = DOMAIN call.before
    BY DEF CopyInv, SoFar
  <2>2. dst = [j \in DOMAIN call.before |-> dst[j]]
    BY <2>1
  <2>. HIDE DEF dst
  <2>3. dst = [j \in DOMAIN call.before |->
               IF j >= call.dst_offset /\ j < call.dst_offset + call.length
               THEN copy.src[call.src_offset + j - call.dst_offset] ELSE call.before[j]]
    BY <1>5, <2>2
  <2>. QED  BY <1>1, <1>3, <2>1, <2>3 DEF CopyInv, SoFar
<1>. QED  BY <1>3, <1>4, <1>6 DEF CopyInv

LEMMA CopyPiecePreservesInv ==
  ASSUME CopyInv, CopyPiece
  PROVE  CopyInv'
<1>. DEFINE d == copy.dst_off
            x == copy.src_off
            inside(j) == /\ j \div 8 = d \div 8
                         /\ j % 8 >= d % 8 /\ j % 8 < (d % 8) + size
            dst == [j \in DOMAIN copy.dst |->
                      IF inside(j) THEN in(j % 8) ELSE copy.dst[j]]
<1>1. /\ call' = call
      /\ copy' = [copy EXCEPT !.src_off = @ + size, !.dst_off = @ + size, !.dst = dst]
      /\ ~Copied
  BY DEF CopyPiece
<1>2. /\ call.length \in Nat /\ call.src_offset \in Nat /\ call.dst_offset \in Nat
      /\ d \in Nat /\ x \in Nat /\ x - call.src_offset = d - call.dst_offset
      /\ call.src_offset <= x /\ x < last_bit /\ last_bit \in Nat
  BY <1>1 DEF CopyInv, InRange, last_bit, Copied
<1>3. size \in Nat /\ (d % 8) + size <= 8 /\ (x % 8) + size <= 8 /\ x + size <= last_bit
  <2>1. d % 8 \in 0 .. 7 /\ x % 8 \in 0 .. 7
    BY <1>2, Bytes
  <2>. DEFINE larger == Larger(x % 8, d % 8)
  <2>2. larger \in 0 .. 7 /\ x % 8 <= larger /\ d % 8 <= larger
    BY <2>1 DEF Larger
  <2>3. size = chooseMin(8 - larger, last_bit - x)
    BY DEF size
  <2>. HIDE DEF larger
  <2>4. size \in Nat /\ size <= 8 - larger /\ size <= last_bit - x
    BY <1>2, <2>2, <2>3 DEF chooseMin
  <2>. HIDE DEF d, x
  <2>. QED  BY <1>2, <2>1, <2>2, <2>4
<1>4. /\ copy'.src = copy.src /\ copy'.dst = dst
      /\ copy'.src_off = x + size /\ copy'.dst_off = d + size
      /\ IsCopy'
  <2>. HIDE DEF dst
  <2>. QED  BY <1>1 DEF CopyInv, IsCopy
<1>5. InRange'
  BY <1>1, <1>2, <1>3, <1>4 DEF InRange, last_bit
<1>6. ASSUME NEW j \in DOMAIN call.before
      PROVE  dst[j] = IF j >= call.dst_offset /\ j < d + size
                      THEN copy.src[call.src_offset + j - call.dst_offset] ELSE call.before[j]
  <2>1. j \in Nat /\ j \in DOMAIN copy.dst
    BY DEF CopyInv, SoFar
  <2>2. inside(j) <=> (j >= d /\ j < d + size)
    BY <1>2, <1>3, <2>1, PieceInByte
  <2>3. CASE inside(j)
    <3>1. /\ j % 8 >= d % 8
          /\ (j % 8) - (d % 8) + (x % 8) < 8
          /\ 8 * (x \div 8) + ((j % 8) - (d % 8) + (x % 8)) = x + (j - d)
      <4>1. j >= d /\ j < d + size
        BY <2>2, <2>3
      <4>. HIDE DEF d, x
      <4>2. d \in Nat /\ x \in Nat /\ j \in Nat
        BY <1>2, <2>1
      <4>3. size \in Nat /\ (x % 8) + size <= 8 /\ (d % 8) + size <= 8
        BY <1>3
      <4>. QED  BY <4>1, <4>2, <4>3, MovedBit
    <3>2. in(j % 8) = copy.src[x + (j - d)]
      BY <3>1 DEF in
    <3>3. x + (j - d) = call.src_offset + j - call.dst_offset
      BY <1>2, <2>1
    <3>4. j >= call.dst_offset /\ j < d + size
      BY <1>2, <2>1, <2>2, <2>3
    <3>5. dst[j] = in(j % 8)
      BY <2>1, <2>3
    <3>. QED  BY <3>2, <3>3, <3>4, <3>5
  <2>4. CASE ~inside(j)
    <3>1. dst[j] = copy.dst[j]
      BY <2>1, <2>4
    <3>2. (j >= call.dst_offset /\ j < d + size) <=> (j >= call.dst_offset /\ j < d)
      BY <1>2, <1>3, <2>1, <2>2, <2>4
    <3>3. copy.dst[j] = IF j >= call.dst_offset /\ j < d
                        THEN copy.src[call.src_offset + j - call.dst_offset]
                        ELSE call.before[j]
      BY DEF CopyInv, SoFar
    <3>. QED  BY <3>1, <3>2, <3>3
  <2>. QED  BY <2>3, <2>4
<1>7. SoFar'
  <2>1. DOMAIN dst = DOMAIN call.before
    BY DEF CopyInv, SoFar
  <2>2. dst = [j \in DOMAIN call.before |-> dst[j]]
    BY <2>1
  <2>. HIDE DEF dst, d
  <2>3. dst = [j \in DOMAIN call.before |->
               IF j >= call.dst_offset /\ j < d + size
               THEN copy.src[call.src_offset + j - call.dst_offset] ELSE call.before[j]]
    BY <1>6, <2>2
  <2>. QED  BY <1>1, <1>4, <2>1, <2>3 DEF CopyInv, SoFar
<1>. QED  BY <1>4, <1>5, <1>7 DEF CopyInv

LEMMA StepPreservesCopyInv == CopyInv /\ [CopyNext]_copyVars => CopyInv'
<1>1. CopyInv /\ UNCHANGED copyVars => CopyInv'
  BY DEF copyVars, CopyInv, IsCopy, InRange, SoFar, last_bit
<1>. QED  BY <1>1, CopyBytesPreservesInv, CopyPiecePreservesInv DEF CopyNext

\* Whatever the offsets, the length and the sizes of the buffers, when the loop
\* ends the bits asked for are in their place and no other bit has changed
\* (canard_dsdl.c, canardDSDLCopyBits).
THEOREM CopyIsRight == CopySpec => []BitsCopied
<1>1. CopyInv => BitsCopied
  <2>. SUFFICES ASSUME CopyInv, Copied
                PROVE  copy.dst = Wanted
    BY DEF BitsCopied
  <2>1. copy.dst_off = call.dst_offset + call.length
    BY DEF CopyInv, InRange, Copied, last_bit
  <2>. QED  BY <2>1 DEF CopyInv, SoFar, Wanted
<1>. QED  BY <1>1, InitEstablishesCopyInv, StepPreservesCopyInv, PTL DEF CopySpec

-----------------------------------------------------------------------------
(* Numbers and their bits. *)

\* A set of subsets, with one element more in each, is as large as it was.
LEMMA PowerDoubles ==
  ASSUME NEW k \in Nat
  PROVE  2^k \in Nat \ {0} /\ 2^(k + 1) = 2 * 2^k
<1>. DEFINE S == 1 .. k
            T == 1 .. k + 1
            with == {A \cup {k + 1} : A \in SUBSET S}
<1>1. IsFiniteSet(S) /\ Cardinality(S) = k /\ IsFiniteSet(T) /\ Cardinality(T) = k + 1
  BY FS_Interval
<1>2. IsFiniteSet(SUBSET S) /\ Cardinality(SUBSET S) = 2^k
  BY <1>1, FS_SUBSET, Zenon
<1>3. IsFiniteSet(SUBSET T) /\ Cardinality(SUBSET T) = 2^(k + 1)
  BY <1>1, FS_SUBSET, Zenon
<1>4. k + 1 \notin S /\ T = S \cup {k + 1}
  OBVIOUS
<1>. HIDE DEF S, T
<1>5. SUBSET T = (SUBSET S) \cup with
  <2>1. ASSUME NEW A \in SUBSET T, A \notin SUBSET S
        PROVE  A \in with
    <3>. DEFINE B == A \ {k + 1}
    <3>1. B \in SUBSET S /\ A = B \cup {k + 1}
      BY <1>4, <2>1
    <3>. QED  BY <3>1
  <2>2. (SUBSET S) \cup with \subseteq SUBSET T
    BY <1>4
  <2>. QED  BY <2>1, <2>2
<1>6. (SUBSET S) \cap with = {}
  BY <1>4
<1>7. IsFiniteSet(with) /\ Cardinality(with) = Cardinality(SUBSET S)
  <2>. DEFINE f == [A \in SUBSET S |-> A \cup {k + 1}]
  <2>1. f \in [SUBSET S -> with]
    OBVIOUS
  <2>2. ASSUME NEW A \in SUBSET S, NEW B \in SUBSET S, f[A] = f[B]
        PROVE  A = B
    <3>1. A \cup {k + 1} = B \cup {k + 1}
      BY <2>2
    <3>2. k + 1 \notin A /\ k + 1 \notin B
      BY <1>4
    <3>. QED  BY <3>1, <3>2
  <2>3. \A C \in with : \E A \in SUBSET S : f[A] = C
    OBVIOUS
  <2>. HIDE DEF f, with
  <2>4. DOMAIN f = SUBSET S
    BY <2>1
  <2>5. f \in Injection(SUBSET S, with)
    BY <2>1, <2>2, <2>4, Zenon DEF Injection, IsInjective
  <2>6. f \in Surjection(SUBSET S, with)
    BY <2>1, <2>3, Zenon DEF Surjection
  <2>7. ExistsBijection(SUBSET S, with)
    BY <2>5, <2>6 DEF ExistsBijection, Bijection
  <2>. QED  BY <1>2, <2>7, FS_Bijection, Zenon
<1>. HIDE DEF with
<1>8. 2^(k + 1) = Cardinality(SUBSET S) + Cardinality(with) - Cardinality((SUBSET S) \cap with)
  BY <1>2, <1>3, <1>5, <1>7, FS_Union
<1>9. Cardinality({}) = 0
  BY FS_EmptySet
<1>10. 2^k \in Nat /\ 2^k # 0
  <2>1. {} \in SUBSET S
    OBVIOUS
  <2>2. SUBSET S # {}
    BY <2>1
  <2>. QED  BY <1>2, <2>2, FS_CardinalityType, FS_EmptySet
<1>. DEFINE p == 2^k
            q == 2^(k + 1)
<1>11. p \in Nat \ {0} /\ q = p + p - 0
  BY <1>2, <1>6, <1>7, <1>8, <1>9, <1>10
<1>12. q = 2 * p
  <2>. HIDE DEF p, q
  <2>. QED  BY <1>11
<1>. QED  BY <1>11, <1>12

\* A quotient and a remainder in range are the quotient and the remainder.
LEMMA QuotientIsUnique ==
  ASSUME NEW m \in Nat \ {0}, NEW q \in Int, NEW r \in 0 .. m - 1, NEW x \in Int, x = m * q + r
  PROVE  x \div m = q /\ x % m = r
OBVIOUS

\* A number is its quotient and its remainder.
LEMMA QuotientAndRest ==
  ASSUME NEW m \in Nat \ {0}, NEW x \in Int
  PROVE  x \div m \in Int /\ x % m \in 0 .. m - 1 /\ x = m * (x \div m) + (x % m)
OBVIOUS

\* A shift by one more bit is a shift by one after the others.
LEMMA OneShiftMore ==
  ASSUME NEW m \in Nat \ {0}, NEW x \in Int
  PROVE  x \div (2 * m) = (x \div m) \div 2
<1>. DEFINE q == x \div m   r == x % m
            h == q \div 2 s == q % 2
<1>1. q \in Int /\ r \in 0 .. m - 1 /\ x = m * q + r
  BY QuotientAndRest
<1>. HIDE DEF q, r
<1>2. h \in Int /\ s \in 0 .. 1 /\ q = 2 * h + s
  BY <1>1
<1>. HIDE DEF h, s
<1>3. s = 0 \/ s = 1
  BY <1>2
<1>4. m * s + r \in 0 .. (2 * m) - 1
  BY <1>1, <1>2, <1>3
<1>5. x = (2 * m) * h + (m * s + r)
  BY <1>1, <1>2, <1>3
<1>6. 2 * m \in Nat \ {0}
  OBVIOUS
<1>7. x \div (2 * m) = h
  BY <1>2, <1>4, <1>5, <1>6, QuotientIsUnique
<1>. QED  BY <1>7 DEF h, q

\* The low bits are the lowest and the low ones of the rest.
LEMMA LowBitFirst ==
  ASSUME NEW m \in Nat \ {0}, NEW x \in Int
  PROVE  x % (2 * m) = (x % 2) + 2 * ((x \div 2) % m)
<1>. DEFINE h == x \div 2  b == x % 2
            q == h \div m  r == h % m
<1>1. h \in Int /\ b \in 0 .. 1 /\ x = 2 * h + b
  OBVIOUS
<1>. HIDE DEF h, b
<1>2. q \in Int /\ r \in 0 .. m - 1 /\ h = m * q + r
  BY <1>1, QuotientAndRest
<1>. HIDE DEF q, r
<1>. DEFINE M == 2 * m
            low == b + 2 * r
<1>3. M \in Nat \ {0} /\ low \in 0 .. M - 1
  BY <1>1, <1>2
<1>4. x = M * q + low
  BY <1>1, <1>2
<1>. HIDE DEF M, low
<1>5. x % M = low
  BY <1>2, <1>3, <1>4, QuotientIsUnique
<1>. QED  BY <1>5 DEF M, low, r, b, h

\* Bit k of a number.
BitAt(v, k) == (v \div 2^k) % 2

\* The bits of a number, as many as there is room for, are what is left of it
\* (canard_dsdl.c: canardDSDLSetUxx packs them, canardDSDLGetU32 reads them).
LEMMA BitsMakeNumber ==
  ASSUME NEW v \in Int, NEW n \in 0 .. WIDTH32, NEW bits,
         \A k \in 0 .. WIDTH32 - 1 : bits[k] = IF k < n THEN BitAt(v, k) ELSE 0
  PROVE  NumberOf(bits) = v % 2^n
<1>. DEFINE W == WIDTH32
            rest(k) == (v \div 2^k) % 2^(n - k)
            h == [k \in 0 .. W |-> IF k <= n THEN rest(k) ELSE 0]
            Makes(f) == f = [k \in 0 .. W |-> IF k = W THEN 0 ELSE bits[k] + 2 * f[k + 1]]
<1>1. W \in Nat /\ n \in 0 .. W
  BY CodecAssumption
<1>2. rest(n) = 0 /\ rest(0) = v % 2^n
  <2>1. n - n = 0 /\ n - 0 = n /\ 2^0 = 1
    BY <1>1
  <2>2. v \div 1 = v
    OBVIOUS
  <2>. DEFINE x == v \div 2^n
  <2>3. x \in Int
    <3>1. 2^n \in Nat \ {0}
      BY <1>1, PowerDoubles
    <3>. QED  BY <3>1, QuotientAndRest
  <2>. HIDE DEF x
  <2>4. x % 1 = 0
    BY <2>3
  <2>. QED  BY <2>1, <2>2, <2>4 DEF x
<1>3. ASSUME NEW k \in 0 .. W, k < n
      PROVE  rest(k) = BitAt(v, k) + 2 * rest(k + 1)
  <2>. DEFINE m == 2^k
              r == 2^(n - (k + 1))
              x == v \div m
  <2>1. k \in Nat /\ n - (k + 1) \in Nat /\ n - k = (n - (k + 1)) + 1
    BY <1>1, <1>3
  <2>2. m \in Nat \ {0} /\ 2^(k + 1) = 2 * m
    BY <2>1, PowerDoubles
  <2>3. r \in Nat \ {0} /\ 2^(n - k) = 2 * r
    BY <2>1, PowerDoubles
  <2>4. x \in Int
    <3>. HIDE DEF m
    <3>. QED  BY <2>2, QuotientAndRest
  <2>5. v \div 2^(k + 1) = x \div 2
    <3>. HIDE DEF m
    <3>1. v \div (2 * m) = (v \div m) \div 2
      BY <2>2, OneShiftMore
    <3>. QED  BY <2>2, <3>1
  <2>6. x % (2 * r) = (x % 2) + 2 * ((x \div 2) % r)
    <3>. HIDE DEF x, r
    <3>. QED  BY <2>3, <2>4, LowBitFirst
  <2>7. rest(k) = x % (2 * r)
    BY <2>3
  <2>8. rest(k + 1) = (x \div 2) % r
    BY <2>5
  <2>9. BitAt(v, k) = x % 2
    BY DEF BitAt
  <2>. HIDE DEF rest, x, r
  <2>. QED  BY <2>6, <2>7, <2>8, <2>9
<1>4. Makes(h)
  <2>1. ASSUME NEW k \in 0 .. W
        PROVE  h[k] = IF k = W THEN 0 ELSE bits[k] + 2 * h[k + 1]
    <3>. HIDE DEF rest
    <3>1. CASE k < n
      <4>1. k # W /\ k + 1 \in 0 .. W /\ k + 1 <= n /\ k \in 0 .. WIDTH32 - 1
        BY <1>1, <3>1
      <4>2. h[k] = rest(k) /\ h[k + 1] = rest(k + 1) /\ bits[k] = BitAt(v, k)
        BY <1>1, <3>1, <4>1
      <4>3. rest(k) = BitAt(v, k) + 2 * rest(k + 1)
        BY <1>3, <3>1
      <4>. HIDE DEF h
      <4>. QED  BY <4>1, <4>2, <4>3
    <3>2. CASE ~(k < n)
      <4>1. h[k] = 0
        BY <1>1, <1>2, <3>2
      <4>2. k # W => bits[k] = 0 /\ h[k + 1] = 0
        BY <1>1, <3>2
      <4>. HIDE DEF h
      <4>. QED  BY <4>1, <4>2
    <3>. QED  BY <3>1, <3>2
  <2>2. h = [k \in 0 .. W |-> h[k]]
    OBVIOUS
  <2>. HIDE DEF h
  <2>. QED  BY <2>1, <2>2, Zenon
<1>. DEFINE f == CHOOSE f : Makes(f)
<1>5. Makes(f)
  <2>. HIDE DEF Makes
  <2>. QED  BY <1>4
<1>6. \A j \in 0 .. W : j \in {i \in 0 .. W : f[W - i] = h[W - i]}
  <2>. DEFINE S == {i \in 0 .. W : f[W - i] = h[W - i]}
  <2>. HIDE DEF f, h
  <2>1. 0 \in S
    <3>1. W \in 0 .. W /\ W - 0 = W
      BY <1>1
    <3>. QED  BY <1>1, <1>4, <1>5, <3>1
  <2>2. ASSUME NEW j \in 1 .. W, j - 1 \in S
        PROVE  j \in S
    <3>1. W - j \in 0 .. W /\ W - j # W /\ (W - j) + 1 = W - (j - 1)
      BY <1>1
    <3>2. f[W - (j - 1)] = h[W - (j - 1)]
      BY <2>2
    <3>3. f[W - j] = bits[W - j] + 2 * f[(W - j) + 1]
      BY <1>5, <3>1
    <3>4. h[W - j] = bits[W - j] + 2 * h[(W - j) + 1]
      BY <1>4, <3>1
    <3>. QED  BY <3>1, <3>2, <3>3, <3>4
  <2>. HIDE DEF S
  <2>3. \A j \in 0 .. W : j \in S
    BY <1>1, <2>1, <2>2, UpToLast
  <2>. QED  BY <2>3 DEF S
<1>7. f[0] = h[0]
  <2>. HIDE DEF f, h
  <2>1. W \in 0 .. W /\ W - W = 0
    BY <1>1
  <2>. QED  BY <1>6, <2>1
<1>8. h[0] = v % 2^n
  <2>1. 0 \in 0 .. W /\ 0 <= n
    BY <1>1
  <2>. HIDE DEF rest
  <2>. QED  BY <1>2, <2>1
<1>9. NumberOf(bits) = f[0]
  BY Zenon DEF NumberOf
<1>. QED  BY <1>7, <1>8, <1>9

LEMMA BitIsBit ==
  ASSUME NEW v \in Int, NEW k \in Nat
  PROVE  BitAt(v, k) \in {0, 1}
<1>. DEFINE m == 2^k
            x == v \div m
<1>1. m \in Nat \ {0}
  BY PowerDoubles
<1>2. x \in Int
  <2>. HIDE DEF m
  <2>. QED  BY <1>1, QuotientAndRest
<1>. HIDE DEF x
<1>3. x % 2 \in {0, 1}
  BY <1>2
<1>. QED  BY <1>3 DEF BitAt, x

-----------------------------------------------------------------------------
(* MsgCodec. *)

\* The bits of a signal in the message, and those of them that are packed.
Size(s) == IF s.kind = "float" THEN WIDTH32 ELSE s.bit_length
Packs(s) == IF s.kind = "float" THEN WIDTH32 ELSE chooseMin(s.bit_length, WIDTH64)

\* The signals of a message of the database.
LEMMA Signals ==
  ASSUME NEW layout \in Layouts
  PROVE  /\ Len(layout) \in Nat /\ DOMAIN layout = 1 .. Len(layout)
         /\ \A i \in DOMAIN layout :
              /\ layout[i].start_bit \in Nat /\ layout[i].bit_length \in Nat
              /\ \A b \in Extent(layout[i]) : b < BuffBits
<1>. DEFINE R == [start_bit : Nat, bit_length : Nat, kind : DOMAIN Typed]
<1>1. layout \in Seq(R)
  BY CodecAssumption
<1>2. \A i \in DOMAIN layout : \A b \in Extent(layout[i]) : b < BuffBits
  BY CodecAssumption, Zenon
<1>3. \A s \in R : s.start_bit \in Nat /\ s.bit_length \in Nat
  OBVIOUS
<1>. HIDE DEF R
<1>4. /\ \A i \in DOMAIN layout : layout[i] \in R
      /\ Len(layout) \in Nat /\ DOMAIN layout = 1 .. Len(layout)
  BY <1>1
<1>. QED  BY <1>2, <1>3, <1>4

LEMMA Sizes ==
  ASSUME NEW s, s.start_bit \in Nat, s.bit_length \in Nat
  PROVE  /\ Size(s) \in Nat /\ Packs(s) \in Nat
         /\ Packs(s) <= Size(s) /\ Packs(s) <= WIDTH64
         /\ Size(s) <= WIDTH64 => Packs(s) = Size(s)
         /\ Size(s) > WIDTH64 => Packs(s) = WIDTH64
         /\ \A b : b \in Extent(s) <=> b \in s.start_bit .. s.start_bit + Size(s) - 1
<1>1. WIDTH32 \in Nat /\ WIDTH64 \in Nat /\ WIDTH32 <= WIDTH64
  BY CodecAssumption DEF WIDTH64
<1>2. Extent(s) = s.start_bit .. s.start_bit + Size(s) - 1
  BY Zenon DEF Extent, Size
<1>3. CASE s.kind = "float"
  BY <1>1, <1>2, <1>3 DEF Size, Packs
<1>4. CASE s.kind # "float"
  BY <1>1, <1>2, <1>4 DEF Size, Packs, chooseMin
<1>. QED  BY <1>3, <1>4

\* A message has a length: the lengths of its signals can be added.
LEMMA LengthIsNat ==
  ASSUME NEW layout \in Layouts
  PROVE  msg_len(layout) \in Nat
<1>. DEFINE n == Len(layout)
            g == [k \in 1 .. n |-> [x \in Nat |-> x + layout[k].bit_length]]
            Sums(f) == f = [k \in 0 .. n |-> IF k = 0 THEN 0 ELSE f[k - 1] + layout[k].bit_length]
            f == CHOOSE f : Sums(f)
<1>1. n \in Nat /\ \A k \in 1 .. n : layout[k].bit_length \in Nat
  BY Signals
<1>2. g \in [1 .. n -> [Nat -> Nat]]
  <2>1. \A k \in 1 .. n : [x \in Nat |-> x + layout[k].bit_length] \in [Nat -> Nat]
    BY <1>1
  <2>. QED  BY <2>1, Zenon
<1>3. PICK h \in [0 .. n -> Nat] : Follows(h, n, 0, g)
  <2>. HIDE DEF g
  <2>. QED  BY <1>1, <1>2, RecursionUp
<1>4. Sums(h)
  <2>1. ASSUME NEW k \in 0 .. n
        PROVE  h[k] = IF k = 0 THEN 0 ELSE h[k - 1] + layout[k].bit_length
    <3>1. h[k] = IF k = 0 THEN 0 ELSE g[k][h[k - 1]]
      BY <1>3 DEF Follows
    <3>2. k # 0 => k \in 1 .. n /\ k - 1 \in 0 .. n
      BY <1>1
    <3>3. k # 0 => h[k - 1] \in Nat
      BY <1>3, <3>2
    <3>. QED  BY <3>1, <3>2, <3>3
  <2>2. h = [k \in 0 .. n |-> h[k]]
    BY <1>3
  <2>. QED  BY <2>1, <2>2, Zenon
<1>5. Sums(f)
  <2>. HIDE DEF Sums
  <2>. QED  BY <1>4
<1>. HIDE DEF f
<1>6. \A k \in 0 .. n : k \in {j \in 0 .. n : f[j] \in Nat}
  <2>. DEFINE S == {j \in 0 .. n : f[j] \in Nat}
  <2>1. 0 \in S
    BY <1>1, <1>5
  <2>2. ASSUME NEW k \in 1 .. n, k - 1 \in S
        PROVE  k \in S
    <3>1. k \in 0 .. n /\ k # 0 /\ f[k - 1] \in Nat
      BY <1>1, <2>2
    <3>2. f[k] = f[k - 1] + layout[k].bit_length
      BY <1>5, <3>1
    <3>. QED  BY <1>1, <3>1, <3>2
  <2>. HIDE DEF S
  <2>3. \A k \in 0 .. n : k \in S
    BY <1>1, <2>1, <2>2, UpToLast
  <2>. QED  BY <2>3 DEF S
<1>7. f[n] \in Nat
  BY <1>1, <1>6
<1>8. msg_len(layout) = (f[n] + 7) \div 8
  BY Zenon DEF msg_len, f
<1>. QED  BY <1>7, <1>8

\* The bits of the i-th signal stand in the buffer, but for those that a later
\* one lies over, up to the last.
Placed(m, buff, i, last) ==
  \A b \in Extent(m.layout[i]) :
    /\ b - m.layout[i].start_bit < WIDTH64
    /\ \A j \in i + 1 .. last : b \notin Extent(m.layout[j])
    => buff[b] = BitAt(m.typed[i], b - m.layout[i].start_bit)

\* As Kept, of any message.
KeptIn(m, i) ==
  /\ \A j \in i + 1 .. Len(m.layout) : Extent(m.layout[i]) \cap Extent(m.layout[j]) = {}
  /\ \A b \in Extent(m.layout[i]) : b < 8 * msg_len(m.layout)

\* The parts of the inductive invariant, of the values that a state has.
MsgOK(m) ==
  /\ m.layout \in Layouts
  /\ m.typed \in [DOMAIN m.layout -> Int]
PcOK(m, p) ==
  /\ p \in [loop : {"encode", "decode"}, copying : BOOLEAN, at : Nat]
  /\ p.at \in 1 .. Len(m.layout) + 1
  /\ p.copying => p.at \in DOMAIN m.layout
DataOK(m, p, d) ==
  /\ d = [encode_buff |-> d.encode_buff, array |-> d.array]
  /\ d.encode_buff \in [0 .. BuffBits - 1 -> {0, 1}]
  /\ p.loop = "decode" =>
       d.array = [j \in 0 .. 8 * msg_len(m.layout) - 1 |-> d.encode_buff[j]]
\* The call under way is the one for the signal at which the loop is.
CallOK(m, p, d, src, c) ==
  p.copying =>
    LET s == m.layout[p.at]
    IN  \/ /\ p.loop = "encode"
           /\ c = [length |-> Packs(s), src_offset |-> 0, dst_offset |-> s.start_bit,
                   before |-> d.encode_buff]
           /\ src = BitsOf(m.typed[p.at], WIDTH64)
        \/ /\ p.loop = "decode"
           /\ c = [length |-> getBitCopySize(8 * msg_len(m.layout), s.start_bit, Size(s)),
                   src_offset |-> s.start_bit, dst_offset |-> 0, before |-> Zero(WIDTH32)]
           /\ src = d.array
PlacedOK(m, p, d) ==
  LET last == IF p.loop = "encode" THEN p.at - 1 ELSE Len(m.layout)
  IN  \A i \in 1 .. last : Placed(m, d.encode_buff, i, last)
ShownOK(m, p, v) ==
  /\ v = [i \in DOMAIN m.layout |-> v[i]]
  /\ p.loop = "decode" =>
       \A i \in 1 .. p.at - 1 : KeptIn(m, i) => v[i] = Fitted(m.layout[i], m.typed[i])

AllOK(m, p, d, v, src, c) ==
  /\ MsgOK(m) /\ PcOK(m, p) /\ DataOK(m, p, d)
  /\ CallOK(m, p, d, src, c) /\ PlacedOK(m, p, d) /\ ShownOK(m, p, v)

CodecInv == CopyInv /\ AllOK(msg, pc, data, value, copy.src, call)

LEMMA InitEstablishesCodecInv == CodecInit => CodecInv
<1>. SUFFICES ASSUME CodecInit
              PROVE  CodecInv
  OBVIOUS
<1>. DEFINE numbers == UNION {Typed[k] : k \in DOMAIN Typed}
<1>1. PICK layout \in Layouts :
         \E typed \in [DOMAIN layout -> numbers] :
           /\ msg = [layout |-> layout, typed |-> typed]
           /\ value = [i \in DOMAIN layout |-> 0]
  BY Zenon DEF CodecInit
<1>2. PICK typed \in [DOMAIN layout -> numbers] :
        /\ msg = [layout |-> layout, typed |-> typed]
        /\ value = [i \in DOMAIN layout |-> 0]
  BY Zenon, <1>1
<1>3. PICK garbage \in {0, 1} :
        data = [encode_buff |-> [j \in 0 .. BuffBits - 1 |-> garbage], array |-> <<>>]
  BY Zenon DEF CodecInit
<1>4. /\ pc = [loop |-> "encode", copying |-> FALSE, at |-> 1]
      /\ copy = [src |-> <<>>, dst |-> <<>>, src_off |-> 0, dst_off |-> 0]
      /\ call = [length |-> 0, src_offset |-> 0, dst_offset |-> 0, before |-> <<>>]
  BY Zenon DEF CodecInit
<1>5. CopyInv
  <2>1. IsCopy
    BY <1>4 DEF IsCopy
  <2>2. InRange
    BY <1>4 DEF InRange, last_bit
  <2>3. SoFar
    <3>1. DOMAIN <<>> = {} /\ \A f : <<>> = [j \in {} |-> f[j]]
      OBVIOUS
    <3>. QED  BY <1>4, <3>1 DEF SoFar
  <2>. QED  BY <2>1, <2>2, <2>3 DEF CopyInv
<1>6. Len(layout) \in Nat /\ DOMAIN layout = 1 .. Len(layout)
  BY Signals
<1>7. MsgOK(msg)
  <2>1. numbers \subseteq Int
    BY CodecAssumption
  <2>2. typed \in [DOMAIN layout -> Int]
    BY <2>1
  <2>. QED  BY <1>2, <2>2 DEF MsgOK
<1>8. PcOK(msg, pc)
  BY <1>2, <1>4, <1>6 DEF PcOK
<1>9. DataOK(msg, pc, data)
  BY <1>3, <1>4 DEF DataOK
<1>10. CallOK(msg, pc, data, copy.src, call)
  BY <1>4 DEF CallOK
<1>11. PlacedOK(msg, pc, data)
  BY <1>4 DEF PlacedOK
<1>12. ShownOK(msg, pc, value)
  <2>1. value = [i \in DOMAIN msg.layout |-> value[i]]
    BY <1>2
  <2>. QED  BY <1>4, <2>1 DEF ShownOK
<1>. QED  BY <1>5, <1>7, <1>8, <1>9, <1>10, <1>11, <1>12 DEF CodecInv, AllOK

\* A call begins with nothing copied.
LEMMA BeginEstablishesCopyInv ==
  ASSUME NEW length \in Nat, NEW src_offset \in Nat, NEW dst_offset \in Nat, NEW src, NEW n \in Nat,
         NEW dst, dst = [j \in 0 .. n - 1 |-> dst[j]],
         Begin(length, src_offset, dst_offset, src, dst)
  PROVE  CopyInv' /\ copy'.src = src
<1>1. /\ copy' = [src |-> src, dst |-> dst, src_off |-> src_offset, dst_off |-> dst_offset]
      /\ call' = [length |-> length, src_offset |-> src_offset,
                  dst_offset |-> dst_offset, before |-> dst]
  BY DEF Begin
<1>2. IsCopy' /\ copy'.src = src
  BY <1>1 DEF IsCopy
<1>3. InRange'
  BY <1>1 DEF InRange, last_bit
<1>4. SoFar'
  <2>1. DOMAIN dst = 0 .. n - 1 /\ DOMAIN dst \subseteq Nat
    OBVIOUS
  <2>2. \A j \in DOMAIN dst : ~(j >= dst_offset /\ j < dst_offset)
    BY <2>1
  <2>3. dst = [j \in DOMAIN dst |-> dst[j]]
    BY <2>1
  <2>. QED  BY <1>1, <2>1, <2>2, <2>3 DEF SoFar
<1>. QED  BY <1>2, <1>3, <1>4 DEF CopyInv

\* The pieces leave what is copied from, and the call, as they are.
LEMMA PiecesKeepSource ==
  ASSUME CopyInv, CopyNext
  PROVE  copy'.src = copy.src /\ call' = call
<1>1. PICK s, d, b : copy' = [copy EXCEPT !.src_off = s, !.dst_off = d, !.dst = b]
  <2>1. CASE CopyBytes
    BY Zenon, <2>1 DEF CopyBytes
  <2>2. CASE CopyPiece
    BY Zenon, <2>2 DEF CopyPiece
  <2>. QED  BY <2>1, <2>2 DEF CopyNext
<1>2. call' = call
  BY DEF CopyNext, CopyBytes, CopyPiece
<1>. QED  BY <1>1, <1>2 DEF CopyInv, IsCopy

LEMMA EncodeSignalPreserves ==
  ASSUME CodecInv, EncodeSignal
  PROVE  CodecInv'
<1>. DEFINE s == msg.layout[pc.at]
<1>1. /\ MsgOK(msg) /\ PcOK(msg, pc) /\ DataOK(msg, pc, data)
      /\ PlacedOK(msg, pc, data) /\ ShownOK(msg, pc, value)
  BY Zenon DEF CodecInv, AllOK
<1>2. /\ pc.loop = "encode" /\ pc' = [pc EXCEPT !.copying = TRUE]
      /\ msg' = msg /\ data' = data /\ value' = value
      /\ Begin(Packs(s), 0, s.start_bit, BitsOf(msg.typed[pc.at], WIDTH64), data.encode_buff)
  BY Zenon DEF EncodeSignal, At, Copying, Sig, Packs
<1>3. pc.at \in DOMAIN msg.layout /\ msg.layout \in Layouts
  BY <1>1, Signals DEF PcOK, MsgOK, EncodeSignal, At
<1>4. s.start_bit \in Nat /\ s.bit_length \in Nat /\ Packs(s) \in Nat
  BY <1>3, Signals, Sizes
<1>5. BuffBits \in Nat /\ data.encode_buff = [j \in 0 .. BuffBits - 1 |-> data.encode_buff[j]]
  BY <1>1, CodecAssumption DEF DataOK
<1>. HIDE DEF s
<1>6. CopyInv' /\ copy'.src = BitsOf(msg.typed[pc.at], WIDTH64)
  BY <1>2, <1>4, <1>5, BeginEstablishesCopyInv
<1>7. /\ pc'.loop = "encode" /\ pc'.at = pc.at
      /\ PcOK(msg, pc')
  BY <1>1, <1>2, <1>3 DEF PcOK
<1>8. CallOK(msg, pc', data, copy'.src, call')
  BY <1>2, <1>6, <1>7 DEF CallOK, Begin, s
<1>9. DataOK(msg, pc', data) /\ PlacedOK(msg, pc', data) /\ ShownOK(msg, pc', value)
  BY <1>1, <1>2, <1>7 DEF DataOK, PlacedOK, ShownOK
<1>. QED  BY Zenon, <1>1, <1>2, <1>6, <1>7, <1>8, <1>9 DEF CodecInv, AllOK

LEMMA PiecePreserves ==
  ASSUME CodecInv, Piece
  PROVE  CodecInv'
<1>1. CopyInv' /\ copy'.src = copy.src /\ call' = call
  BY PiecesKeepSource, StepPreservesCopyInv DEF Piece, CodecInv
<1>2. msg' = msg /\ pc' = pc /\ data' = data /\ value' = value
  BY DEF Piece
<1>. QED  BY Zenon, <1>1, <1>2 DEF CodecInv

\* The buffer that a call leaves when it has ended.
LEMMA WhatIsLeft ==
  ASSUME CopyInv, Copied
  PROVE  copy.dst = Wanted
<1>1. copy.dst_off = call.dst_offset + call.length
  BY DEF CopyInv, InRange, Copied, last_bit
<1>. QED  BY <1>1 DEF CopyInv, SoFar, Wanted

\* What is packed stands in the buffer, and what stood there, but where it lies.
LEMMA SignalIsPlaced ==
  ASSUME NEW m, MsgOK(m), NEW at \in DOMAIN m.layout,
         NEW buff \in [0 .. BuffBits - 1 -> {0, 1}], NEW buff2,
         \A i \in 1 .. at - 1 : Placed(m, buff, i, at - 1),
         buff2 = [j \in 0 .. BuffBits - 1 |->
                    IF j >= m.layout[at].start_bit /\ j < m.layout[at].start_bit + Packs(m.layout[at])
                    THEN BitsOf(m.typed[at], WIDTH64)[j - m.layout[at].start_bit] ELSE buff[j]]
  PROVE  /\ buff2 \in [0 .. BuffBits - 1 -> {0, 1}]
         /\ \A i \in 1 .. at : Placed(m, buff2, i, at)
<1>. DEFINE s == m.layout[at]
            start == s.start_bit
            v == m.typed[at]
<1>1. /\ m.layout \in Layouts /\ v \in Int
      /\ Len(m.layout) \in Nat /\ DOMAIN m.layout = 1 .. Len(m.layout)
      /\ start \in Nat /\ s.bit_length \in Nat
      /\ \A i \in DOMAIN m.layout : \A b \in Extent(m.layout[i]) : b < BuffBits
  BY Signals DEF MsgOK
<1>. HIDE DEF s
<1>2. /\ Size(s) \in Nat /\ Packs(s) \in Nat /\ Packs(s) <= Size(s) /\ Packs(s) <= WIDTH64
      /\ Size(s) <= WIDTH64 => Packs(s) = Size(s)
      /\ Size(s) > WIDTH64 => Packs(s) = WIDTH64
      /\ \A b : b \in Extent(s) <=> b \in start .. start + Size(s) - 1
  BY <1>1, Sizes
<1>3. WIDTH64 \in Nat /\ BuffBits \in Nat
  BY CodecAssumption DEF WIDTH64
<1>. HIDE DEF v
<1>4. ASSUME NEW j \in 0 .. BuffBits - 1, j >= start, j < start + Packs(s)
      PROVE  buff2[j] = BitAt(v, j - start) /\ buff2[j] \in {0, 1}
  <2>1. j - start \in 0 .. WIDTH64 - 1 /\ j - start \in Nat
    BY <1>1, <1>2, <1>3, <1>4
  <2>2. BitsOf(v, WIDTH64)[j - start] = BitAt(v, j - start)
    BY <2>1 DEF BitsOf, BitAt
  <2>3. BitAt(v, j - start) \in {0, 1}
    BY <1>1, <2>1, BitIsBit
  <2>4. buff2[j] = BitsOf(v, WIDTH64)[j - start]
    BY <1>4 DEF s, v
  <2>. QED  BY <2>2, <2>3, <2>4
<1>5. ASSUME NEW j \in 0 .. BuffBits - 1, ~(j >= start /\ j < start + Packs(s))
      PROVE  buff2[j] = buff[j] /\ buff2[j] \in {0, 1}
  BY <1>5 DEF s
<1>6. buff2 \in [0 .. BuffBits - 1 -> {0, 1}]
  <2>1. buff2 = [j \in 0 .. BuffBits - 1 |-> buff2[j]]
    OBVIOUS
  <2>. QED  BY <1>4, <1>5, <2>1, Zenon
<1>7. ASSUME NEW i \in 1 .. at
      PROVE  Placed(m, buff2, i, at)
  <2>. SUFFICES ASSUME NEW b \in Extent(m.layout[i]), b - m.layout[i].start_bit < WIDTH64,
                       \A j \in i + 1 .. at : b \notin Extent(m.layout[j])
                PROVE  buff2[b] = BitAt(m.typed[i], b - m.layout[i].start_bit)
    BY DEF Placed
  <2>1. i \in DOMAIN m.layout /\ at \in Nat
    BY <1>1
  <2>2. b \in 0 .. BuffBits - 1
    <3>1. m.layout[i].start_bit \in Nat /\ m.layout[i].bit_length \in Nat
      BY <1>1, <2>1, Signals
    <3>2. b \in Nat
      BY <3>1, Sizes
    <3>3. b < BuffBits
      BY <1>1, <2>1
    <3>. QED  BY <1>3, <3>2, <3>3
  <2>3. CASE i = at
    <3>1. b \in Extent(s) /\ b - start < WIDTH64 /\ m.typed[i] = v
      BY <2>3 DEF s, v
    <3>2. b >= start /\ b < start + Packs(s)
      BY <1>1, <1>2, <1>3, <3>1
    <3>3. buff2[b] = BitAt(v, b - start)
      BY <1>4, <2>2, <3>2
    <3>. QED  BY <2>3, <3>1, <3>3 DEF s
  <2>4. CASE i # at
    <3>1. i \in 1 .. at - 1 /\ at \in i + 1 .. at
      BY <2>1, <2>4
    <3>2. b \notin Extent(s)
      BY <3>1 DEF s
    <3>3. ~(b >= start /\ b < start + Packs(s))
      BY <1>1, <1>2, <1>3, <2>2, <3>2
    <3>4. buff2[b] = buff[b]
      BY <1>5, <2>2, <3>3
    <3>5. \A j \in i + 1 .. at - 1 : j \in i + 1 .. at
      BY <2>1
    <3>6. \A j \in i + 1 .. at - 1 : b \notin Extent(m.layout[j])
      BY Zenon, <3>5
    <3>7. buff[b] = BitAt(m.typed[i], b - m.layout[i].start_bit)
      BY Zenon, <3>1, <3>6 DEF Placed
    <3>. QED  BY <3>4, <3>7
  <2>. QED  BY <2>3, <2>4
<1>. QED  BY <1>6, <1>7

\* The loop comes to the next signal.
LEMMA NextSignal ==
  ASSUME NEW m, MsgOK(m), PcOK(m, pc), pc.at \in DOMAIN m.layout, Advance
  PROVE  /\ pc'.loop = pc.loop /\ pc'.copying = FALSE /\ pc'.at = pc.at + 1
         /\ PcOK(m, pc')
<1>1. Len(m.layout) \in Nat /\ DOMAIN m.layout = 1 .. Len(m.layout)
  BY Signals DEF MsgOK
<1>2. pc \in [loop : {"encode", "decode"}, copying : BOOLEAN, at : Nat]
  BY DEF PcOK
<1>3. pc = [loop |-> pc.loop, copying |-> pc.copying, at |-> pc.at]
  BY <1>2
<1>4. pc' = [loop |-> pc.loop, copying |-> FALSE, at |-> pc.at + 1]
  BY <1>3 DEF Advance
<1>5. pc.at + 1 \in Nat /\ pc.at + 1 \in 1 .. Len(m.layout) + 1
  BY <1>1
<1>6. pc' \in [loop : {"encode", "decode"}, copying : BOOLEAN, at : Nat]
  BY <1>2, <1>4, <1>5
<1>. QED  BY <1>4, <1>5, <1>6 DEF PcOK

LEMMA EncodedPreserves ==
  ASSUME CodecInv, Encoded
  PROVE  CodecInv'
<1>. DEFINE s == msg.layout[pc.at]
            buff == data.encode_buff
            buff2 == copy.dst
<1>1. /\ CopyInv /\ MsgOK(msg) /\ PcOK(msg, pc) /\ DataOK(msg, pc, data)
      /\ CallOK(msg, pc, data, copy.src, call) /\ PlacedOK(msg, pc, data) /\ ShownOK(msg, pc, value)
  BY Zenon DEF CodecInv, AllOK
<1>2. /\ pc.loop = "encode" /\ pc.copying /\ Copied
      /\ data' = [data EXCEPT !.encode_buff = buff2]
      /\ Advance
      /\ copy' = copy /\ call' = call /\ msg' = msg /\ value' = value
  BY Zenon DEF Encoded
<1>3. /\ pc.at \in DOMAIN msg.layout /\ pc.at \in Nat /\ msg.layout \in Layouts
      /\ Len(msg.layout) \in Nat /\ DOMAIN msg.layout = 1 .. Len(msg.layout)
  BY <1>1, <1>2, Signals DEF PcOK, MsgOK
<1>4. /\ call = [length |-> Packs(s), src_offset |-> 0, dst_offset |-> s.start_bit, before |-> buff]
      /\ copy.src = BitsOf(msg.typed[pc.at], WIDTH64)
  BY <1>1, <1>2 DEF CallOK
<1>5. buff \in [0 .. BuffBits - 1 -> {0, 1}] /\ s.start_bit \in Nat
  BY <1>1, <1>3, Signals DEF DataOK
<1>6. buff2 = [j \in 0 .. BuffBits - 1 |->
                 IF j >= s.start_bit /\ j < s.start_bit + Packs(s)
                 THEN BitsOf(msg.typed[pc.at], WIDTH64)[j - s.start_bit] ELSE buff[j]]
  <2>1. buff2 = Wanted
    BY <1>1, <1>2, WhatIsLeft
  <2>. DEFINE before == call.before
              start == s.start_bit
              L == Packs(s)
  <2>2. /\ call.before = buff /\ call.length = L /\ call.src_offset = 0 /\ call.dst_offset = start
        /\ DOMAIN buff = 0 .. BuffBits - 1
    BY <1>4, <1>5
  <2>. HIDE DEF s, L
  <2>3. Wanted = [j \in 0 .. BuffBits - 1 |->
                    IF j >= start /\ j < start + L THEN copy.src[0 + j - start] ELSE buff[j]]
    BY Zenon, <2>2 DEF Wanted
  <2>4. \A j \in 0 .. BuffBits - 1 : 0 + j - start = j - start
    BY <1>3, <1>5, CodecAssumption
  <2>5. Wanted = [j \in 0 .. BuffBits - 1 |->
                    IF j >= start /\ j < start + L THEN copy.src[j - start] ELSE buff[j]]
    BY <2>3, <2>4, Zenon
  <2>. QED  BY Zenon, <1>4, <2>1, <2>5 DEF L, s
<1>. HIDE DEF buff, buff2
<1>7. \A i \in 1 .. pc.at - 1 : Placed(msg, buff, i, pc.at - 1)
  BY <1>1, <1>2 DEF PlacedOK, buff
<1>8. /\ buff2 \in [0 .. BuffBits - 1 -> {0, 1}]
      /\ \A i \in 1 .. pc.at : Placed(msg, buff2, i, pc.at)
  BY Zenon, <1>1, <1>3, <1>5, <1>6, <1>7, SignalIsPlaced DEF s
<1>9. /\ pc'.loop = "encode" /\ pc'.copying = FALSE /\ pc'.at = pc.at + 1
      /\ PcOK(msg, pc')
  BY <1>1, <1>2, <1>3, NextSignal
<1>10. DataOK(msg, pc', data') /\ data'.encode_buff = buff2
  BY <1>1, <1>2, <1>8, <1>9 DEF DataOK
<1>11. CallOK(msg, pc', data', copy.src, call) /\ ShownOK(msg, pc', value)
  BY <1>1, <1>9 DEF CallOK, ShownOK
<1>12. PlacedOK(msg, pc', data')
  <2>1. (pc.at + 1) - 1 = pc.at
    BY <1>3
  <2>. QED  BY Zenon, <1>8, <1>9, <1>10, <2>1 DEF PlacedOK
<1>13. CopyInv'
  BY <1>1, <1>2 DEF CopyInv, IsCopy, InRange, SoFar, last_bit
<1>. QED  BY Zenon, <1>1, <1>2, <1>9, <1>10, <1>11, <1>12, <1>13 DEF CodecInv, AllOK

LEMMA SendMessagePreserves ==
  ASSUME CodecInv, SendMessage
  PROVE  CodecInv'
<1>. DEFINE sent == [j \in 0 .. 8 * msg_len(msg.layout) - 1 |-> data.encode_buff[j]]
<1>1. /\ CopyInv /\ MsgOK(msg) /\ PcOK(msg, pc) /\ DataOK(msg, pc, data)
      /\ PlacedOK(msg, pc, data) /\ ShownOK(msg, pc, value)
  BY Zenon DEF CodecInv, AllOK
<1>2. /\ pc.loop = "encode" /\ pc.at > Len(msg.layout)
      /\ data' = [data EXCEPT !.array = sent]
      /\ pc' = [loop |-> "decode", copying |-> FALSE, at |-> 1]
      /\ copy' = copy /\ call' = call /\ msg' = msg /\ value' = value
  BY Zenon DEF SendMessage
<1>3. Len(msg.layout) \in Nat
  BY <1>1, Signals DEF MsgOK
<1>4. pc.at - 1 = Len(msg.layout)
  BY <1>1, <1>2, <1>3 DEF PcOK
<1>5. PcOK(msg, pc')
  BY <1>2, <1>3 DEF PcOK
<1>6. DataOK(msg, pc', data') /\ data'.encode_buff = data.encode_buff
  <2>. HIDE DEF sent
  <2>1. data' = [encode_buff |-> data.encode_buff, array |-> sent]
    BY <1>1, <1>2 DEF DataOK
  <2>. QED  BY <1>1, <2>1 DEF DataOK, sent
<1>7. CallOK(msg, pc', data', copy.src, call)
  BY <1>2 DEF CallOK
<1>8. PlacedOK(msg, pc', data')
  <2>1. pc'.loop = "decode"
    BY <1>2
  <2>2. \A i \in 1 .. Len(msg.layout) : Placed(msg, data.encode_buff, i, Len(msg.layout))
    BY <1>1, <1>2, <1>4 DEF PlacedOK
  <2>. QED  BY <1>6, <2>1, <2>2 DEF PlacedOK
<1>9. ShownOK(msg, pc', value)
  BY <1>1, <1>2 DEF ShownOK
<1>10. CopyInv'
  BY <1>1, <1>2 DEF CopyInv, IsCopy, InRange, SoFar, last_bit
<1>. QED  BY Zenon, <1>1, <1>2, <1>5, <1>6, <1>7, <1>8, <1>9, <1>10 DEF CodecInv, AllOK

LEMMA CopySizeIsNat ==
  ASSUME NEW bits \in Nat, NEW off \in Nat, NEW length \in Nat
  PROVE  /\ getBitCopySize(bits, off, length) \in Nat
         /\ getBitCopySize(bits, off, length) <= WIDTH32
         /\ off + length <= bits \/ length = 0 =>
              getBitCopySize(bits, off, length) = chooseMin(length, WIDTH32)
<1>. DEFINE n == chooseMin(length, WIDTH32)
            there == bits - chooseMin(bits, off)
<1>1. WIDTH32 \in Nat
  BY CodecAssumption
<1>2. n \in Nat /\ n <= WIDTH32 /\ n <= length
  BY <1>1 DEF chooseMin
<1>3. there \in Nat /\ (off + length <= bits => length <= there)
  BY DEF chooseMin
<1>4. getBitCopySize(bits, off, length) = chooseMin(there, n)
  BY Zenon DEF getBitCopySize
<1>. HIDE DEF n, there
<1>5. /\ chooseMin(there, n) \in Nat /\ chooseMin(there, n) <= n
      /\ off + length <= bits \/ length = 0 => chooseMin(there, n) = n
  BY <1>2, <1>3 DEF chooseMin
<1>. QED  BY <1>1, <1>2, <1>4, <1>5 DEF n

\* The array that is sent has the bits of so many bytes.
LEMMA BitsSent ==
  ASSUME NEW m, MsgOK(m), NEW p, p.loop = "decode", NEW d, DataOK(m, p, d)
  PROVE  Cardinality(DOMAIN d.array) = 8 * msg_len(m.layout) /\ 8 * msg_len(m.layout) \in Nat
<1>1. msg_len(m.layout) \in Nat
  BY LengthIsNat DEF MsgOK
<1>. DEFINE n == 8 * msg_len(m.layout)
<1>2. n \in Nat
  BY <1>1
<1>. HIDE DEF n
<1>3. DOMAIN d.array = 0 .. n - 1
  BY DEF DataOK, n
<1>4. Cardinality(0 .. n - 1) = n
  BY <1>2, FS_Interval
<1>. QED  BY <1>2, <1>3, <1>4 DEF n

LEMMA DecodeSignalPreserves ==
  ASSUME CodecInv, DecodeSignal
  PROVE  CodecInv'
<1>. DEFINE s == msg.layout[pc.at]
            n == getBitCopySize(8 * msg_len(msg.layout), s.start_bit, Size(s))
<1>1. /\ MsgOK(msg) /\ PcOK(msg, pc) /\ DataOK(msg, pc, data)
      /\ PlacedOK(msg, pc, data) /\ ShownOK(msg, pc, value)
  BY Zenon DEF CodecInv, AllOK
<1>2. /\ pc.loop = "decode" /\ pc.at <= Len(msg.layout) /\ pc' = [pc EXCEPT !.copying = TRUE]
      /\ msg' = msg /\ data' = data /\ value' = value
      /\ Begin(getBitCopySize(Cardinality(DOMAIN data.array), s.start_bit, Size(s)),
               s.start_bit, 0, data.array, Zero(WIDTH32))
  BY Zenon DEF DecodeSignal, At, Copying, Sig, Size
<1>3. pc.at \in DOMAIN msg.layout /\ msg.layout \in Layouts
  BY <1>1, <1>2, Signals DEF PcOK, MsgOK
<1>4. s.start_bit \in Nat /\ s.bit_length \in Nat /\ Size(s) \in Nat
  BY <1>3, Signals, Sizes
<1>5. Cardinality(DOMAIN data.array) = 8 * msg_len(msg.layout) /\ 8 * msg_len(msg.layout) \in Nat
  BY <1>1, <1>2, BitsSent
<1>6. n \in Nat
  <2>. HIDE DEF s
  <2>. QED  BY <1>4, <1>5, CopySizeIsNat, Zenon
<1>. HIDE DEF s
<1>7. Begin(n, s.start_bit, 0, data.array, Zero(WIDTH32))
  BY <1>2, <1>5
<1>. HIDE DEF n
<1>8. WIDTH32 \in Nat /\ Zero(WIDTH32) = [j \in 0 .. WIDTH32 - 1 |-> Zero(WIDTH32)[j]]
  BY CodecAssumption DEF Zero
<1>9. CopyInv' /\ copy'.src = data.array
  <2>. DEFINE z == Zero(WIDTH32)
              start == s.start_bit
  <2>1. /\ Begin(n, start, 0, data.array, z) /\ start \in Nat /\ n \in Nat
        /\ WIDTH32 \in Nat /\ z = [j \in 0 .. WIDTH32 - 1 |-> z[j]]
    BY <1>4, <1>6, <1>7, <1>8
  <2>. HIDE DEF z, start
  <2>. QED  BY <2>1, BeginEstablishesCopyInv
<1>10. pc'.loop = "decode" /\ pc'.at = pc.at /\ PcOK(msg, pc')
  BY <1>1, <1>2, <1>3 DEF PcOK
<1>11. CallOK(msg, pc', data, copy'.src, call')
  BY <1>7, <1>9, <1>10 DEF CallOK, Begin, n, s
<1>12. DataOK(msg, pc', data) /\ PlacedOK(msg, pc', data) /\ ShownOK(msg, pc', value)
  BY <1>1, <1>2, <1>10 DEF DataOK, PlacedOK, ShownOK
<1>. QED  BY Zenon, <1>1, <1>2, <1>9, <1>10, <1>11, <1>12 DEF CodecInv, AllOK

\* What is read of a signal that nothing lies over makes up what is left of the
\* number.
LEMMA NumberIsFitted ==
  ASSUME NEW s, s.bit_length \in Nat, NEW v \in Int, NEW bits,
         \A k \in 0 .. WIDTH32 - 1 :
           bits[k] = IF k < chooseMin(Size(s), WIDTH32) THEN BitAt(v, k) ELSE 0
  PROVE  (IF s.kind = "signed" THEN SignExtended(NumberOf(bits), s.bit_length) ELSE NumberOf(bits))
           = Fitted(s, v)
<1>. DEFINE n == chooseMin(Size(s), WIDTH32)
<1>1. WIDTH32 \in Nat
  BY CodecAssumption
<1>2. n \in 0 .. WIDTH32
  BY <1>1 DEF Size, chooseMin
<1>3. NumberOf(bits) = v % 2^n
  <2>. HIDE DEF n
  <2>1. \A k \in 0 .. WIDTH32 - 1 : bits[k] = IF k < n THEN BitAt(v, k) ELSE 0
    BY DEF n
  <2>. QED  BY <1>2, <2>1, BitsMakeNumber
<1>4. n = IF s.kind = "float" THEN WIDTH32 ELSE chooseMin(s.bit_length, WIDTH32)
  BY <1>1 DEF Size, chooseMin
<1>. HIDE DEF n
<1>5. Fitted(s, v) = IF s.kind = "signed" /\ n > 0 /\ v % 2^n >= 2^(n - 1)
                     THEN (v % 2^n) - 2^n ELSE v % 2^n
  BY Zenon, <1>4 DEF Fitted
<1>6. s.kind = "signed" => n = chooseMin(s.bit_length, WIDTH32)
  BY <1>4
<1>7. s.kind = "signed" =>
        SignExtended(NumberOf(bits), s.bit_length)
          = IF n > 0 /\ v % 2^n >= 2^(n - 1) THEN (v % 2^n) - 2^n ELSE v % 2^n
  BY Zenon, <1>3, <1>6 DEF SignExtended
<1>. QED  BY Zenon, <1>3, <1>5, <1>7

LEMMA DecodedPreserves ==
  ASSUME CodecInv, Decoded
  PROVE  CodecInv'
<1>. DEFINE s == msg.layout[pc.at]
            v == msg.typed[pc.at]
            start == s.start_bit
            sent == 8 * msg_len(msg.layout)
            n == getBitCopySize(sent, start, Size(s))
            bits == copy.dst
            number == IF s.kind = "signed" THEN SignExtended(NumberOf(bits), s.bit_length)
                      ELSE NumberOf(bits)
<1>1. /\ CopyInv /\ MsgOK(msg) /\ PcOK(msg, pc) /\ DataOK(msg, pc, data)
      /\ CallOK(msg, pc, data, copy.src, call) /\ PlacedOK(msg, pc, data) /\ ShownOK(msg, pc, value)
  BY Zenon DEF CodecInv, AllOK
<1>2. /\ pc.loop = "decode" /\ pc.copying /\ Copied
      /\ value' = [value EXCEPT ![pc.at] = number]
      /\ Advance
      /\ copy' = copy /\ call' = call /\ msg' = msg /\ data' = data
  BY Zenon DEF Decoded, Sig
<1>3. /\ pc.at \in DOMAIN msg.layout /\ pc.at \in Nat /\ msg.layout \in Layouts
      /\ Len(msg.layout) \in Nat /\ DOMAIN msg.layout = 1 .. Len(msg.layout)
  BY <1>1, <1>2, Signals DEF PcOK, MsgOK
<1>4. start \in Nat /\ s.bit_length \in Nat /\ v \in Int
  BY <1>1, <1>3, Signals DEF MsgOK
<1>5. sent \in Nat
  BY Zenon, <1>1, <1>2, BitsSent
<1>6. /\ call = [length |-> n, src_offset |-> start, dst_offset |-> 0, before |-> Zero(WIDTH32)]
      /\ copy.src = data.array
  BY <1>1, <1>2 DEF CallOK
<1>7. ASSUME KeptIn(msg, pc.at)
      PROVE  number = Fitted(s, v)
  <2>. DEFINE w == chooseMin(Size(s), WIDTH32)
  <2>1. /\ WIDTH32 \in Nat /\ WIDTH64 \in Nat /\ WIDTH32 <= WIDTH64 /\ Size(s) \in Nat
        /\ \A b : b \in Extent(s) <=> b \in start .. start + Size(s) - 1
    <3>1. WIDTH32 \in Nat /\ WIDTH64 \in Nat /\ WIDTH32 <= WIDTH64
      BY CodecAssumption DEF WIDTH64
    <3>. HIDE DEF s
    <3>. QED  BY <1>4, <3>1, Sizes
  <2>2. \A b \in Extent(s) : b < sent
    BY Zenon, <1>7 DEF KeptIn
  <2>3. start + Size(s) <= sent \/ Size(s) = 0
    <3>. HIDE DEF s, sent
    <3>1. Size(s) # 0 => start + Size(s) - 1 \in Extent(s)
      BY <1>4, <2>1 DEF start
    <3>2. Size(s) # 0 => start + Size(s) - 1 < sent
      BY <2>2, <3>1
    <3>. QED  BY <1>4, <1>5, <2>1, <3>2
  <2>4. n = w
    <3>. HIDE DEF s, sent
    <3>. QED  BY <1>4, <1>5, <2>1, <2>3, CopySizeIsNat
  <2>5. ASSUME NEW k \in 0 .. WIDTH32 - 1
        PROVE  bits[k] = IF k < w THEN BitAt(v, k) ELSE 0
    <3>1. bits = Wanted
      BY <1>1, <1>2, WhatIsLeft
    <3>2. /\ call.before = Zero(WIDTH32) /\ call.length = n
          /\ call.src_offset = start /\ call.dst_offset = 0
      BY <1>6
    <3>3. DOMAIN Zero(WIDTH32) = 0 .. WIDTH32 - 1 /\ Zero(WIDTH32)[k] = 0
      BY DEF Zero
    <3>. HIDE DEF s, n, sent, w, bits
    <3>4. bits[k] = IF k >= 0 /\ k < 0 + w THEN copy.src[start + k - 0] ELSE 0
      BY Zenon, <2>4, <3>1, <3>2, <3>3 DEF Wanted
    <3>5. w \in Nat /\ w <= Size(s) /\ w <= WIDTH32
      BY <2>1 DEF chooseMin, w
    <3>7. k >= 0 /\ 0 + w = w /\ start + k - 0 = start + k
      BY <1>4, <3>5
    <3>6. ASSUME k < w
          PROVE  data.array[start + k] = BitAt(v, k)
      <4>1. /\ start + k \in start .. start + Size(s) - 1
            /\ (start + k) - start = k /\ k < WIDTH64
        BY <1>4, <2>1, <3>5, <3>6
      <4>2. start + k \in Extent(s)
        BY <2>1, <4>1
      <4>3. start + k \in 0 .. sent - 1
        BY <1>4, <1>5, <2>2, <4>2
      <4>4. data.array[start + k] = data.encode_buff[start + k]
        BY <1>1, <1>2, <4>3 DEF DataOK, sent
      <4>5. Placed(msg, data.encode_buff, pc.at, Len(msg.layout))
        BY <1>1, <1>2, <1>3 DEF PlacedOK
      <4>6. \A j \in pc.at + 1 .. Len(msg.layout) : start + k \notin Extent(msg.layout[j])
        BY <1>7, <4>2 DEF KeptIn, s
      <4>7. data.encode_buff[start + k] = BitAt(v, (start + k) - start)
        BY Zenon, <4>1, <4>2, <4>5, <4>6 DEF Placed, s, start, v
      <4>. QED  BY <4>1, <4>4, <4>7
    <3>. QED  BY <1>6, <3>4, <3>6, <3>7
  <2>. HIDE DEF s, bits, v, w
  <2>6. \A k \in 0 .. WIDTH32 - 1 :
          bits[k] = IF k < chooseMin(Size(s), WIDTH32) THEN BitAt(v, k) ELSE 0
    BY Zenon, <2>5 DEF w
  <2>. QED  BY <1>4, <2>6, NumberIsFitted
<1>8. pc'.loop = "decode" /\ pc'.copying = FALSE /\ pc'.at = pc.at + 1 /\ PcOK(msg, pc')
  BY <1>1, <1>2, <1>3, NextSignal
<1>. HIDE DEF number
<1>9. ShownOK(msg, pc', value')
  <2>1. value' = [i \in DOMAIN msg.layout |-> value'[i]]
    BY <1>1, <1>2 DEF ShownOK
  <2>2. ASSUME NEW i \in 1 .. (pc.at + 1) - 1, KeptIn(msg, i)
        PROVE  value'[i] = Fitted(msg.layout[i], msg.typed[i])
    <3>1. CASE i = pc.at
      <4>1. value'[i] = number
        BY <1>1, <1>2, <1>3, <3>1 DEF ShownOK
      <4>. QED  BY <1>7, <2>2, <3>1, <4>1
    <3>2. CASE i # pc.at
      <4>1. i \in 1 .. pc.at - 1
        BY <1>3, <3>2
      <4>2. value'[i] = value[i]
        BY <1>1, <1>2, <3>2, <1>3 DEF ShownOK
      <4>. QED  BY <1>1, <1>2, <2>2, <4>1, <4>2 DEF ShownOK
    <3>. QED  BY <3>1, <3>2
  <2>. QED  BY Zenon, <1>8, <2>1, <2>2 DEF ShownOK
<1>10. DataOK(msg, pc', data) /\ PlacedOK(msg, pc', data) /\ CallOK(msg, pc', data, copy.src, call)
  BY <1>1, <1>2, <1>8 DEF DataOK, PlacedOK, CallOK
<1>11. CopyInv'
  BY <1>1, <1>2 DEF CopyInv, IsCopy, InRange, SoFar, last_bit
<1>. QED  BY Zenon, <1>1, <1>2, <1>8, <1>9, <1>10, <1>11 DEF CodecInv, AllOK

LEMMA StepPreservesCodecInv == CodecInv /\ [CodecNext]_codecVars => CodecInv'
<1>1. ASSUME CodecInv, UNCHANGED codecVars
      PROVE  CodecInv'
  <2>1. CopyInv'
    BY <1>1 DEF codecVars, CodecInv, CopyInv, IsCopy, InRange, SoFar, last_bit
  <2>. QED  BY Zenon, <1>1, <2>1 DEF codecVars, CodecInv
<1>. QED  BY <1>1, EncodeSignalPreserves, PiecePreserves, EncodedPreserves, SendMessagePreserves,
             DecodeSignalPreserves, DecodedPreserves DEF CodecNext

\* What the invariant says of what is shown in the end.
LEMMA CodecInvShows == CodecInv => BitsCopied /\ NumbersReturn
<1>1. CodecInv => BitsCopied
  BY WhatIsLeft DEF CodecInv, BitsCopied
<1>2. ASSUME CodecInv, pc.loop = "decode", pc.at > Len(msg.layout),
             NEW i \in DOMAIN msg.layout, Kept(i)
      PROVE  value[i] = Fitted(msg.layout[i], msg.typed[i])
  <2>1. /\ MsgOK(msg) /\ PcOK(msg, pc) /\ ShownOK(msg, pc, value)
    BY Zenon, <1>2 DEF CodecInv, AllOK
  <2>2. Len(msg.layout) \in Nat /\ DOMAIN msg.layout = 1 .. Len(msg.layout)
    BY <2>1, Signals DEF MsgOK
  <2>3. i \in 1 .. pc.at - 1
    BY <1>2, <2>1, <2>2 DEF PcOK
  <2>4. KeptIn(msg, i)
    BY Zenon, <1>2 DEF Kept, KeptIn
  <2>. QED  BY Zenon, <1>2, <2>1, <2>3, <2>4 DEF ShownOK
<1>. QED  BY <1>1, <1>2 DEF NumbersReturn

\* For every layout of a message, whatever is typed and whatever stood in the
\* buffer: a signal that lies within the message and that no later one lies
\* over comes out as what its bits can hold of the number that was typed
\* (msgdata.cpp, slot_encode_send and decode).
THEOREM FieldsComeBack == CodecSpec => []NumbersReturn
BY CodecInvShows, InitEstablishesCodecInv, StepPreservesCodecInv, PTL DEF CodecSpec
=============================================================================
