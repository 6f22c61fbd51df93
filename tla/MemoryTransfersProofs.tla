------------------------ MODULE MemoryTransfersProofs ------------------------
(***************************************************************************)
(* The memory allocator and its transfer queue, for any number of threads, *)
(* allocations and chunks of any size: the free lists of all chunks stay   *)
(* exact, no transfer is of an object that is gone, no clear is late, and  *)
(* nobody waits for a value that is not signalled.                         *)
(*                                                                         *)
(* The invariant has a layer for each: Inv (memory and its slices), Issued *)
(* (the queue, its submissions and the clears to come), Contents (what     *)
(* memory reads as), Tracking (references), BytesCounted and Sizes.  Each  *)
(* layer rests on those before it.                                         *)
(***************************************************************************)
EXTENDS MemoryTransfers, SequenceTheorems, FiniteSetTheorems, WellFoundedInduction, TLAPS

-----------------------------------------------------------------------------
(* ChunkRanges: what the operations on the free list of a chunk do, for    *)
(* chunks of any size.  A range that is taken leaves, and one that is      *)
(* freed joins, exactly the free units, and the list stays sorted with     *)
(* gaps between its ranges.                                                *)

FreeRange == [offset : Nat, length : Nat \ {0}]

\* The units of a range, of those in a list, and the order of a list.
Covers(range, u) == range.offset <= u /\ u < end(range)

Sorted(ranges) ==
  /\ ranges \in Seq(FreeRange)
  /\ \A i, j \in DOMAIN ranges : i < j => end(ranges[i]) < ranges[j].offset

Exact(ranges, free) ==
  /\ Sorted(ranges)
  /\ \A u \in Nat : u \in free <=> \E i \in DOMAIN ranges : Covers(ranges[i], u)

\* The units of a chunk of size B.
Within(free, B) == free \subseteq 0..(B - 1)

-----------------------------------------------------------------------------
(* Least elements.                                                         *)

LessThanOnNat == {ss \in Nat \X Nat : ss[1] < ss[2]}

\* The library's well-foundedness of < on Nat, as a set of pairs.
LEMMA LessThanOnNatWellFounded == IsWellFoundedOn(LessThanOnNat, Nat)
BY NatLessThanWellFounded DEF OpToRel, LessThanOnNat

\* Every non-empty set of naturals has a least element.
LEMMA LeastNatural ==
  ASSUME NEW T, T \subseteq Nat, T # {}
  PROVE  \E m \in T : \A y \in T : m <= y
<1>1. PICK m \in T : \A y \in T : <<y, m>> \notin LessThanOnNat
  BY LessThanOnNatWellFounded, WFMin
<1>2. ASSUME NEW y \in T PROVE m <= y
  <2>1. y \in Nat /\ m \in Nat
    OBVIOUS
  <2>2. ~ (y < m)
    BY <2>1, <1>1 DEF LessThanOnNat
  <2>3. QED
    BY <2>1, <2>2
<1>3. QED
  BY <1>2

-----------------------------------------------------------------------------
(* Sequences.                                                              *)

\* A function on 1..n is a sequence of length n.
LEMMA FunctionIsSequence ==
  ASSUME NEW S, NEW n \in Nat, NEW f \in [1..n -> S]
  PROVE  f \in Seq(S) /\ Len(f) = n /\ DOMAIN f = 1..n
<1>1. f \in Seq(S)
  BY SeqDef
<1>2. DOMAIN f = 1..n
  OBVIOUS
<1>3. DOMAIN f = 1..Len(f) /\ Len(f) \in Nat
  BY <1>1, LenProperties
<1> QED
  BY <1>1, <1>2, <1>3

LEMMA ListFacts ==
  ASSUME NEW ranges, Sorted(ranges)
  PROVE  /\ ranges \in Seq(FreeRange) /\ Len(ranges) \in Nat /\ DOMAIN ranges = 1..Len(ranges)
         /\ \A i \in DOMAIN ranges :
              /\ i \in Nat /\ ranges[i] \in FreeRange
              /\ ranges[i].offset \in Nat /\ ranges[i].length \in Nat \ {0}
              /\ end(ranges[i]) = ranges[i].offset + ranges[i].length
              /\ ranges[i].offset < end(ranges[i])
<1>1. ranges \in Seq(FreeRange)
  BY DEF Sorted
<1>2. ranges \in [1..Len(ranges) -> FreeRange] /\ Len(ranges) \in Nat /\ DOMAIN ranges = 1..Len(ranges)
  BY <1>1, LenProperties
<1>3. ASSUME NEW i \in DOMAIN ranges
      PROVE  /\ i \in Nat /\ ranges[i] \in FreeRange
             /\ ranges[i].offset \in Nat /\ ranges[i].length \in Nat \ {0}
             /\ end(ranges[i]) = ranges[i].offset + ranges[i].length
             /\ ranges[i].offset < end(ranges[i])
  <2>1. i \in Nat /\ ranges[i] \in FreeRange
    BY <1>2
  <2> QED
    BY <2>1 DEF FreeRange, end
<1> QED
  BY <1>1, <1>2, <1>3

LEMMA InsertFacts ==
  ASSUME NEW q \in Seq(FreeRange), NEW k \in 1..(Len(q) + 1), NEW e \in FreeRange
  PROVE  /\ insert_range(q, k, e) \in Seq(FreeRange)
         /\ DOMAIN insert_range(q, k, e) = 1..(Len(q) + 1)
         /\ \A i \in 1..(Len(q) + 1) :
              insert_range(q, k, e)[i] = IF i < k THEN q[i] ELSE IF i = k THEN e ELSE q[i - 1]
<1>1. Len(q) \in Nat /\ q \in [1..Len(q) -> FreeRange]
  BY LenProperties
<1>2. \A i \in 1..(Len(q) + 1) :
        (IF i < k THEN q[i] ELSE IF i = k THEN e ELSE q[i - 1]) \in FreeRange
  BY <1>1
<1>3. insert_range(q, k, e) \in [1..(Len(q) + 1) -> FreeRange]
  BY <1>2 DEF insert_range
<1>4. insert_range(q, k, e) \in Seq(FreeRange)
  BY <1>1, <1>3, FunctionIsSequence
<1> QED
  BY <1>3, <1>4 DEF insert_range

LEMMA RemoveFacts ==
  ASSUME NEW q \in Seq(FreeRange), NEW k \in 1..Len(q)
  PROVE  /\ remove_range(q, k) \in Seq(FreeRange)
         /\ DOMAIN remove_range(q, k) = 1..(Len(q) - 1)
         /\ Len(remove_range(q, k)) = Len(q) - 1
         /\ \A i \in 1..(Len(q) - 1) :
              remove_range(q, k)[i] = IF i < k THEN q[i] ELSE q[i + 1]
<1>1. Len(q) \in Nat /\ q \in [1..Len(q) -> FreeRange] /\ Len(q) - 1 \in Nat
  BY LenProperties
<1>2. \A i \in 1..(Len(q) - 1) : (IF i < k THEN q[i] ELSE q[i + 1]) \in FreeRange
  BY <1>1
<1>3. remove_range(q, k) \in [1..(Len(q) - 1) -> FreeRange]
  BY <1>2 DEF remove_range
<1>4. remove_range(q, k) \in Seq(FreeRange) /\ Len(remove_range(q, k)) = Len(q) - 1
  BY <1>1, <1>3, FunctionIsSequence
<1> QED
  BY <1>3, <1>4 DEF remove_range

LEMMA ReplaceFacts ==
  ASSUME NEW q \in Seq(FreeRange), NEW k \in 1..Len(q), NEW e \in FreeRange
  PROVE  /\ [q EXCEPT ![k] = e] \in Seq(FreeRange)
         /\ DOMAIN [q EXCEPT ![k] = e] = 1..Len(q)
         /\ Len([q EXCEPT ![k] = e]) = Len(q)
         /\ \A i \in 1..Len(q) : [q EXCEPT ![k] = e][i] = IF i = k THEN e ELSE q[i]
<1>1. Len(q) \in Nat /\ q \in [1..Len(q) -> FreeRange]
  BY LenProperties
<1>2. [q EXCEPT ![k] = e] \in [1..Len(q) -> FreeRange]
  BY <1>1
<1> QED
  BY <1>1, <1>2, FunctionIsSequence

-----------------------------------------------------------------------------
(* Four ways a list can change.                                            *)

\* A new range between two neighbours.
LEMMA InsertExact ==
  ASSUME NEW q, NEW free, Exact(q, free), NEW k \in 1..(Len(q) + 1), NEW e \in FreeRange,
         \A i \in DOMAIN q : i < k => end(q[i]) < e.offset,
         \A i \in DOMAIN q : i >= k => end(e) < q[i].offset
  PROVE  Exact(insert_range(q, k, e), free \cup (e.offset)..(end(e) - 1))
<1> DEFINE r == insert_range(q, k, e)
<1>1. /\ q \in Seq(FreeRange) /\ Len(q) \in Nat /\ DOMAIN q = 1..Len(q)
      /\ \A i \in DOMAIN q : q[i].offset \in Nat /\ end(q[i]) \in Nat /\ q[i].offset < end(q[i])
      /\ \A i, j \in DOMAIN q : i < j => end(q[i]) < q[j].offset
  BY ListFacts DEF Exact, Sorted, end, FreeRange
<1>2. e.offset \in Nat /\ end(e) \in Nat /\ e.offset < end(e)
  BY DEF FreeRange, end
<1>3. /\ r \in Seq(FreeRange) /\ DOMAIN r = 1..(Len(q) + 1)
      /\ \A i \in 1..(Len(q) + 1) : r[i] = IF i < k THEN q[i] ELSE IF i = k THEN e ELSE q[i - 1]
  <2>1. q \in Seq(FreeRange) /\ k \in 1..(Len(q) + 1)
    BY <1>1
  <2> HIDE DEF r
  <2>2. e \in FreeRange
    OBVIOUS
  <2>3. /\ insert_range(q, k, e) \in Seq(FreeRange)
        /\ DOMAIN insert_range(q, k, e) = 1..(Len(q) + 1)
        /\ \A i \in 1..(Len(q) + 1) :
             insert_range(q, k, e)[i] = IF i < k THEN q[i] ELSE IF i = k THEN e ELSE q[i - 1]
    BY <2>1, <2>2, InsertFacts, SMTT(30)
  <2> QED
    BY <2>3, Zenon DEF r
<1>7. /\ \A i \in DOMAIN r : i \in Int /\ i < k => i \in DOMAIN q /\ r[i] = q[i]
      /\ \A i \in DOMAIN r : i \in Int /\ i > k => i - 1 \in DOMAIN q /\ r[i] = q[i - 1]
      /\ r[k] = e /\ k \in Int /\ \A i \in DOMAIN r : i \in Int
  BY <1>1, <1>3
<1> HIDE DEF r
<1>4. ASSUME NEW i \in DOMAIN r, NEW j \in DOMAIN r, i < j
      PROVE  end(r[i]) < r[j].offset
  <2>1. CASE j < k
    <3>1. i < k /\ r[i] = q[i] /\ r[j] = q[j] /\ i \in DOMAIN q /\ j \in DOMAIN q
      BY <1>4, <1>7, <2>1
    <3> QED
      BY <1>1, <1>4, <3>1
  <2>2. CASE j = k
    BY <1>1, <1>4, <1>7, <2>2
  <2>3. CASE j > k
    <3>1. r[j] = q[j - 1] /\ j - 1 \in DOMAIN q /\ j - 1 >= k
      BY <1>7, <2>3
    <3>2. CASE i = k
      BY <1>7, <3>1, <3>2
    <3>3. CASE i < k
      <4>1. r[i] = q[i] /\ i \in DOMAIN q /\ i < j - 1
        BY <1>7, <3>1, <3>3
      <4> QED
        BY <1>1, <3>1, <4>1
    <3>4. CASE i > k
      <4>1. r[i] = q[i - 1] /\ i - 1 \in DOMAIN q /\ i - 1 < j - 1
        BY <1>4, <1>7, <3>4
      <4> QED
        BY <1>1, <3>1, <4>1
    <3> QED
      BY <1>7, <3>2, <3>3, <3>4
  <2> QED
    BY <1>7, <2>1, <2>2, <2>3
<1>5. ASSUME NEW u \in Nat, u \in free \cup (e.offset)..(end(e) - 1)
      PROVE  \E i \in DOMAIN r : Covers(r[i], u)
  <2>1. CASE u \in free
    <3>1. PICK i \in DOMAIN q : Covers(q[i], u)
      BY <2>1 DEF Exact
    <3>2. CASE i < k
      BY <1>1, <1>3, <3>1, <3>2
    <3>3. CASE i >= k
      <4>1. i + 1 \in DOMAIN r /\ r[i + 1] = q[i]
        BY <1>1, <1>3, <3>3
      <4> QED
        BY <3>1, <4>1
    <3> QED
      BY <1>1, <3>2, <3>3
  <2>2. CASE u \notin free
    <3>1. Covers(e, u)
      BY <1>2, <1>5, <2>2 DEF Covers
    <3>2. k \in DOMAIN r /\ r[k] = e
      BY <1>1, <1>3
    <3> QED
      BY <3>1, <3>2
  <2> QED
    BY <2>1, <2>2
<1>6. ASSUME NEW u \in Nat, NEW i \in DOMAIN r, Covers(r[i], u)
      PROVE  u \in free \cup (e.offset)..(end(e) - 1)
  <2>1. CASE i = k
    BY <1>1, <1>2, <1>3, <1>6, <2>1 DEF Covers
  <2>2. CASE i < k
    <3>1. i \in DOMAIN q /\ Covers(q[i], u)
      BY <1>1, <1>3, <1>6, <2>2
    <3> QED
      BY <3>1 DEF Exact
  <2>3. CASE i > k
    <3>1. i - 1 \in DOMAIN q /\ Covers(q[i - 1], u)
      BY <1>1, <1>3, <1>6, <2>3
    <3> QED
      BY <3>1 DEF Exact
  <2> QED
    BY <1>3, <2>1, <2>2, <2>3
<1> QED
  BY <1>3, <1>4, <1>5, <1>6 DEF Exact, Sorted, r

\* A range goes.
LEMMA RemoveExact ==
  ASSUME NEW q, NEW free, Exact(q, free), NEW k \in DOMAIN q
  PROVE  Exact(remove_range(q, k), free \ (q[k].offset)..(end(q[k]) - 1))
<1> DEFINE r == remove_range(q, k)
<1>1. /\ q \in Seq(FreeRange) /\ Len(q) \in Nat /\ DOMAIN q = 1..Len(q)
      /\ \A i \in DOMAIN q : q[i].offset \in Nat /\ end(q[i]) \in Nat /\ q[i].offset < end(q[i])
      /\ \A i, j \in DOMAIN q : i < j => end(q[i]) < q[j].offset
  BY ListFacts DEF Exact, Sorted, end, FreeRange
<1>3. /\ r \in Seq(FreeRange) /\ DOMAIN r = 1..(Len(q) - 1)
      /\ \A i \in 1..(Len(q) - 1) : r[i] = IF i < k THEN q[i] ELSE q[i + 1]
  BY <1>1, RemoveFacts
<1> HIDE DEF r
<1>7. /\ \A i \in DOMAIN r : i < k => i \in DOMAIN q /\ r[i] = q[i]
      /\ \A i \in DOMAIN r : i >= k => i + 1 \in DOMAIN q /\ r[i] = q[i + 1]
      /\ k \in Int /\ \A i \in DOMAIN r : i \in Int
      /\ \A i \in DOMAIN q : i \in Int /\ (i < k => i \in DOMAIN r)
  BY <1>1, <1>3
<1>4. ASSUME NEW i \in DOMAIN r, NEW j \in DOMAIN r, i < j
      PROVE  end(r[i]) < r[j].offset
  <2>1. CASE j < k
    <3>1. r[i] = q[i] /\ r[j] = q[j] /\ i \in DOMAIN q /\ j \in DOMAIN q
      BY <1>4, <1>7, <2>1
    <3> QED
      BY <1>1, <1>4, <3>1
  <2>2. CASE j >= k /\ i < k
    <3>1. r[i] = q[i] /\ r[j] = q[j + 1] /\ i \in DOMAIN q /\ j + 1 \in DOMAIN q /\ i < j + 1
      BY <1>4, <1>7, <2>2
    <3> QED
      BY <1>1, <3>1
  <2>3. CASE j >= k /\ i >= k
    <3>1. /\ r[i] = q[i + 1] /\ r[j] = q[j + 1] /\ i + 1 \in DOMAIN q /\ j + 1 \in DOMAIN q
          /\ i + 1 < j + 1
      BY <1>4, <1>7, <2>3
    <3> QED
      BY <1>1, <3>1
  <2> QED
    BY <1>7, <2>1, <2>2, <2>3
<1>5. ASSUME NEW u \in Nat, u \in free, u \notin (q[k].offset)..(end(q[k]) - 1)
      PROVE  \E i \in DOMAIN r : Covers(r[i], u)
  <2>1. PICK i \in DOMAIN q : Covers(q[i], u)
    BY <1>5 DEF Exact
  <2>2. i # k
    BY <1>1, <1>5, <2>1 DEF Covers
  <2>3. CASE i < k
    <3>1. i \in DOMAIN r /\ r[i] = q[i]
      BY <1>7, <2>3
    <3> QED
      BY <2>1, <3>1
  <2>4. CASE i > k
    <3>1. i - 1 \in DOMAIN r /\ r[i - 1] = q[i]
      BY <1>1, <1>3, <2>4
    <3> QED
      BY <2>1, <3>1
  <2> QED
    BY <1>1, <2>2, <2>3, <2>4
<1>6. ASSUME NEW u \in Nat, NEW i \in DOMAIN r, Covers(r[i], u)
      PROVE  u \in free \ (q[k].offset)..(end(q[k]) - 1)
  <2>1. PICK j \in DOMAIN q : j # k /\ r[i] = q[j]
    <3>1. CASE i < k
      <4>1. i \in DOMAIN q /\ r[i] = q[i] /\ i # k
        BY <1>7, <3>1
      <4> QED
        BY <4>1
    <3>2. CASE i >= k
      <4>1. i + 1 \in DOMAIN q /\ r[i] = q[i + 1] /\ i + 1 # k
        BY <1>7, <3>2
      <4> QED
        BY <4>1
    <3> QED
      BY <1>7, <3>1, <3>2
  <2>2. Covers(q[j], u)
    BY <1>6, <2>1
  <2>3. j < k => u < q[k].offset
    BY <1>1, <2>2 DEF Covers
  <2>4. k < j => end(q[k]) <= u
    BY <1>1, <2>2 DEF Covers
  <2>5. u \in free
    BY <2>2 DEF Exact
  <2> QED
    BY <1>1, <2>1, <2>3, <2>4, <2>5
<1> QED
  BY <1>3, <1>4, <1>5, <1>6 DEF Exact, Sorted, r

\* The units a list covers are what matters.
LEMMA ExactOfEqual ==
  ASSUME NEW q, NEW free, Exact(q, free), NEW other,
         \A u \in Nat : u \in free <=> u \in other
  PROVE  Exact(q, other)
  BY DEF Exact

\* A range is replaced by another one that keeps its place.
LEMMA ReplaceExact ==
  ASSUME NEW q, NEW free, Exact(q, free), NEW k \in DOMAIN q, NEW e \in FreeRange,
         \A i \in DOMAIN q : i < k => end(q[i]) < e.offset,
         \A i \in DOMAIN q : i > k => end(e) < q[i].offset
  PROVE  Exact([q EXCEPT ![k] = e],
               (free \ (q[k].offset)..(end(q[k]) - 1)) \cup (e.offset)..(end(e) - 1))
<1> DEFINE r == remove_range(q, k)
<1>1. q \in Seq(FreeRange) /\ Len(q) \in Nat /\ DOMAIN q = 1..Len(q)
  BY ListFacts DEF Exact
<1>2. Exact(r, free \ (q[k].offset)..(end(q[k]) - 1))
  BY RemoveExact
<1>3. /\ r \in Seq(FreeRange) /\ DOMAIN r = 1..(Len(q) - 1)
      /\ \A i \in 1..(Len(q) - 1) : r[i] = IF i < k THEN q[i] ELSE q[i + 1]
  BY <1>1, RemoveFacts
<1>4. Len(r) = Len(q) - 1
  BY <1>1, RemoveFacts
<1>5. insert_range(r, k, e) = [q EXCEPT ![k] = e]
  <2> HIDE DEF r
  <2>1. insert_range(r, k, e) =
          [i \in 1..Len(q) |-> IF i < k THEN r[i] ELSE IF i = k THEN e ELSE r[i - 1]]
    BY <1>1, <1>4 DEF insert_range
  <2>2. [q EXCEPT ![k] = e] = [i \in 1..Len(q) |-> IF i = k THEN e ELSE q[i]]
    BY <1>1
  <2>3. ASSUME NEW i \in 1..Len(q)
        PROVE  (IF i < k THEN r[i] ELSE IF i = k THEN e ELSE r[i - 1])
                 = IF i = k THEN e ELSE q[i]
    <3>1. CASE i < k
      BY <1>1, <1>3, <3>1
    <3>2. CASE i > k
      <4>1. i - 1 \in 1..(Len(q) - 1) /\ ~(i - 1 < k) /\ (i - 1) + 1 = i
        BY <1>1, <3>2
      <4>2. r[i - 1] = q[i]
        BY <1>3, <4>1
      <4> QED
        BY <1>1, <3>2, <4>2
    <3> QED
      BY <1>1, <3>1, <3>2
  <2> QED
    BY <2>1, <2>2, <2>3
<1> HIDE DEF r
<1>6. ASSUME NEW i \in DOMAIN r
      PROVE  /\ i < k => end(r[i]) < e.offset
             /\ i >= k => end(e) < r[i].offset
  <2>1. i < k => i \in DOMAIN q /\ r[i] = q[i]
    BY <1>1, <1>3
  <2>2. i >= k => i + 1 \in DOMAIN q /\ i + 1 > k /\ r[i] = q[i + 1]
    BY <1>1, <1>3
  <2> QED
    BY <2>1, <2>2
<1>7. k \in 1..(Len(r) + 1)
  BY <1>1, <1>4
<1>8. Exact(insert_range(r, k, e),
            (free \ (q[k].offset)..(end(q[k]) - 1)) \cup (e.offset)..(end(e) - 1))
  BY <1>2, <1>6, <1>7, InsertExact
<1> QED
  BY <1>5, <1>8

-----------------------------------------------------------------------------
(* Freeing.                                                                *)

\* The binary search finds the place of an offset.
LEMMA FindFacts ==
  ASSUME NEW q, Sorted(q), NEW o \in Nat
  PROVE  /\ find_range(q, o) \in 1..(Len(q) + 1)
         /\ \A j \in DOMAIN q : j < find_range(q, o) => q[j].offset <= o
         /\ \A j \in DOMAIN q : j >= find_range(q, o) => q[j].offset > o
<1> DEFINE Place(i) == /\ \A j \in 1..(i - 1) : q[j].offset <= o
                       /\ \A j \in i..Len(q) : q[j].offset > o
           Behind == {i \in DOMAIN q : q[i].offset > o}
<1>1. /\ Len(q) \in Nat /\ DOMAIN q = 1..Len(q)
      /\ \A i \in DOMAIN q : q[i].offset \in Nat /\ end(q[i]) \in Nat /\ q[i].offset < end(q[i])
      /\ \A i, j \in DOMAIN q : i < j => end(q[i]) < q[j].offset
  BY ListFacts DEF Sorted, end, FreeRange
<1>2. \E i \in 1..(Len(q) + 1) : Place(i)
  <2>1. CASE Behind = {}
    <3>1. \A j \in DOMAIN q : q[j].offset <= o
      BY <1>1, <2>1
    <3> QED
      BY <1>1, <3>1
  <2>2. CASE Behind # {}
    <3>1. Behind \subseteq Nat
      BY <1>1
    <3>2. PICK i \in Behind : \A j \in Behind : i <= j
      <4> HIDE DEF Behind
      <4> QED
        BY <2>2, <3>1, LeastNatural
    <3>3. \A j \in 1..(i - 1) : q[j].offset <= o
      BY <1>1, <3>2
    <3>4. \A j \in i..Len(q) : q[j].offset > o
      <4> SUFFICES ASSUME NEW j \in i..Len(q) PROVE q[j].offset > o
        OBVIOUS
      <4>1. i \in DOMAIN q /\ q[i].offset > o /\ j \in DOMAIN q /\ (j = i \/ i < j)
        BY <1>1, <3>2
      <4> QED
        BY <1>1, <4>1
    <3> QED
      BY <1>1, <3>2, <3>3, <3>4
  <2> QED
    BY <2>1, <2>2
<1>3. find_range(q, o) = CHOOSE i \in 1..(Len(q) + 1) : Place(i)
  BY DEF find_range
<1>4. find_range(q, o) \in 1..(Len(q) + 1) /\ Place(find_range(q, o))
  <2> HIDE DEF Place
  <2> QED
    BY <1>2, <1>3
<1> QED
  BY <1>1, <1>4

\* vkd3d_memory_chunk_free_range adds exactly the range it is given, whichever of its
\* neighbours it touches.
THEOREM FreeExact ==
  ASSUME NEW q, NEW free, Exact(q, free), NEW o \in Nat, NEW size \in Nat \ {0},
         \A u \in Nat : o <= u /\ u < o + size => u \notin free
  PROVE  Exact(free_range(q, o, size), free \cup o..(o + size - 1))
<1> DEFINE k == find_range(q, o)
           left == k > 1 /\ end(q[k - 1]) = o
           right == k <= Len(q) /\ q[k].offset = o + size
           e == [offset |-> o, length |-> size]
<1>1. /\ q \in Seq(FreeRange) /\ Len(q) \in Nat /\ DOMAIN q = 1..Len(q) /\ Sorted(q)
      /\ \A i \in DOMAIN q : /\ q[i].offset \in Nat /\ end(q[i]) \in Nat /\ q[i].offset < end(q[i])
                             /\ q[i].length \in Nat \ {0} /\ i \in Nat
                             /\ end(q[i]) = q[i].offset + q[i].length /\ q[i] \in FreeRange
      /\ \A i, j \in DOMAIN q : i < j => end(q[i]) < q[j].offset
  BY ListFacts DEF Exact, Sorted
<1>2. /\ k \in 1..(Len(q) + 1)
      /\ \A j \in DOMAIN q : j < k => q[j].offset <= o
      /\ \A j \in DOMAIN q : j >= k => q[j].offset > o
  BY <1>1, FindFacts
<1>3. e \in FreeRange /\ e.offset = o /\ end(e) = o + size
  BY DEF FreeRange, end
<1>4. free_range(q, o, size) =
        CASE left /\ right -> remove_range([q EXCEPT ![k - 1].length = @ + size + q[k].length], k)
          [] left /\ ~right -> [q EXCEPT ![k - 1].length = @ + size]
          [] ~left /\ right -> [q EXCEPT ![k] = [offset |-> o, length |-> @.length + size]]
          [] OTHER -> insert_range(q, k, e)
  BY DEF free_range
<1> HIDE DEF k
<1>12. /\ Len(q) \in Nat /\ DOMAIN q = 1..Len(q) /\ k \in 1..(Len(q) + 1)
  BY <1>1, <1>2
<1>13. \A j \in DOMAIN q : q[j].offset \in Nat /\ end(q[j]) \in Nat /\ q[j].offset < end(q[j])
  BY <1>1
<1>14. \A i, j \in DOMAIN q : i < j => end(q[i]) < q[j].offset
  BY <1>1
<1>5. \A i \in DOMAIN q, u \in Nat : q[i].offset <= u /\ u < end(q[i]) => u \in free
  BY DEF Exact, Covers
<1>6. \A j \in DOMAIN q : j < k => end(q[j]) <= o
  <2> SUFFICES ASSUME NEW j \in DOMAIN q, j < k, end(q[j]) > o PROVE FALSE
    BY <1>1
  <2>1. o \in free
    BY <1>2, <1>5
  <2> QED
    BY <2>1
<1>7. \A j \in DOMAIN q : j >= k => o + size <= q[j].offset
  <2> SUFFICES ASSUME NEW j \in DOMAIN q, j >= k, q[j].offset < o + size PROVE FALSE
    BY <1>1
  <2>1. q[j].offset \in free /\ q[j].offset > o /\ q[j].offset \in Nat
    BY <1>1, <1>2, <1>5
  <2> QED
    BY <2>1
<1>8. CASE ~left /\ ~right
  <2>1. \A i \in DOMAIN q : i < k => end(q[i]) < e.offset
    <3> SUFFICES ASSUME NEW i \in DOMAIN q, i < k PROVE end(q[i]) < o
      BY <1>3
    <3>1. k - 1 \in DOMAIN q /\ k > 1 /\ (i = k - 1 \/ i < k - 1)
      BY <1>12
    <3>2. end(q[k - 1]) < o
      <4>1. k - 1 < k /\ end(q[k - 1]) # o /\ end(q[k - 1]) \in Nat
        BY <1>12, <1>13, <1>8, <3>1
      <4> QED
        BY <1>6, <3>1, <4>1
    <3> QED
      BY <1>1, <3>1, <3>2
  <2>2. \A i \in DOMAIN q : i >= k => end(e) < q[i].offset
    <3> SUFFICES ASSUME NEW i \in DOMAIN q, i >= k PROVE o + size < q[i].offset
      BY <1>3
    <3>1. k \in DOMAIN q /\ (i = k \/ k < i)
      BY <1>1, <1>2
    <3>2. o + size < q[k].offset
      <4>1. k \in Nat /\ k <= Len(q) /\ q[k].offset # o + size
        BY <1>12, <1>8, <3>1
      <4>2. q[k].offset \in Nat
        BY <1>13, <3>1
      <4>3. k >= k
        BY <4>1
      <4>4. o + size <= q[k].offset
        BY <1>7, <3>1, <4>3, Zenon
      <4> QED
        BY <4>1, <4>2, <4>4
    <3> QED
      BY <1>1, <3>1, <3>2
  <2>3. Exact(insert_range(q, k, e), free \cup (e.offset)..(end(e) - 1))
    BY <1>2, <1>3, <2>1, <2>2, InsertExact
  <2> QED
    <3>1. free_range(q, o, size) = insert_range(q, k, e)
      BY <1>4, <1>8
    <3>2. (e.offset)..(end(e) - 1) = o..(o + size - 1)
      BY <1>3
    <3> QED
      BY <2>3, <3>1, <3>2, Zenon
<1>9. CASE left /\ ~right
  <2> DEFINE f == [offset |-> q[k - 1].offset, length |-> q[k - 1].length + size]
  <2>1. k - 1 \in DOMAIN q /\ end(q[k - 1]) = o
    BY <1>12, <1>9
  <2> DEFINE p == q[k - 1]
  <2>12. p \in FreeRange /\ p.offset + p.length = o /\ p = [offset |-> p.offset, length |-> p.length]
    BY <1>1, <2>1 DEF FreeRange
  <2>2. f \in FreeRange /\ f.offset = q[k - 1].offset /\ end(f) = o + size
    <3> HIDE DEF p
    <3>1. [offset |-> p.offset, length |-> p.length + size] \in FreeRange
      BY <2>12 DEF FreeRange
    <3>2. p.offset + (p.length + size) = o + size
      BY <2>12 DEF FreeRange
    <3> QED
      BY <3>1, <3>2 DEF end, p
  <2>3. [q EXCEPT ![k - 1].length = @ + size] = [q EXCEPT ![k - 1] = f]
    <3>1. [p EXCEPT !.length = @ + size] = f
      BY <2>12 DEF FreeRange
    <3> QED
      BY <3>1
  <2> HIDE DEF f
  <2>4. \A i \in DOMAIN q : i < k - 1 => end(q[i]) < f.offset
    BY <1>1, <2>1, <2>2
  <2>5. \A i \in DOMAIN q : i > k - 1 => end(f) < q[i].offset
    <3> SUFFICES ASSUME NEW i \in DOMAIN q, i > k - 1 PROVE o + size < q[i].offset
      BY <2>2
    <3>1. k \in DOMAIN q /\ (i = k \/ k < i)
      BY <1>1, <1>2
    <3>2. o + size < q[k].offset
      <4>1. k >= k /\ k <= Len(q) /\ q[k].offset # o + size /\ q[k].offset \in Nat
        BY <1>12, <1>13, <1>9, <3>1
      <4> QED
        BY <1>7, <3>1, <4>1
    <3> QED
      BY <1>1, <3>1, <3>2
  <2>6. Exact([q EXCEPT ![k - 1] = f],
              (free \ (q[k - 1].offset)..(end(q[k - 1]) - 1)) \cup (f.offset)..(end(f) - 1))
    BY <2>1, <2>2, <2>4, <2>5, ReplaceExact
  <2>7. \A u \in Nat : u \in (free \ (q[k - 1].offset)..(end(q[k - 1]) - 1)) \cup (f.offset)..(end(f) - 1)
                         <=> u \in free \cup o..(o + size - 1)
    BY <1>1, <1>5, <2>1, <2>2
  <2> QED
    BY <1>4, <1>9, <2>3, <2>6, <2>7, ExactOfEqual
<1>10. CASE ~left /\ right
  <2> DEFINE f == [offset |-> o, length |-> q[k].length + size]
  <2>1. k \in DOMAIN q /\ q[k].offset = o + size
    BY <1>12, <1>10
  <2> DEFINE p == q[k]
  <2>12. p \in FreeRange /\ p.offset = o + size
    BY <1>1, <2>1
  <2>2. f \in FreeRange /\ f.offset = o /\ end(f) = end(q[k])
    <3> HIDE DEF p
    <3>1. [offset |-> o, length |-> p.length + size] \in FreeRange
      BY <2>12 DEF FreeRange
    <3>2. o + (p.length + size) = p.offset + p.length
      BY <2>12 DEF FreeRange
    <3> QED
      BY <3>1, <3>2 DEF end, p
  <2>3. [q EXCEPT ![k] = [offset |-> o, length |-> @.length + size]] = [q EXCEPT ![k] = f]
    BY <1>1, <2>1
  <2> HIDE DEF f
  <2>4. \A i \in DOMAIN q : i < k => end(q[i]) < f.offset
    <3> SUFFICES ASSUME NEW i \in DOMAIN q, i < k PROVE end(q[i]) < o
      BY <2>2
    <3>1. k - 1 \in DOMAIN q /\ k > 1 /\ (i = k - 1 \/ i < k - 1)
      BY <1>12
    <3>2. end(q[k - 1]) < o
      <4>1. k - 1 < k /\ end(q[k - 1]) # o /\ end(q[k - 1]) \in Nat
        BY <1>12, <1>13, <1>10, <3>1
      <4> QED
        BY <1>6, <3>1, <4>1
    <3> QED
      BY <1>1, <3>1, <3>2
  <2>5. \A i \in DOMAIN q : i > k => end(f) < q[i].offset
    BY <1>1, <2>1, <2>2
  <2>6. Exact([q EXCEPT ![k] = f],
              (free \ (q[k].offset)..(end(q[k]) - 1)) \cup (f.offset)..(end(f) - 1))
    BY <2>1, <2>2, <2>4, <2>5, ReplaceExact
  <2>7. \A u \in Nat : u \in (free \ (q[k].offset)..(end(q[k]) - 1)) \cup (f.offset)..(end(f) - 1)
                         <=> u \in free \cup o..(o + size - 1)
    <3>1. /\ \A u \in Nat : q[k].offset <= u /\ u < end(q[k]) => u \in free
          /\ q[k].offset \in Nat /\ end(q[k]) \in Nat /\ q[k].offset < end(q[k])
      BY <1>5, <1>13, <2>1
    <3> QED
      BY <2>1, <2>2, <3>1
  <2> QED
    BY <1>4, <1>10, <2>3, <2>6, <2>7, ExactOfEqual
<1>11. CASE left /\ right
  <2> DEFINE f == [offset |-> q[k - 1].offset, length |-> q[k - 1].length + size + q[k].length]
             r == remove_range(q, k)
  <2>1. /\ k \in DOMAIN q /\ q[k].offset = o + size
        /\ k - 1 \in DOMAIN q /\ end(q[k - 1]) = o
    BY <1>12, <1>11
  <2> DEFINE p == q[k - 1]
             n == q[k]
  <2>12. /\ p \in FreeRange /\ p.offset + p.length = o
         /\ p = [offset |-> p.offset, length |-> p.length]
         /\ n \in FreeRange /\ n.offset = o + size
    BY <1>1, <2>1 DEF FreeRange
  <2>2. f \in FreeRange /\ f.offset = q[k - 1].offset /\ end(f) = end(q[k])
    <3> HIDE DEF p, n
    <3>1. [offset |-> p.offset, length |-> p.length + size + n.length] \in FreeRange
      BY <2>12 DEF FreeRange
    <3>2. p.offset + (p.length + size + n.length) = n.offset + n.length
      BY <2>12 DEF FreeRange
    <3> QED
      BY <3>1, <3>2 DEF end, p, n
  <2>3. [q EXCEPT ![k - 1].length = @ + size + q[k].length] = [q EXCEPT ![k - 1] = f]
    <3>1. [p EXCEPT !.length = @ + size + q[k].length] = f
      BY <2>12 DEF FreeRange
    <3> QED
      BY <3>1
  <2> HIDE DEF f
  <2>4. /\ r \in Seq(FreeRange) /\ DOMAIN r = 1..(Len(q) - 1)
        /\ \A i \in 1..(Len(q) - 1) : r[i] = IF i < k THEN q[i] ELSE q[i + 1]
    <3>1. k \in 1..Len(q) /\ q \in Seq(FreeRange)
      BY <1>1, <2>1
    <3> QED
      BY <3>1, RemoveFacts
  <2>5. Exact(r, free \ (q[k].offset)..(end(q[k]) - 1))
    BY <2>1, RemoveExact
  <2>6. remove_range([q EXCEPT ![k - 1] = f], k) = [r EXCEPT ![k - 1] = f]
    <3> DEFINE joined == [q EXCEPT ![k - 1] = f]
    <3>1. /\ Len(joined) = Len(q) /\ \A i \in 1..Len(q) : joined[i] = IF i = k - 1 THEN f ELSE q[i]
      BY <1>1, <2>1, <2>2, ReplaceFacts
    <3> HIDE DEF joined
    <3>2. remove_range(joined, k) = [i \in 1..(Len(q) - 1) |-> IF i < k THEN joined[i] ELSE joined[i + 1]]
      BY <3>1 DEF remove_range
    <3> HIDE DEF r
    <3>3. [r EXCEPT ![k - 1] = f] = [i \in 1..(Len(q) - 1) |-> IF i = k - 1 THEN f ELSE r[i]]
      BY <2>4
    <3>4. ASSUME NEW i \in 1..(Len(q) - 1)
          PROVE  (IF i < k THEN joined[i] ELSE joined[i + 1]) = IF i = k - 1 THEN f ELSE r[i]
      <4>1. i \in 1..Len(q) /\ i + 1 \in 1..Len(q) /\ k \in Int
        BY <1>1, <2>1
      <4>2. CASE i < k
        BY <2>4, <3>1, <4>1, <4>2
      <4>3. CASE i >= k
        <5>1. joined[i + 1] = q[i + 1] /\ r[i] = q[i + 1] /\ i # k - 1
          BY <2>4, <3>1, <4>1, <4>3
        <5> QED
          BY <4>1, <4>3, <5>1
      <4> QED
        BY <4>1, <4>2, <4>3
    <3>5. remove_range(joined, k) = [r EXCEPT ![k - 1] = f]
      BY <3>2, <3>3, <3>4
    <3> QED
      BY <3>5 DEF joined
  <2> HIDE DEF r
  <2>7. k - 1 \in DOMAIN r /\ r[k - 1] = q[k - 1]
    BY <1>1, <2>1, <2>4
  <2>8. \A i \in DOMAIN r : i < k - 1 => end(r[i]) < f.offset
    <3> SUFFICES ASSUME NEW i \in DOMAIN r, i < k - 1 PROVE end(r[i]) < f.offset
      OBVIOUS
    <3>1. i \in 1..(Len(q) - 1) /\ i < k /\ k \in Int
      BY <1>1, <2>1, <2>4
    <3>2. r[i] = q[i]
      BY <2>4, <3>1
    <3>3. i \in DOMAIN q
      BY <1>1, <2>1, <3>1
    <3> QED
      BY <1>1, <2>1, <2>2, <3>2, <3>3
  <2>9. \A i \in DOMAIN r : i > k - 1 => end(f) < r[i].offset
    <3> SUFFICES ASSUME NEW i \in DOMAIN r, i > k - 1 PROVE end(f) < r[i].offset
      OBVIOUS
    <3>1. i \in 1..(Len(q) - 1) /\ ~ i < k /\ k < i + 1
      BY <1>1, <2>1, <2>4
    <3>2. r[i] = q[i + 1]
      BY <2>4, <3>1
    <3>3. i + 1 \in DOMAIN q
      BY <1>1, <2>1, <3>1
    <3> QED
      BY <1>1, <2>1, <2>2, <3>1, <3>2, <3>3
  <2>10. Exact([r EXCEPT ![k - 1] = f],
               ((free \ (q[k].offset)..(end(q[k]) - 1)) \ (r[k - 1].offset)..(end(r[k - 1]) - 1))
                 \cup (f.offset)..(end(f) - 1))
    BY <2>2, <2>5, <2>7, <2>8, <2>9, ReplaceExact
  <2>11. \A u \in Nat :
           u \in ((free \ (q[k].offset)..(end(q[k]) - 1)) \ (r[k - 1].offset)..(end(r[k - 1]) - 1))
                   \cup (f.offset)..(end(f) - 1)
             <=> u \in free \cup o..(o + size - 1)
    <3>1. /\ \A u \in Nat : q[k].offset <= u /\ u < end(q[k]) => u \in free
          /\ q[k].offset \in Nat /\ end(q[k]) \in Nat /\ q[k].offset < end(q[k])
      BY <1>5, <1>13, <2>1
    <3>2. /\ \A u \in Nat : q[k - 1].offset <= u /\ u < end(q[k - 1]) => u \in free
          /\ q[k - 1].offset \in Nat /\ q[k - 1].offset < end(q[k - 1])
      BY <1>5, <1>13, <2>1
    <3> QED
      BY <2>1, <2>2, <2>7, <3>1, <3>2
  <2> QED
    BY <1>4, <1>11, <2>3, <2>6, <2>10, <2>11, ExactOfEqual
<1> QED
  BY <1>8, <1>9, <1>10, <1>11

-----------------------------------------------------------------------------
(* Allocating.                                                             *)

\* vkd3d_memory_chunk_allocate_range takes exactly the range it returns out of the list,
\* wherever in its free range that lies.
LEMMA TakeExact ==
  ASSUME NEW q, NEW free, Exact(q, free), NEW k \in DOMAIN q, NEW o \in Nat,
         NEW size \in Nat \ {0}, q[k].offset <= o, o + size <= end(q[k])
  PROVE  Exact(take_range(q, k, o, size), free \ o..(o + size - 1))
<1> DEFINE p == q[k]
           l == o - p.offset
           r == end(p) - o - size
           left == [offset |-> p.offset, length |-> l]
           right == [offset |-> o + size, length |-> r]
<1>1. /\ q \in Seq(FreeRange) /\ Len(q) \in Nat /\ DOMAIN q = 1..Len(q) /\ Sorted(q)
      /\ \A i \in DOMAIN q : /\ q[i].offset \in Nat /\ end(q[i]) \in Nat /\ q[i].offset < end(q[i])
                             /\ i \in Nat /\ q[i] \in FreeRange
      /\ \A i, j \in DOMAIN q : i < j => end(q[i]) < q[j].offset
  BY ListFacts DEF Exact, Sorted
<1>2. /\ p \in FreeRange /\ p.offset \in Nat /\ end(p) \in Nat /\ p.offset < end(p)
      /\ p.offset <= o /\ o + size <= end(p)
      /\ \A i \in DOMAIN q : (i < k => end(q[i]) < p.offset) /\ (k < i => end(p) < q[i].offset)
  BY <1>1
<1>3. [p EXCEPT !.length = l] = left
  BY <1>2 DEF FreeRange
<1>4. take_range(q, k, o, size) =
        CASE l > 0 /\ r > 0 -> insert_range([q EXCEPT ![k] = left], k + 1, right)
          [] l > 0 /\ r = 0 -> [q EXCEPT ![k] = left]
          [] l = 0 /\ r > 0 -> [q EXCEPT ![k] = right]
          [] OTHER -> remove_range(q, k)
  BY <1>3 DEF take_range
<1>5. l \in Nat /\ r \in Nat
  BY <1>2
<1>6. l > 0 => left \in FreeRange /\ left.offset = p.offset /\ end(left) = o
  BY <1>2, <1>5 DEF FreeRange, end
<1>7. r > 0 => right \in FreeRange /\ right.offset = o + size /\ end(right) = end(p)
  BY <1>2, <1>5 DEF FreeRange, end
<1>8. \A u \in Nat : p.offset <= u /\ u < end(p) => u \in free
  BY DEF Exact, Covers
<1>9. l = 0 <=> o = p.offset
  BY <1>2
<1>10. r = 0 <=> o + size = end(p)
  BY <1>2
<1> HIDE DEF left, right, l, r
<1>11. CASE l > 0
  <2> DEFINE z == [q EXCEPT ![k] = left]
             kept == (free \ (p.offset)..(end(p) - 1)) \cup (left.offset)..(end(left) - 1)
  <2>1. \A i \in DOMAIN q : i < k => end(q[i]) < left.offset
    BY <1>2, <1>6, <1>11
  <2>2. \A i \in DOMAIN q : i > k => end(left) < q[i].offset
    BY <1>1, <1>2, <1>6, <1>11
  <2>3. Exact(z, kept)
    BY <1>6, <1>11, <2>1, <2>2, ReplaceExact
  <2>4. \A u \in Nat : u \in kept <=> u \in free /\ (u < o \/ end(p) <= u)
    BY <1>2, <1>6, <1>8, <1>11
  <2>5. CASE r = 0
    <3>1. \A u \in Nat : u \in kept <=> u \in free \ o..(o + size - 1)
      BY <1>2, <1>10, <2>4, <2>5
    <3>2. take_range(q, k, o, size) = z
      BY <1>4, <1>11, <2>5
    <3> QED
      BY <2>3, <3>1, <3>2, ExactOfEqual
  <2>6. CASE r > 0
    <3>1. /\ z \in Seq(FreeRange) /\ DOMAIN z = 1..Len(q) /\ Len(z) = Len(q)
          /\ \A i \in 1..Len(q) : z[i] = IF i = k THEN left ELSE q[i]
      BY <1>1, <1>6, <1>11, ReplaceFacts
    <3> HIDE DEF z
    <3>2. \A i \in DOMAIN z : i < k + 1 => end(z[i]) < right.offset
      <4> SUFFICES ASSUME NEW i \in DOMAIN z, i < k + 1 PROVE end(z[i]) < o + size
        BY <1>7, <2>6
      <4>1. CASE i = k
        BY <1>1, <1>6, <1>11, <3>1, <4>1
      <4>2. CASE i # k
        <5>1. i \in DOMAIN q /\ i < k /\ z[i] = q[i]
          BY <1>1, <3>1, <4>2
        <5> QED
          BY <1>1, <1>2, <5>1
      <4> QED
        BY <4>1, <4>2
    <3>3. \A i \in DOMAIN z : i >= k + 1 => end(right) < z[i].offset
      <4> SUFFICES ASSUME NEW i \in DOMAIN z, i >= k + 1 PROVE end(p) < z[i].offset
        BY <1>7, <2>6
      <4>1. i \in DOMAIN q /\ k < i /\ z[i] = q[i]
        BY <1>1, <3>1
      <4> QED
        BY <1>2, <4>1
    <3>4. k + 1 \in 1..(Len(z) + 1)
      BY <1>1, <3>1
    <3> HIDE DEF kept
    <3>5. Exact(insert_range(z, k + 1, right), kept \cup (right.offset)..(end(right) - 1))
      BY <1>7, <2>3, <2>6, <3>2, <3>3, <3>4, InsertExact
    <3>6. \A u \in Nat : u \in kept \cup (right.offset)..(end(right) - 1)
                             <=> u \in free \ o..(o + size - 1)
      BY <1>2, <1>7, <1>8, <2>4, <2>6
    <3>7. take_range(q, k, o, size) = insert_range(z, k + 1, right)
      BY <1>4, <1>11, <2>6 DEF z
    <3> QED
      BY <3>5, <3>6, <3>7, ExactOfEqual
  <2> QED
    BY <1>5, <2>5, <2>6
<1>12. CASE l = 0 /\ r > 0
  <2> DEFINE kept == (free \ (p.offset)..(end(p) - 1)) \cup (right.offset)..(end(right) - 1)
  <2>1. \A i \in DOMAIN q : i < k => end(q[i]) < right.offset
    BY <1>1, <1>2, <1>7, <1>12
  <2>2. \A i \in DOMAIN q : i > k => end(right) < q[i].offset
    BY <1>1, <1>2, <1>7, <1>12
  <2>3. Exact([q EXCEPT ![k] = right], kept)
    BY <1>7, <1>12, <2>1, <2>2, ReplaceExact
  <2>4. \A u \in Nat : u \in kept <=> u \in free \ o..(o + size - 1)
    BY <1>2, <1>7, <1>8, <1>9, <1>12
  <2>5. take_range(q, k, o, size) = [q EXCEPT ![k] = right]
    BY <1>4, <1>12
  <2> QED
    BY <2>3, <2>4, <2>5, ExactOfEqual
<1>13. CASE l = 0 /\ r = 0
  <2>1. Exact(remove_range(q, k), free \ (p.offset)..(end(p) - 1))
    BY RemoveExact
  <2>2. \A u \in Nat : u \in free \ (p.offset)..(end(p) - 1) <=> u \in free \ o..(o + size - 1)
    BY <1>2, <1>9, <1>10, <1>13
  <2>3. take_range(q, k, o, size) = remove_range(q, k)
    BY <1>4, <1>13
  <2> QED
    BY <2>1, <2>2, <2>3, ExactOfEqual
<1> QED
  BY <1>5, <1>11, <1>12, <1>13

\* An aligned offset is no smaller.
LEMMA AlignFacts ==
  ASSUME NEW o \in Nat, NEW a \in Nat \ {0}
  PROVE  align(o, a) \in Nat /\ o <= align(o, a)
<1> DEFINE n == o + a - 1
           d == n \div a
<1>1. n \in Nat
  OBVIOUS
<1> HIDE DEF n
<1>2. d \in Nat /\ n = a * d + (n % a) /\ (n % a) \in 0..(a - 1)
  BY <1>1
<1>3. align(o, a) = d * a
  BY DEF align, n
<1> HIDE DEF d
<1>4. d * a = a * d /\ d * a \in Nat
  BY <1>2
<1>5. a * d + (n % a) = o + a - 1
  BY <1>2 DEF n
<1> QED
  BY <1>2, <1>3, <1>4, <1>5

\* Zero is aligned.
LEMMA AlignZero ==
  ASSUME NEW a \in Nat \ {0}
  PROVE  align(0, a) = 0
<1> DEFINE n == a - 1
           d == n \div a
<1>1. n \in Nat
  OBVIOUS
<1> HIDE DEF n
<1>2. d \in Nat /\ n = a * d + (n % a) /\ (n % a) \in 0..(a - 1)
  BY <1>1
<1>3. align(0, a) = d * a
  <2>1. 0 + a - 1 = n
    BY DEF n
  <2> QED
    BY <2>1 DEF align
<1> HIDE DEF d
<1>4. d = 0
  <2> SUFFICES ASSUME d >= 1 PROVE FALSE
    BY <1>2
  <2>1. a * d >= a
    BY <1>2
  <2> QED
    BY <1>2, <2>1 DEF n
<1> QED
  BY <1>3, <1>4

\* If some range is large enough, one that is gets chosen.
LEMMA PickFacts ==
  ASSUME NEW q, NEW free, Exact(q, free), NEW B \in Nat, Within(free, B),
         NEW size, NEW a, Fitting(q, size, a) # {}
  PROVE  pick_range(q, size, a) \in Fitting(q, size, a)
<1> DEFINE fitting == Fitting(q, size, a)
           exact == {i \in fitting : q[i].length = size}
           largest == {i \in fitting : \A j \in fitting : q[j].length <= q[i].length}
           candidates == IF exact # {} THEN exact ELSE largest
           rest == {B - q[j].length : j \in fitting}
<1>1. /\ DOMAIN q = 1..Len(q)
      /\ \A i \in DOMAIN q : /\ i \in Nat /\ q[i].offset \in Nat /\ q[i].length \in Nat \ {0}
                             /\ end(q[i]) = q[i].offset + q[i].length
  BY ListFacts DEF Exact
<1>2. fitting \subseteq DOMAIN q
  BY <1>1 DEF Fitting
<1>3. \A i \in DOMAIN q : q[i].length <= B
  <2> SUFFICES ASSUME NEW i \in DOMAIN q PROVE q[i].length <= B
    OBVIOUS
  <2> DEFINE last == q[i].offset + q[i].length - 1
  <2>1. last \in Nat /\ q[i].offset <= last /\ last < end(q[i])
    BY <1>1
  <2>2. last \in free
    BY <2>1 DEF Exact, Covers
  <2>3. last < B
    BY <2>1, <2>2 DEF Within
  <2> QED
    BY <1>1, <2>3
<1> HIDE DEF fitting
<1>4. rest \subseteq Nat /\ rest # {}
  BY <1>1, <1>2, <1>3 DEF fitting
<1>5. largest # {}
  <2> HIDE DEF rest
  <2>1. PICK m \in rest : \A y \in rest : m <= y
    BY <1>4, LeastNatural
  <2>2. PICK i \in fitting : m = B - q[i].length
    BY <2>1 DEF rest
  <2>3. ASSUME NEW j \in fitting PROVE q[j].length <= q[i].length
    <3>1. B - q[j].length \in rest
      BY DEF rest
    <3>2. B - q[i].length <= B - q[j].length
      BY <2>1, <2>2, <3>1
    <3> QED
      BY <1>1, <1>2, <3>2
  <2> QED
    BY <2>3
<1>6. candidates # {} /\ candidates \subseteq fitting
  BY <1>5
<1>7. pick_range(q, size, a) = CHOOSE i \in candidates : \A j \in candidates : i <= j
  BY DEF pick_range, fitting
<1> HIDE DEF candidates
<1>8. candidates \subseteq Nat
  BY <1>1, <1>2, <1>6
<1>9. \E i \in candidates : \A j \in candidates : i <= j
  BY <1>6, <1>8, LeastNatural
<1>10. pick_range(q, size, a) \in candidates
  BY <1>7, <1>9
<1> QED
  BY <1>6, <1>10 DEF fitting

\* The offset that is returned.
LEMMA AllocateOffset ==
  ASSUME NEW q, NEW free, Exact(q, free), NEW B \in Nat, Within(free, B),
         NEW size, NEW a \in Nat \ {0}, Fitting(q, size, a) # {}
  PROVE  align(q[pick_range(q, size, a)].offset, a) \in Nat
<1> DEFINE k == pick_range(q, size, a)
<1>1. k \in Fitting(q, size, a)
  BY PickFacts
<1>2. DOMAIN q = 1..Len(q) /\ \A i \in DOMAIN q : q[i].offset \in Nat
  BY ListFacts DEF Exact
<1>3. k \in DOMAIN q
  BY <1>1, <1>2 DEF Fitting
<1> QED
  BY <1>2, <1>3, AlignFacts

\* vkd3d_memory_chunk_allocate_range, when a range is large enough: the aligned offset it
\* returns is the start of free units, and exactly those leave the list.
THEOREM AllocateExact ==
  ASSUME NEW q, NEW free, Exact(q, free), NEW B \in Nat, Within(free, B),
         NEW size \in Nat \ {0}, NEW a \in Nat \ {0}, Fitting(q, size, a) # {},
         NEW k, k = pick_range(q, size, a), NEW o, o = align(q[k].offset, a)
  PROVE  /\ o..(o + size - 1) \subseteq free
         /\ Exact(take_range(q, k, o, size), free \ o..(o + size - 1))
<1>1. k \in Fitting(q, size, a)
  BY PickFacts
<1>2. /\ DOMAIN q = 1..Len(q)
      /\ \A i \in DOMAIN q : q[i].offset \in Nat
  BY ListFacts DEF Exact
<1>3. k \in DOMAIN q /\ o + size <= end(q[k])
  BY <1>1, <1>2 DEF Fitting, Fits
<1>4. o \in Nat /\ q[k].offset <= o
  BY <1>2, <1>3, AlignFacts
<1>5. Exact(take_range(q, k, o, size), free \ o..(o + size - 1))
  BY <1>3, <1>4, TakeExact
<1>6. \A u \in Nat : q[k].offset <= u /\ u < end(q[k]) => u \in free
  BY <1>3 DEF Exact, Covers
<1>7. ASSUME NEW u \in o..(o + size - 1) PROVE u \in free
  <2>1. end(q[k]) \in Nat
    BY <1>2, <1>3, ListFacts DEF Exact, end
  <2>2. u \in Nat /\ q[k].offset <= u /\ u < end(q[k])
    BY <1>2, <1>3, <1>4, <2>1
  <2> QED
    BY <1>6, <2>2
<1> QED
  BY <1>3, <1>4, <1>5, <1>7

-----------------------------------------------------------------------------
(* The memory of the allocations.                                          *)

\* The units no allocation of a chunk owns.
UnitsOf(a) == Units(allocation[a].offset, allocation[a].size)
FreeOf(m) == (0..(ChunkSize - 1)) \ UNION {UnitsOf(a) : a \in Owners(m)}

Places == {"idle", "fill", "poll", "unqueue", "wait", "give"}
Freeing == {"poll", "unqueue", "wait", "give"}

MemoryObject == [kind : {"none", "chunk", "dedicated"}, size : Nat,
                 ranges : Seq(FreeRange), clear : Nat]
Allocation == [state : {"none", "held"}, memory : Memory \cup {NoMemory},
               offset : Nat, size : Nat, zeroed : BOOLEAN, clear : Nat]

Types ==
  /\ allocator_mutex \in Threads \cup {Nobody}
  /\ memory \in [Memory -> MemoryObject]
  /\ allocation \in [Alloc -> Allocation]
  /\ thread \in [Threads -> [at : Places, on : Alloc \cup {NoAlloc}, wait : Int]]
  /\ next_signal_value \in Nat

\* A thread that is not idle has an allocation to itself.
BusyThreads ==
  \A t \in Threads : thread[t].at # "idle" =>
    /\ thread[t].on \in Alloc /\ allocation[thread[t].on].state = "held"
    /\ \A u \in Threads : thread[u].at # "idle" /\ thread[u].on = thread[t].on => u = t

\* An allocation lies in memory that exists, alone there if it is not a chunk.
HeldMemory ==
  \A a \in Alloc : allocation[a].state = "held" =>
    /\ allocation[a].memory \in Memory /\ memory[allocation[a].memory].kind # "none"
    /\ allocation[a].size > 0
    /\ memory[allocation[a].memory].kind = "dedicated" =>
         \A b \in Alloc : allocation[b].state = "held" /\ allocation[b].memory = allocation[a].memory
                            => b = a

\* The free list of a chunk, and the slices of its owners.
ChunkExact(m) ==
  memory[m].kind = "chunk" =>
    /\ Exact(memory[m].ranges, FreeOf(m))
    /\ \A a \in Owners(m) : UnitsOf(a) \subseteq 0..(ChunkSize - 1)
    /\ \A a, b \in Owners(m) : a # b => UnitsOf(a) \cap UnitsOf(b) = {}

ChunksExact == \A m \in Memory : ChunkExact(m)

\* Who holds the allocator's mutex destroys a chunk that nobody owns a slice of.
WholeChunk ==
  \A t \in Threads : Whole(t) =>
    /\ thread[t].at \in Freeing
    /\ \A m \in Memory : allocation[thread[t].on].memory = m =>
         memory[m].kind = "chunk" /\ Owners(m) = {}

Inv == Types /\ BusyThreads /\ HeldMemory /\ ChunksExact /\ WholeChunk

-----------------------------------------------------------------------------
(* Steps that move no allocation.                                          *)

\* Memory, slices and mutex stay; who destroys a chunk goes on with that.
SameLayout ==
  /\ allocator_mutex' = allocator_mutex
  /\ \A m \in Memory : memory'[m].kind = memory[m].kind /\ memory'[m].ranges = memory[m].ranges
  /\ \A a \in Alloc : /\ allocation'[a].state = allocation[a].state
                      /\ allocation'[a].memory = allocation[a].memory
                      /\ allocation'[a].offset = allocation[a].offset
                      /\ allocation'[a].size = allocation[a].size
  /\ \A t \in Threads : Whole(t) => thread'[t].on = thread[t].on /\ thread'[t].at \in Freeing

\* A chunk whose owners, slices and list stay is still exact.
LEMMA ChunkKept ==
  ASSUME NEW m \in Memory, ChunkExact(m), memory'[m].kind = memory[m].kind,
         memory'[m].ranges = memory[m].ranges, Owners(m)' = Owners(m),
         \A a \in Owners(m) : /\ allocation'[a].offset = allocation[a].offset
                              /\ allocation'[a].size = allocation[a].size
  PROVE  ChunkExact(m)'
<1>1. \A a \in Owners(m) : UnitsOf(a)' = UnitsOf(a)
  BY DEF UnitsOf, Units
<1>2. {UnitsOf(a)' : a \in Owners(m)} = {UnitsOf(a) : a \in Owners(m)}
  BY <1>1
<1>3. FreeOf(m)' = FreeOf(m)
  BY <1>2 DEF FreeOf
<1> QED
  BY <1>1, <1>3 DEF ChunkExact

\* Memory stays as it is laid out.
LEMMA LayoutKept ==
  ASSUME Inv, SameLayout
  PROVE  HeldMemory' /\ ChunksExact' /\ WholeChunk'
<1>1. \A m : Owners(m)' = Owners(m)
  BY DEF Owners, SameLayout, Whole
<1>2. \A m : Owners(m) \subseteq Alloc
  BY DEF Owners
<1>3. HeldMemory'
  BY DEF Inv, HeldMemory, SameLayout
<1>4. ChunksExact'
  <2> SUFFICES ASSUME NEW m \in Memory PROVE ChunkExact(m)'
    BY DEF ChunksExact
  <2>1. ChunkExact(m)
    BY DEF Inv, ChunksExact
  <2>2. \A a \in Owners(m) : /\ allocation'[a].offset = allocation[a].offset
                             /\ allocation'[a].size = allocation[a].size
    BY <1>2 DEF SameLayout
  <2>3. memory'[m].kind = memory[m].kind /\ memory'[m].ranges = memory[m].ranges
    BY DEF SameLayout
  <2> QED
    BY <1>1, <2>1, <2>2, <2>3, ChunkKept
<1>5. ASSUME NEW t \in Threads, Whole(t)' PROVE thread'[t].at \in Freeing
  BY <1>5 DEF SameLayout, Whole
<1>6. ASSUME NEW t \in Threads, Whole(t)', NEW m \in Memory, allocation'[thread'[t].on].memory = m
      PROVE  memory'[m].kind = "chunk" /\ Owners(m)' = {}
  <2> DEFINE a == thread[t].on
  <2>1. Whole(t)
    BY <1>6 DEF SameLayout, Whole
  <2>2. thread[t].at \in Freeing
        /\ (allocation[a].memory = m => memory[m].kind = "chunk" /\ Owners(m) = {})
    BY <2>1 DEF Inv, WholeChunk
  <2>3. a \in Alloc
    BY <2>2 DEF Inv, BusyThreads, Freeing
  <2>4. thread'[t].on = a /\ allocation'[a].memory = allocation[a].memory
    BY <2>1, <2>3 DEF SameLayout
  <2>5. memory'[m].kind = memory[m].kind
    BY DEF SameLayout
  <2> QED
    BY <1>1, <1>6, <2>2, <2>4, <2>5
<1>7. WholeChunk'
  BY <1>5, <1>6 DEF WholeChunk
<1> QED
  BY <1>3, <1>4, <1>7

\* A submission of the queue, or its absence, leaves a natural value to signal next.
LEMMA FlushFacts ==
  ASSUME next_signal_value \in Nat, NEW queued, NEW bytes, flush_locked(queued, bytes)
  PROVE  next_signal_value' \in Nat
  BY DEF flush_locked

\* So does another transfer.
LEMMA ExecuteTransferFacts ==
  ASSUME next_signal_value \in Nat, NEW transfer, execute_transfer_locked(transfer)
  PROVE  next_signal_value' \in Nat
  BY FlushFacts DEF execute_transfer_locked

\* Steps of the queue, the GPU and the tracker.
LEMMA AllocatorUntouched ==
  ASSUME Inv, UNCHANGED <<allocator_mutex, memory, allocation, thread>>, next_signal_value' \in Nat
  PROVE  Inv'
<1>1. SameLayout
  BY DEF SameLayout, Inv, WholeChunk
<1>2. HeldMemory' /\ ChunksExact' /\ WholeChunk'
  BY <1>1, LayoutKept
<1>3. Types' /\ BusyThreads'
  BY DEF Inv, Types, BusyThreads
<1> QED
  BY <1>2, <1>3 DEF Inv

\* vkd3d_memory_transfer_queue_fill_allocation.
LEMMA FillKeeps ==
  ASSUME Inv, NEW t \in Threads, Fill(t)
  PROVE  Inv'
<1> DEFINE a == thread[t].on
           m == allocation[a].memory
           n == next_signal_value
<1>1. /\ thread[t].at = "fill" /\ allocator_mutex' = allocator_mutex
      /\ allocation' = [allocation EXCEPT ![a].clear = n]
      /\ memory' = IF memory[m].kind = "chunk" THEN [memory EXCEPT ![m].clear = n] ELSE memory
      /\ thread' = [thread EXCEPT ![t] = Idle]
      /\ execute_transfer_locked(clear_of(allocation[a]))
  BY DEF Fill, return
<1>2. Types
  BY DEF Inv
<1>3. n \in Nat /\ next_signal_value' \in Nat
  BY <1>1, <1>2, ExecuteTransferFacts DEF Types
<1>4. allocator_mutex # t
  BY <1>1 DEF Inv, WholeChunk, Freeing, Whole
<1>5. a \in Alloc /\ m \in Memory
  BY <1>1 DEF Inv, BusyThreads, HeldMemory
<1> HIDE DEF a, m, n
<1>6. /\ \A u \in Threads : thread'[u] = IF u = t THEN Idle ELSE thread[u]
      /\ \A x \in Memory : memory'[x].kind = memory[x].kind /\ memory'[x].ranges = memory[x].ranges
  <2>1. memory' = memory \/ memory' = [memory EXCEPT ![m].clear = n]
    BY <1>1
  <2>2. \A x \in Memory : memory[x] \in MemoryObject
    BY <1>2 DEF Types
  <2> QED
    BY <1>1, <1>2, <1>5, <2>1, <2>2 DEF Types, MemoryObject
<1>7. \A x \in Alloc : /\ allocation'[x].state = allocation[x].state
                       /\ allocation'[x].memory = allocation[x].memory
                       /\ allocation'[x].offset = allocation[x].offset
                       /\ allocation'[x].size = allocation[x].size
  BY <1>1, <1>2, <1>5 DEF Types, Allocation
<1>8. SameLayout
  BY <1>1, <1>4, <1>6, <1>7 DEF SameLayout, Inv, WholeChunk, Whole
<1>9. HeldMemory' /\ ChunksExact' /\ WholeChunk'
  BY <1>8, LayoutKept
<1>10. Types'
  <2>1. memory' \in [Memory -> MemoryObject]
    BY <1>1, <1>2, <1>3, <1>5 DEF Types, MemoryObject
  <2>2. allocation' \in [Alloc -> Allocation]
    BY <1>1, <1>2, <1>3, <1>5 DEF Types, Allocation
  <2>3. thread' \in [Threads -> [at : Places, on : Alloc \cup {NoAlloc}, wait : Int]]
    BY <1>1, <1>2 DEF Types, Idle, Places
  <2> QED
    BY <1>1, <1>2, <1>3, <2>1, <2>2, <2>3 DEF Types
<1>11. BusyThreads'
  BY <1>6, <1>7 DEF Inv, BusyThreads, Idle
<1> QED
  BY <1>9, <1>10, <1>11 DEF Inv

\* An application thread begins to free an allocation.
LEMMA FreeKeeps ==
  ASSUME Inv, NEW t \in Threads, NEW a \in Alloc, Free(t, a)
  PROVE  Inv'
<1> DEFINE place == IF allocation[a].clear = 0 THEN "give" ELSE "poll"
           begun == [at |-> place, on |-> a, wait |-> 0]
<1>1. /\ thread[t].at = "idle" /\ allocation[a].state = "held"
      /\ \A u \in Threads : thread[u].at # "idle" => thread[u].on # a
      /\ thread' = [thread EXCEPT ![t] = begun]
      /\ UNCHANGED <<allocator_mutex, memory, allocation, next_signal_value>>
  BY DEF Free, start, allocator, queue
<1>2. Types
  BY DEF Inv
<1>3. begun \in [at : Places, on : Alloc \cup {NoAlloc}, wait : Int] /\ begun.on = a
  BY DEF Places
<1> HIDE DEF begun
<1>4. Types' /\ \A u \in Threads : thread'[u] = IF u = t THEN begun ELSE thread[u]
  BY <1>1, <1>2, <1>3 DEF Types
<1>5. SameLayout
  BY <1>1, <1>4 DEF SameLayout, Inv, WholeChunk, Whole, Freeing
<1>6. BusyThreads'
  BY <1>1, <1>3, <1>4 DEF Inv, BusyThreads
<1> QED
  BY <1>4, <1>5, <1>6, LayoutKept DEF Inv

\* A thread that frees something moves on.
LEMMA ProceedKeeps ==
  ASSUME Inv, NEW t \in Threads, thread[t].at \in Freeing,
         NEW state \in [at : Places, on : Alloc \cup {NoAlloc}, wait : Int],
         state.at \in Freeing, state.on = thread[t].on, thread' = [thread EXCEPT ![t] = state],
         UNCHANGED <<allocator_mutex, memory, allocation, next_signal_value>>
  PROVE  Inv'
<1>1. Types
  BY DEF Inv
<1>2. Types' /\ \A u \in Threads : thread'[u] = IF u = t THEN state ELSE thread[u]
  BY <1>1 DEF Types
<1>3. SameLayout
  BY <1>2 DEF SameLayout, Inv, WholeChunk, Whole
<1>4. BusyThreads'
  BY <1>2 DEF Inv, BusyThreads, Freeing
<1> QED
  BY <1>2, <1>3, <1>4, LayoutKept DEF Inv

\* vkd3d_memory_transfer_queue_wait_allocation.
LEMMA WaitingKeeps ==
  ASSUME Inv, NEW t \in Threads, Poll(t) \/ Unqueue(t) \/ Waited(t)
  PROVE  Inv'
<1> DEFINE Moved(state) == thread' = [thread EXCEPT ![t] = state]
           State == [at : Places, on : Alloc \cup {NoAlloc}, wait : Int]
           old == thread[t]
<1>1. /\ old \in State /\ next_signal_value \in Nat
      /\ thread = [u \in Threads |-> thread[u]]
  BY DEF Inv, Types
<1>2. old.at \in Freeing
  BY DEF Poll, Unqueue, Waited, Freeing
<1>3. UNCHANGED <<allocator_mutex, memory, allocation, next_signal_value>>
  BY DEF Poll, Unqueue, Waited, allocator, queue
<1>4. \A place \in Freeing : /\ [old EXCEPT !.at = place] \in State
                             /\ [old EXCEPT !.at = place].at = place
                             /\ [old EXCEPT !.at = place].on = old.on
  BY <1>1 DEF Places, Freeing
<1>5. CASE \E place \in Freeing : proceed(t, place)
  <2>1. PICK place \in Freeing : proceed(t, place)
    BY <1>5
  <2>2. Moved([old EXCEPT !.at = place])
    BY <2>1 DEF proceed
  <2> HIDE DEF State
  <2> QED
    BY <1>2, <1>3, <1>4, <2>2, ProceedKeeps DEF State
<1>6. CASE Unqueue(t) /\ \E v \in Int : Moved([old EXCEPT !.at = "wait", !.wait = v])
  <2>1. PICK v \in Int : Moved([old EXCEPT !.at = "wait", !.wait = v])
    BY <1>6
  <2> DEFINE state == [old EXCEPT !.at = "wait", !.wait = v]
  <2>2. state \in State /\ state.at = "wait" /\ state.on = old.on
    BY <1>1 DEF Places
  <2> HIDE DEF state
  <2>3. Moved(state)
    BY <2>1 DEF state
  <2> QED
    BY <1>2, <1>3, <2>2, <2>3, ProceedKeeps DEF Freeing
<1>7. CASE Poll(t)
  BY <1>5, <1>7 DEF Poll, Freeing
<1>8. CASE Waited(t)
  BY <1>5, <1>8 DEF Waited, Freeing
<1>9. CASE Unqueue(t)
  <2>1. allocation[old.on].clear \in Int /\ (Whole(t) => memory[allocation[old.on].memory].clear \in Int)
    <3>1. old.on \in Alloc
      BY <1>2 DEF Inv, BusyThreads, Freeing
    <3>2. allocation[old.on].memory \in Memory
      BY <3>1, <1>2 DEF Inv, BusyThreads, HeldMemory, Freeing
    <3> QED
      BY <3>1, <3>2 DEF Inv, Types, Allocation, MemoryObject
  <2>2. Region(t).clear \in Int
    BY <2>1 DEF Region
  <2>3. last_signalled(Region(t).clear) \in Int
    BY <1>1, <2>2 DEF last_signalled
  <2>4. proceed(t, "give") \/ Moved([old EXCEPT !.at = "wait", !.wait = last_signalled(Region(t).clear)])
    BY <1>9 DEF Unqueue
  <2> QED
    BY <1>5, <1>6, <1>9, <2>3, <2>4 DEF Freeing
<1> QED
  BY <1>7, <1>8, <1>9

-----------------------------------------------------------------------------
(* A slice is taken.                                                       *)

\* A free range as large as the chunk has room for every request.
LEMMA NewChunkFits ==
  ASSUME NEW request \in Requests
  PROVE  LET all == <<[offset |-> 0, length |-> ChunkSize]>>
         IN /\ Exact(all, 0..(ChunkSize - 1))
            /\ Fitting(all, request.size, request.alignment) # {}
<1> DEFINE whole == [offset |-> 0, length |-> ChunkSize]
           all == <<whole>>
<1>1. /\ ChunkSize \in Nat \ {0}
      /\ request.size \in 1..ChunkSize /\ request.alignment \in 1..ChunkSize
  BY MemoryTransfersAssumption
<1>2. whole \in FreeRange /\ end(whole) = ChunkSize /\ whole.offset = 0
  BY <1>1 DEF FreeRange, end
<1> HIDE DEF whole
<1>3. all \in Seq(FreeRange) /\ Len(all) = 1 /\ DOMAIN all = {1} /\ all[1] = whole
  BY <1>2
<1> HIDE DEF all
<1>4. Exact(all, 0..(ChunkSize - 1))
  BY <1>1, <1>2, <1>3 DEF Exact, Sorted, Covers
<1>5. align(0, request.alignment) = 0
  BY <1>1, AlignZero
<1>6. 1 \in Fitting(all, request.size, request.alignment)
  BY <1>1, <1>2, <1>3, <1>5 DEF Fitting, Fits
<1> QED
  BY <1>4, <1>6 DEF all, whole

\* A request takes a slice of a chunk whose list is exact.
LEMMA SliceKeeps ==
  ASSUME Inv, NEW t \in Threads, NEW a \in Alloc, NEW request \in Requests, NEW m \in Memory,
         NEW object \in MemoryObject, object.kind = "chunk",
         thread[t].at = "idle", allocation[a].state = "none", allocator_mutex = Nobody,
         memory[m].kind # "dedicated", Exact(object.ranges, FreeOf(m)),
         \A b \in Owners(m) : UnitsOf(b) \subseteq 0..(ChunkSize - 1),
         \A b, c \in Owners(m) : b # c => UnitsOf(b) \cap UnitsOf(c) = {},
         Fitting(object.ranges, request.size, request.alignment) # {},
         slice(a, request, m, object),
         IF request.zeroed THEN start(t, a, "fill") ELSE UNCHANGED thread,
         UNCHANGED <<allocator_mutex, next_signal_value>>
  PROVE  Inv'
<1> DEFINE index == pick_range(object.ranges, request.size, request.alignment)
           offset == align(object.ranges[index].offset, request.alignment)
           taken == take_range(object.ranges, index, offset, request.size)
           after == [object EXCEPT !.ranges = taken]
           new == [state |-> "held", memory |-> m, offset |-> offset, size |-> request.size,
                   zeroed |-> request.zeroed, clear |-> object.clear]
           units == offset..(offset + request.size - 1)
<1>1. /\ memory' = [memory EXCEPT ![m] = after]
      /\ allocation' = [allocation EXCEPT ![a] = new]
  BY DEF slice, hold
<1>2. /\ ChunkSize \in Nat \ {0} /\ request.size \in Nat \ {0} /\ request.alignment \in Nat \ {0}
      /\ request.zeroed \in BOOLEAN /\ Nobody \notin Threads
  <2>1. /\ ChunkSize \in Nat \ {0} /\ request.size \in 1..ChunkSize
        /\ request.alignment \in 1..ChunkSize
    BY MemoryTransfersAssumption
  <2>2. request.zeroed \in BOOLEAN /\ Nobody \notin Threads
    BY MemoryTransfersAssumption
  <2> QED
    BY <2>1, <2>2
<1>3. FreeOf(m) \subseteq 0..(ChunkSize - 1)
  BY DEF FreeOf
<1>4. /\ offset \in Nat /\ units \subseteq FreeOf(m)
      /\ Exact(taken, FreeOf(m) \ units)
  <2> DEFINE q == object.ranges
             size == request.size
             alignment == request.alignment
             free == FreeOf(m)
  <2>1. index = pick_range(q, size, alignment) /\ offset = align(q[index].offset, alignment)
    OBVIOUS
  <2>2. /\ ChunkSize \in Nat /\ Within(free, ChunkSize) /\ Exact(q, free)
        /\ size \in Nat \ {0} /\ alignment \in Nat \ {0} /\ Fitting(q, size, alignment) # {}
    BY <1>2, <1>3 DEF Within
  <2> HIDE DEF index, offset, q, size, alignment, free
  <2>3. offset \in Nat
    BY <2>1, <2>2, AllocateOffset
  <2>4. offset..(offset + size - 1) \subseteq free
    BY <2>1, <2>2, AllocateExact
  <2>5. Exact(take_range(q, index, offset, size), free \ offset..(offset + size - 1))
    BY <2>1, <2>2, AllocateExact
  <2> QED
    BY <2>3, <2>4, <2>5 DEF q, size, free
<1> HIDE DEF index, offset, taken
<1>5. Types
  BY DEF Inv
<1>6. after \in MemoryObject /\ after.kind = "chunk" /\ after.ranges = taken
  <2>1. taken \in Seq(FreeRange)
    BY <1>4 DEF Exact, Sorted
  <2> QED
    BY <2>1 DEF MemoryObject
<1>7. /\ new \in Allocation /\ new.state = "held" /\ new.memory = m /\ new.offset = offset
      /\ new.size = request.size
  <2>1. object.clear \in Nat
    BY DEF MemoryObject
  <2> QED
    BY <1>2, <1>4, <2>1 DEF Allocation
<1> HIDE DEF after, new
<1>8. /\ \A x \in Memory : memory'[x] = IF x = m THEN after ELSE memory[x]
      /\ \A b \in Alloc : allocation'[b] = IF b = a THEN new ELSE allocation[b]
      /\ memory' \in [Memory -> MemoryObject] /\ allocation' \in [Alloc -> Allocation]
  BY <1>1, <1>5, <1>6, <1>7 DEF Types
<1>9. /\ thread' \in [Threads -> [at : Places, on : Alloc \cup {NoAlloc}, wait : Int]]
      /\ \A u \in Threads : thread'[u] = thread[u] \/ (u = t /\ thread'[u].on = a)
  <2>1. CASE request.zeroed
    <3> DEFINE filling == [at |-> "fill", on |-> a, wait |-> 0]
    <3>1. filling \in [at : Places, on : Alloc \cup {NoAlloc}, wait : Int] /\ filling.on = a
      BY DEF Places
    <3>2. thread' = [thread EXCEPT ![t] = filling]
      BY <2>1 DEF start
    <3> HIDE DEF filling
    <3> QED
      BY <1>5, <3>1, <3>2 DEF Types
  <2>2. CASE ~request.zeroed
    BY <1>5, <2>2 DEF Types
  <2> QED
    BY <2>1, <2>2
<1>10. Types'
  BY <1>5, <1>8, <1>9 DEF Types
<1>11. \A u \in Threads : thread[u].at # "idle" => thread[u].on # a
  BY DEF Inv, BusyThreads
<1>12. BusyThreads'
  <2>1. \A b \in Alloc : allocation[b].state = "held" => allocation'[b].state = "held"
    BY <1>7, <1>8
  <2>2. allocation'[a].state = "held"
    BY <1>7, <1>8
  <2> QED
    BY <1>9, <1>11, <2>1, <2>2 DEF Inv, BusyThreads
<1>13. HeldMemory'
  <2> SUFFICES ASSUME NEW b \in Alloc, allocation'[b].state = "held"
      PROVE  /\ allocation'[b].memory \in Memory /\ memory'[allocation'[b].memory].kind # "none"
             /\ allocation'[b].size > 0
             /\ memory'[allocation'[b].memory].kind = "dedicated" =>
                  \A c \in Alloc : allocation'[c].state = "held"
                                     /\ allocation'[c].memory = allocation'[b].memory => c = b
    BY DEF HeldMemory
  <2>1. CASE b = a
    BY <1>2, <1>6, <1>7, <1>8, <2>1
  <2>2. CASE b # a
    <3>1. allocation'[b] = allocation[b]
      BY <1>8, <2>2
    <3>2. /\ allocation[b].memory \in Memory /\ memory[allocation[b].memory].kind # "none"
          /\ allocation[b].size > 0
          /\ memory[allocation[b].memory].kind = "dedicated" =>
               \A c \in Alloc : allocation[c].state = "held"
                                  /\ allocation[c].memory = allocation[b].memory => c = b
      BY <3>1 DEF Inv, HeldMemory
    <3>3. CASE allocation[b].memory = m
      BY <1>6, <1>8, <3>1, <3>2, <3>3
    <3>4. CASE allocation[b].memory # m
      BY <1>7, <1>8, <3>1, <3>2, <3>4
    <3> QED
      BY <3>3, <3>4
  <2> QED
    BY <2>1, <2>2
<1>14. /\ \A u \in Threads : ~Whole(u) /\ ~Whole(u)'
  BY <1>2 DEF Whole
<1>15. Owners(m)' = Owners(m) \cup {a} /\ a \notin Owners(m)
  BY <1>7, <1>8, <1>14 DEF Owners
<1>16. \A x \in Memory \ {m} : Owners(x)' = Owners(x) /\ a \notin Owners(x)
  BY <1>7, <1>8, <1>14 DEF Owners
<1>17. UnitsOf(a)' = units /\ \A b \in Alloc \ {a} : UnitsOf(b)' = UnitsOf(b)
  BY <1>7, <1>8 DEF UnitsOf, Units
<1>18. Owners(m) \subseteq Alloc
  BY DEF Owners
<1> HIDE DEF units
<1>19. ChunkExact(m)'
  <2>1. FreeOf(m)' = FreeOf(m) \ units
    <3>1. {UnitsOf(b)' : b \in Owners(m)'} = {UnitsOf(b) : b \in Owners(m)} \cup {units}
      BY <1>15, <1>17, <1>18
    <3> QED
      BY <3>1, Zenon DEF FreeOf
  <2>2. memory'[m].ranges = taken
    BY <1>6, <1>8
  <2>3. Exact(memory[m].ranges, FreeOf(m))'
    BY <1>4, <2>1, <2>2
  <2>4. \A b \in Owners(m) : units \cap UnitsOf(b) = {}
    BY <1>4 DEF FreeOf
  <2>5. \A b \in Owners(m)' : UnitsOf(b)' \subseteq 0..(ChunkSize - 1)
    BY <1>3, <1>4, <1>15, <1>17, <1>18
  <2>6. \A b, c \in Owners(m)' : b # c => UnitsOf(b)' \cap UnitsOf(c)' = {}
    <3> SUFFICES ASSUME NEW b \in Owners(m)', NEW c \in Owners(m)', b # c
        PROVE  UnitsOf(b)' \cap UnitsOf(c)' = {}
      OBVIOUS
    <3>1. b \in Alloc /\ c \in Alloc
      BY <1>15, <1>18
    <3>2. CASE b = a
      BY <1>15, <1>17, <2>4, <3>1, <3>2
    <3>3. CASE c = a
      BY <1>15, <1>17, <2>4, <3>1, <3>3
    <3>4. CASE b # a /\ c # a
      BY <1>15, <1>17, <3>1, <3>4
    <3> QED
      BY <3>2, <3>3, <3>4
  <2> QED
    BY <2>3, <2>5, <2>6 DEF ChunkExact
<1>20. ChunksExact'
  <2> SUFFICES ASSUME NEW x \in Memory, x # m PROVE ChunkExact(x)'
    BY <1>19 DEF ChunksExact
  <2>1. ChunkExact(x)
    BY DEF Inv, ChunksExact
  <2>2. \A b \in Owners(x) : /\ allocation'[b].offset = allocation[b].offset
                             /\ allocation'[b].size = allocation[b].size
    BY <1>8, <1>16 DEF Owners
  <2>3. memory'[x].kind = memory[x].kind /\ memory'[x].ranges = memory[x].ranges
    BY <1>8
  <2> QED
    BY <1>16, <2>1, <2>2, <2>3, ChunkKept
<1>21. WholeChunk'
  BY <1>14 DEF WholeChunk
<1> QED
  BY <1>10, <1>12, <1>13, <1>20, <1>21 DEF Inv

\* An allocation that is not used is not the one that is held.
LEMMA UnusedFacts ==
  ASSUME NEW a \in Alloc, a = unused_allocation
  PROVE  allocation[a].state = "none"
  BY MemoryTransfersAssumption DEF unused_allocation

\* What unused_memory picks.
LEMMA UnusedMemoryFacts ==
  ASSUME NEW m, m \in unused_memory
  PROVE  m \in Memory /\ memory[m].kind = "none"
<1> DEFINE unused == {x \in Memory : memory[x].kind = "none"}
<1>1. unused # {} /\ m = CHOOSE x \in unused : TRUE
  BY DEF unused_memory
<1>2. m \in unused
  BY <1>1
<1> QED
  BY <1>2

\* vkd3d_suballocate_memory.
LEMMA SuballocateKeeps ==
  ASSUME Inv, NEW t \in Threads, NEW a \in Alloc, NEW request \in Requests,
         Suballocate(t, a, request)
  PROVE  Inv'
<1> DEFINE chunk == [kind |-> "chunk", size |-> ChunkSize, clear |-> 0,
                     ranges |-> <<[offset |-> 0, length |-> ChunkSize]>>]
<1>1. /\ thread[t].at = "idle" /\ allocator_mutex = Nobody /\ a = unused_allocation
      /\ UNCHANGED <<allocator_mutex, next_signal_value>>
      /\ IF request.zeroed THEN start(t, a, "fill") ELSE UNCHANGED thread
  BY DEF Suballocate, queue
<1>2. \/ \E m \in FittingChunks(request) : slice(a, request, m, memory[m])
      \/ \E m \in unused_memory : slice(a, request, m, chunk)
  BY DEF Suballocate
<1>3. allocation[a].state = "none"
  BY <1>1, UnusedFacts
<1>4. CASE \E m \in FittingChunks(request) : slice(a, request, m, memory[m])
  <2>1. PICK m \in FittingChunks(request) : slice(a, request, m, memory[m])
    BY <1>4
  <2>2. /\ m \in Memory /\ memory[m].kind = "chunk"
        /\ Fitting(memory[m].ranges, request.size, request.alignment) # {}
    BY DEF FittingChunks, Chunks
  <2>3. memory[m] \in MemoryObject
    BY <2>2 DEF Inv, Types
  <2>4. ChunkExact(m)
    BY <2>2 DEF Inv, ChunksExact
  <2>5. /\ Exact(memory[m].ranges, FreeOf(m))
        /\ \A b \in Owners(m) : UnitsOf(b) \subseteq 0..(ChunkSize - 1)
        /\ \A b, c \in Owners(m) : b # c => UnitsOf(b) \cap UnitsOf(c) = {}
    BY <2>2, <2>4, Zenon DEF ChunkExact
  <2> QED
    BY <1>1, <1>3, <2>1, <2>2, <2>3, <2>5, SliceKeeps
<1>5. CASE \E m \in unused_memory : slice(a, request, m, chunk)
  <2>1. PICK m \in unused_memory : slice(a, request, m, chunk)
    BY <1>5
  <2>2. m \in Memory /\ memory[m].kind = "none"
    BY UnusedMemoryFacts
  <2>3. Owners(m) = {}
    BY <2>2 DEF Inv, HeldMemory, Owners
  <2>4. FreeOf(m) = 0..(ChunkSize - 1)
    BY <2>3 DEF FreeOf
  <2>5. /\ Exact(chunk.ranges, FreeOf(m))
        /\ Fitting(chunk.ranges, request.size, request.alignment) # {}
    <3>1. /\ Exact(<<[offset |-> 0, length |-> ChunkSize]>>, 0..(ChunkSize - 1))
          /\ Fitting(<<[offset |-> 0, length |-> ChunkSize]>>, request.size, request.alignment) # {}
      BY NewChunkFits
    <3>2. chunk.ranges = <<[offset |-> 0, length |-> ChunkSize]>>
      OBVIOUS
    <3> QED
      BY <2>4, <3>1, <3>2
  <2>6. chunk \in MemoryObject /\ chunk.kind = "chunk"
    <3>1. chunk.ranges \in Seq(FreeRange)
      BY <2>5 DEF Exact, Sorted
    <3>2. ChunkSize \in Nat
      BY MemoryTransfersAssumption
    <3> QED
      BY <3>1, <3>2 DEF MemoryObject
  <2> HIDE DEF chunk
  <2>7. memory[m].kind # "dedicated"
    BY <2>2
  <2> QED
    BY <1>1, <1>3, <2>1, <2>2, <2>3, <2>5, <2>6, <2>7, SliceKeeps
<1> QED
  BY <1>2, <1>4, <1>5

\* vkd3d_memory_allocation_init.
LEMMA AllocateDedicatedKeeps ==
  ASSUME Inv, NEW t \in Threads, NEW a \in Alloc, NEW request \in Requests,
         AllocateDedicated(t, a, request)
  PROVE  Inv'
<1>1. /\ thread[t].at = "idle" /\ a = unused_allocation
      /\ UNCHANGED <<allocator_mutex, next_signal_value>>
      /\ IF request.zeroed THEN start(t, a, "fill") ELSE UNCHANGED thread
  BY DEF AllocateDedicated, queue
<1>2. PICK m \in unused_memory :
        /\ memory' = [memory EXCEPT ![m] = [kind |-> "dedicated", size |-> request.size,
                                            ranges |-> <<>>, clear |-> 0]]
        /\ hold(a, request, m, 0, 0)
  BY DEF AllocateDedicated
<1>3. m \in Memory /\ memory[m].kind = "none"
  BY UnusedMemoryFacts
<1>4. allocation[a].state = "none"
  BY <1>1, UnusedFacts
<1>5. request.size \in Nat \ {0} /\ request.zeroed \in BOOLEAN
  <2>1. request.size \in 1..ChunkSize /\ ChunkSize \in Nat /\ request.zeroed \in BOOLEAN
    BY MemoryTransfersAssumption
  <2> QED
    BY <2>1
<1> DEFINE object == [kind |-> "dedicated", size |-> request.size, ranges |-> <<>>, clear |-> 0]
           new == [state |-> "held", memory |-> m, offset |-> 0, size |-> request.size,
                   zeroed |-> request.zeroed, clear |-> 0]
<1>6. object \in MemoryObject /\ object.kind = "dedicated"
  BY <1>5 DEF MemoryObject
<1>7. new \in Allocation /\ new.state = "held" /\ new.memory = m /\ new.size = request.size
  BY <1>3, <1>5 DEF Allocation
<1>8. memory' = [memory EXCEPT ![m] = object] /\ allocation' = [allocation EXCEPT ![a] = new]
  BY <1>2 DEF hold
<1> HIDE DEF object, new
<1>9. Types
  BY DEF Inv
<1>10. /\ \A x \in Memory : memory'[x] = IF x = m THEN object ELSE memory[x]
       /\ \A b \in Alloc : allocation'[b] = IF b = a THEN new ELSE allocation[b]
       /\ memory' \in [Memory -> MemoryObject] /\ allocation' \in [Alloc -> Allocation]
  BY <1>3, <1>6, <1>7, <1>8, <1>9 DEF Types
<1>11. /\ thread' \in [Threads -> [at : Places, on : Alloc \cup {NoAlloc}, wait : Int]]
       /\ \A u \in Threads : \/ thread'[u] = thread[u]
                             \/ u = t /\ thread'[u].on = a
  <2>1. CASE request.zeroed
    <3> DEFINE filling == [at |-> "fill", on |-> a, wait |-> 0]
    <3>1. filling \in [at : Places, on : Alloc \cup {NoAlloc}, wait : Int] /\ filling.on = a
      BY DEF Places
    <3>2. thread' = [thread EXCEPT ![t] = filling]
      BY <1>1, <2>1 DEF start
    <3> HIDE DEF filling
    <3> QED
      BY <1>9, <3>1, <3>2 DEF Types
  <2>2. CASE ~request.zeroed
    BY <1>1, <1>9, <2>2 DEF Types
  <2> QED
    BY <2>1, <2>2
<1>12. Types'
  BY <1>1, <1>9, <1>10, <1>11 DEF Types
<1>13. \A u \in Threads : thread[u].at # "idle" => thread[u].on # a
  BY <1>4 DEF Inv, BusyThreads
<1>14. BusyThreads'
  <2>1. \A b \in Alloc : allocation[b].state = "held" => allocation'[b].state = "held"
    BY <1>7, <1>10
  <2>2. allocation'[a].state = "held"
    BY <1>7, <1>10
  <2> QED
    BY <1>11, <1>13, <2>1, <2>2 DEF Inv, BusyThreads
<1>15. \A b \in Alloc : allocation[b].state = "held" => allocation[b].memory # m
  BY <1>3 DEF Inv, HeldMemory
<1>16. HeldMemory'
  <2> SUFFICES ASSUME NEW b \in Alloc, allocation'[b].state = "held"
      PROVE  /\ allocation'[b].memory \in Memory /\ memory'[allocation'[b].memory].kind # "none"
             /\ allocation'[b].size > 0
             /\ memory'[allocation'[b].memory].kind = "dedicated" =>
                  \A c \in Alloc : allocation'[c].state = "held"
                                     /\ allocation'[c].memory = allocation'[b].memory => c = b
    BY DEF HeldMemory
  <2>1. CASE b = a
    BY <1>3, <1>5, <1>6, <1>7, <1>10, <1>15, <2>1
  <2>2. CASE b # a
    <3>1. allocation'[b] = allocation[b]
      BY <1>10, <2>2
    <3>2. /\ allocation[b].memory \in Memory /\ memory[allocation[b].memory].kind # "none"
          /\ allocation[b].size > 0
          /\ memory[allocation[b].memory].kind = "dedicated" =>
               \A c \in Alloc : allocation[c].state = "held"
                                  /\ allocation[c].memory = allocation[b].memory => c = b
      BY <3>1 DEF Inv, HeldMemory
    <3>3. allocation[b].memory # m
      BY <1>15, <3>1
    <3> QED
      BY <1>7, <1>10, <3>1, <3>2, <3>3
  <2> QED
    BY <2>1, <2>2
<1>17. \A u \in Threads : Whole(u)' = Whole(u) /\ (Whole(u) => thread'[u] = thread[u])
  BY <1>1, <1>11 DEF Inv, WholeChunk, Whole, Freeing
<1>18. \A x \in Memory \ {m} : Owners(x)' = Owners(x) /\ a \notin Owners(x)
  BY <1>4, <1>7, <1>10, <1>17 DEF Owners
<1>19. ChunksExact'
  <2> SUFFICES ASSUME NEW x \in Memory PROVE ChunkExact(x)'
    BY DEF ChunksExact
  <2>1. CASE x = m
    BY <1>6, <1>10, <2>1 DEF ChunkExact
  <2>2. CASE x # m
    <3>1. ChunkExact(x)
      BY DEF Inv, ChunksExact
    <3>2. \A b \in Owners(x) : /\ allocation'[b].offset = allocation[b].offset
                               /\ allocation'[b].size = allocation[b].size
      BY <1>10, <1>18, <2>2 DEF Owners
    <3>3. memory'[x].kind = memory[x].kind /\ memory'[x].ranges = memory[x].ranges
      BY <1>10, <2>2
    <3> QED
      BY <1>18, <2>2, <3>1, <3>2, <3>3, ChunkKept
  <2> QED
    BY <2>1, <2>2
<1>20. ASSUME NEW u \in Threads, Whole(u)' PROVE thread'[u].at \in Freeing
  BY <1>17, <1>20 DEF Inv, WholeChunk
<1>21. ASSUME NEW u \in Threads, Whole(u)', NEW x \in Memory, allocation'[thread'[u].on].memory = x
       PROVE  memory'[x].kind = "chunk" /\ Owners(x)' = {}
  <2> DEFINE b == thread[u].on
  <2>1. Whole(u) /\ thread'[u].on = b
    BY <1>17, <1>21
  <2>2. thread[u].at \in Freeing
        /\ (allocation[b].memory = x => memory[x].kind = "chunk" /\ Owners(x) = {})
    BY <2>1 DEF Inv, WholeChunk
  <2>3. b \in Alloc /\ b # a /\ allocation[b].state = "held"
    BY <1>4, <2>2 DEF Inv, BusyThreads, Freeing
  <2>4. allocation[b].memory = x /\ x # m
    BY <1>10, <1>15, <1>21, <2>1, <2>3
  <2> QED
    BY <1>10, <1>18, <2>2, <2>4
<1>22. WholeChunk'
  BY <1>20, <1>21 DEF WholeChunk
<1> QED
  BY <1>12, <1>14, <1>16, <1>19, <1>22 DEF Inv

-----------------------------------------------------------------------------
(* A slice, a chunk or memory of its own is given back.                    *)

\* What forgetting the allocation of a thread does.
LEMMA ForgetFacts ==
  ASSUME Types, NEW t \in Threads, thread[t].on \in Alloc, forget_allocation(t)
  PROVE  /\ allocation' \in [Alloc -> Allocation]
         /\ thread' \in [Threads -> [at : Places, on : Alloc \cup {NoAlloc}, wait : Int]]
         /\ \A b \in Alloc : allocation'[b] = IF b = thread[t].on THEN NoAllocation ELSE allocation[b]
         /\ \A u \in Threads : thread'[u] = IF u = t THEN Idle ELSE thread[u]
<1>1. /\ allocation' = [allocation EXCEPT ![thread[t].on] = NoAllocation]
      /\ thread' = [thread EXCEPT ![t] = Idle]
  BY DEF forget_allocation, return
<1>2. NoAllocation \in Allocation
  BY DEF NoAllocation, Allocation
<1>3. Idle \in [at : Places, on : Alloc \cup {NoAlloc}, wait : Int]
  BY DEF Idle, Places
<1> QED
  BY <1>1, <1>2, <1>3 DEF Types

\* vkFreeMemory.
LEMMA GiveMemoryKeeps ==
  ASSUME Inv, NEW t \in Threads, GiveMemory(t)
  PROVE  Inv'
<1> DEFINE a == thread[t].on
           m == allocation[a].memory
<1>1. /\ thread[t].at = "give" /\ (Whole(t) \/ memory[m].kind = "dedicated")
      /\ memory' = [memory EXCEPT ![m] = NoObject]
      /\ allocator_mutex' = IF Whole(t) THEN Nobody ELSE allocator_mutex
      /\ forget_allocation(t) /\ next_signal_value' = next_signal_value
  BY DEF GiveMemory, queue
<1>2. Types
  BY DEF Inv
<1>3. a \in Alloc /\ allocation[a].state = "held"
  BY <1>1 DEF Inv, BusyThreads
<1>4. m \in Memory
  BY <1>3 DEF Inv, HeldMemory
<1>5. /\ allocation' \in [Alloc -> Allocation]
      /\ thread' \in [Threads -> [at : Places, on : Alloc \cup {NoAlloc}, wait : Int]]
      /\ \A b \in Alloc : allocation'[b] = IF b = a THEN NoAllocation ELSE allocation[b]
      /\ \A u \in Threads : thread'[u] = IF u = t THEN Idle ELSE thread[u]
  BY <1>1, <1>2, <1>3, ForgetFacts
<1>6. \A u \in Threads : u # t /\ thread[u].at # "idle" => thread[u].on # a
  BY <1>1 DEF Inv, BusyThreads
<1> HIDE DEF a
<1>7. \A b \in Alloc : b # a /\ allocation[b].state = "held" => allocation[b].memory # m
  <2> SUFFICES ASSUME NEW b \in Alloc, b # a, allocation[b].state = "held", allocation[b].memory = m
      PROVE  FALSE
    OBVIOUS
  <2>1. CASE Whole(t)
    <3>1. Owners(m) = {}
      BY <1>4, <2>1 DEF Inv, WholeChunk, a
    <3>2. \A u \in Threads : Whole(u) => u = t
      BY <2>1 DEF Whole
    <3>3. b \in Owners(m)
      BY <3>2 DEF Owners, a
    <3> QED
      BY <3>1, <3>3
  <2>2. CASE memory[m].kind = "dedicated"
    BY <1>3, <2>2 DEF Inv, HeldMemory
  <2> QED
    BY <1>1, <2>1, <2>2
<1> HIDE DEF m
<1>8. /\ memory' \in [Memory -> MemoryObject]
      /\ \A x \in Memory : memory'[x] = IF x = m THEN NoObject ELSE memory[x]
  <2>1. NoObject \in MemoryObject
    BY DEF NoObject, MemoryObject
  <2> QED
    BY <1>1, <1>2, <2>1 DEF Types
<1>9. Types'
  BY <1>1, <1>2, <1>5, <1>8 DEF Types
<1>10. BusyThreads'
  <2> SUFFICES ASSUME NEW u \in Threads, thread'[u].at # "idle"
      PROVE  /\ thread'[u].on \in Alloc /\ allocation'[thread'[u].on].state = "held"
             /\ \A v \in Threads : thread'[v].at # "idle" /\ thread'[v].on = thread'[u].on => v = u
    BY DEF BusyThreads
  <2>1. u # t /\ thread'[u] = thread[u]
    BY <1>5 DEF Idle
  <2>2. /\ thread[u].on \in Alloc /\ allocation[thread[u].on].state = "held" /\ thread[u].on # a
        /\ \A v \in Threads : thread[v].at # "idle" /\ thread[v].on = thread[u].on => v = u
    BY <1>6, <2>1 DEF Inv, BusyThreads
  <2> QED
    BY <1>5, <2>1, <2>2 DEF Idle
<1>11. HeldMemory'
  <2> SUFFICES ASSUME NEW b \in Alloc, allocation'[b].state = "held"
      PROVE  /\ allocation'[b].memory \in Memory /\ memory'[allocation'[b].memory].kind # "none"
             /\ allocation'[b].size > 0
             /\ memory'[allocation'[b].memory].kind = "dedicated" =>
                  \A c \in Alloc : allocation'[c].state = "held"
                                     /\ allocation'[c].memory = allocation'[b].memory => c = b
    BY DEF HeldMemory
  <2>1. b # a /\ allocation'[b] = allocation[b]
    BY <1>5 DEF NoAllocation
  <2>2. /\ allocation[b].memory \in Memory /\ memory[allocation[b].memory].kind # "none"
        /\ allocation[b].size > 0
        /\ memory[allocation[b].memory].kind = "dedicated" =>
             \A c \in Alloc : allocation[c].state = "held"
                                /\ allocation[c].memory = allocation[b].memory => c = b
    BY <2>1 DEF Inv, HeldMemory
  <2>3. allocation[b].memory # m /\ memory'[allocation[b].memory] = memory[allocation[b].memory]
    BY <1>7, <1>8, <2>1, <2>2
  <2> QED
    BY <1>5, <2>1, <2>2, <2>3 DEF NoAllocation
<1>12. \A u \in Threads : Whole(u)' => Whole(u) /\ u # t
  BY <1>1, MemoryTransfersAssumption DEF Whole
<1>13. \A u \in Threads : Whole(u) => u = t \/ Whole(u)'
  BY <1>1 DEF Whole
<1>14. \A x \in Memory \ {m} : Owners(x)' = Owners(x) /\ a \notin Owners(x)
  <2> SUFFICES ASSUME NEW x \in Memory \ {m} PROVE Owners(x)' = Owners(x) /\ a \notin Owners(x)
    OBVIOUS
  <2>1. a \notin Owners(x)
    BY DEF Owners, m
  <2>2. \A b \in Alloc : b # a => (b \in Owners(x)' <=> b \in Owners(x))
    <3> SUFFICES ASSUME NEW b \in Alloc, b # a PROVE b \in Owners(x)' <=> b \in Owners(x)
      OBVIOUS
    <3>1. allocation'[b] = allocation[b]
      BY <1>5
    <3>2. (\A u \in Threads : Whole(u)' => thread'[u].on # b)
            <=> (\A u \in Threads : Whole(u) => thread[u].on # b)
      BY <1>5, <1>12, <1>13 DEF a
    <3> QED
      BY <3>1, <3>2 DEF Owners
  <2>3. a \notin Owners(x)'
    BY <1>3, <1>5 DEF Owners, NoAllocation
  <2>4. Owners(x)' \subseteq Alloc /\ Owners(x) \subseteq Alloc
    BY DEF Owners
  <2> QED
    BY <2>1, <2>2, <2>3, <2>4
<1>15. ChunksExact'
  <2> SUFFICES ASSUME NEW x \in Memory PROVE ChunkExact(x)'
    BY DEF ChunksExact
  <2>1. CASE x = m
    BY <1>8, <2>1 DEF ChunkExact, NoObject
  <2>2. CASE x # m
    <3>1. ChunkExact(x)
      BY DEF Inv, ChunksExact
    <3>2. \A b \in Owners(x) : /\ allocation'[b].offset = allocation[b].offset
                               /\ allocation'[b].size = allocation[b].size
      BY <1>5, <1>14, <2>2 DEF Owners
    <3>3. memory'[x].kind = memory[x].kind /\ memory'[x].ranges = memory[x].ranges
      BY <1>8, <2>2
    <3> QED
      BY <1>14, <2>2, <3>1, <3>2, <3>3, ChunkKept
  <2> QED
    BY <2>1, <2>2
<1>16. ASSUME NEW u \in Threads, Whole(u)' PROVE thread'[u].at \in Freeing
  BY <1>5, <1>12, <1>16 DEF Inv, WholeChunk
<1>17. ASSUME NEW u \in Threads, Whole(u)', NEW x \in Memory, allocation'[thread'[u].on].memory = x
       PROVE  memory'[x].kind = "chunk" /\ Owners(x)' = {}
  <2>1. Whole(u) /\ u # t /\ thread'[u] = thread[u]
    BY <1>5, <1>12, <1>17
  <2>2. thread[u].at \in Freeing
        /\ (allocation[thread[u].on].memory = x => memory[x].kind = "chunk" /\ Owners(x) = {})
    BY <2>1 DEF Inv, WholeChunk
  <2>3. thread[u].on \in Alloc /\ thread[u].on # a /\ allocation[thread[u].on].state = "held"
    BY <1>6, <2>1, <2>2 DEF Inv, BusyThreads, Freeing
  <2>4. allocation[thread[u].on].memory = x /\ x # m
    BY <1>5, <1>7, <1>17, <2>1, <2>3
  <2> QED
    BY <1>8, <1>14, <2>2, <2>4
<1>18. WholeChunk'
  BY <1>16, <1>17 DEF WholeChunk
<1> QED
  BY <1>9, <1>10, <1>11, <1>15, <1>18 DEF Inv

\* A list that vkd3d_memory_chunk_is_free accepts lists the whole chunk.
LEMMA FreeMeansAll ==
  ASSUME NEW q, NEW free, Exact(q, free), NEW B \in Nat \ {0}, Within(free, B), is_free(q, B)
  PROVE  \A u \in 0..(B - 1) : u \in free
<1>1. /\ q[1].length = B /\ 1 \in DOMAIN q /\ q[1].offset \in Nat /\ end(q[1]) = q[1].offset + B
  BY ListFacts DEF Exact, is_free
<1>2. q[1].offset + B - 1 \in free
  <2>1. q[1].offset + B - 1 \in Nat
    BY <1>1
  <2>2. Covers(q[1], q[1].offset + B - 1)
    BY <1>1 DEF Covers
  <2> QED
    BY <1>1, <2>1, <2>2 DEF Exact
<1>3. q[1].offset = 0
  BY <1>1, <1>2 DEF Within
<1>4. \A u \in 0..(B - 1) : u \in Nat /\ Covers(q[1], u)
  BY <1>1, <1>3 DEF Covers
<1> QED
  BY <1>1, <1>4 DEF Exact

\* What a thread gives back, and whether its chunk is free then.
LEMMA GiveRangeOf ==
  ASSUME Inv, NEW t \in Threads, GiveRange(t),
         NEW a, a = thread[t].on, NEW m, m = allocation[a].memory
  PROVE  Inv'
<1> DEFINE o == allocation[a].offset
           size == allocation[a].size
           ranges == free_range(memory[m].ranges, o, size)
           after == [memory[m] EXCEPT !.ranges = ranges]
           freed == FreeOf(m) \cup o..(o + size - 1)
           place == IF memory[m].clear = 0 THEN "give" ELSE "poll"
           whole == is_free(ranges, ChunkSize)
<1>1. /\ thread[t].at = "give" /\ allocator_mutex = Nobody /\ memory[m].kind = "chunk"
      /\ memory' = [memory EXCEPT ![m].ranges = ranges]
      /\ next_signal_value' = next_signal_value
  BY DEF GiveRange, queue
<1>2. \/ whole /\ allocator_mutex' = t /\ proceed(t, place) /\ UNCHANGED allocation
      \/ ~whole /\ forget_allocation(t) /\ UNCHANGED allocator_mutex
  BY DEF GiveRange
<1>3. Types
  BY DEF Inv
<1>4. a \in Alloc /\ allocation[a].state = "held"
  BY <1>1 DEF Inv, BusyThreads
<1>5. m \in Memory /\ o \in Nat /\ size \in Nat \ {0} /\ memory[m] \in MemoryObject
  <2>1. m \in Memory /\ size > 0
    BY <1>4 DEF Inv, HeldMemory
  <2>2. o \in Nat /\ size \in Nat
    BY <1>3, <1>4 DEF Types, Allocation
  <2> QED
    BY <1>3, <2>1, <2>2 DEF Types
<1>6. Nobody \notin Threads /\ ChunkSize \in Nat \ {0}
  BY MemoryTransfersAssumption
<1>7. \A u \in Threads : ~Whole(u)
  BY <1>1, <1>6 DEF Whole
<1>8. a \in Owners(m) /\ Owners(m) \subseteq Alloc /\ UnitsOf(a) = o..(o + size - 1)
  BY <1>4, <1>7 DEF Owners, UnitsOf, Units
<1>9. /\ Exact(memory[m].ranges, FreeOf(m))
      /\ \A b \in Owners(m) : UnitsOf(b) \subseteq 0..(ChunkSize - 1)
      /\ \A b, c \in Owners(m) : b # c => UnitsOf(b) \cap UnitsOf(c) = {}
  <2>1. ChunkExact(m)
    BY <1>5 DEF Inv, ChunksExact
  <2> QED
    BY <1>1, <2>1, Zenon DEF ChunkExact
<1>10. Exact(ranges, freed)
  <2> DEFINE list == memory[m].ranges
             free == FreeOf(m)
  <2>1. \A u \in Nat : o <= u /\ u < o + size => u \notin free
    <3> SUFFICES ASSUME NEW u \in Nat, o <= u, u < o + size, u \in free PROVE FALSE
      OBVIOUS
    <3>1. u \in UnitsOf(a)
      BY <1>5, <1>8
    <3> QED
      BY <1>8, <3>1 DEF FreeOf
  <2>2. Exact(list, free) /\ o \in Nat /\ size \in Nat \ {0}
    BY <1>5, <1>9
  <2> HIDE DEF list, free, o, size
  <2>3. Exact(free_range(list, o, size), free \cup o..(o + size - 1))
    BY <2>1, <2>2, FreeExact
  <2> QED
    BY <2>3 DEF list, free
<1>11. after \in MemoryObject /\ after.kind = "chunk" /\ after.ranges = ranges
  <2> HIDE DEF ranges
  <2>1. ranges \in Seq(FreeRange)
    BY <1>10 DEF Exact, Sorted
  <2> QED
    BY <1>1, <1>5, <2>1 DEF MemoryObject
<1> HIDE DEF ranges
<1>12. /\ memory' \in [Memory -> MemoryObject]
       /\ \A x \in Memory : memory'[x] = IF x = m THEN after ELSE memory[x]
  <2>1. memory' = [memory EXCEPT ![m] = after]
    BY <1>1
  <2> HIDE DEF after
  <2> QED
    BY <1>3, <1>11, <2>1 DEF Types
<1> HIDE DEF after, whole, place
<1>13. \A u \in Threads : u # t /\ thread[u].at # "idle" => thread[u].on # a
  BY <1>1 DEF Inv, BusyThreads
<1>14. /\ allocation' \in [Alloc -> Allocation]
       /\ thread' \in [Threads -> [at : Places, on : Alloc \cup {NoAlloc}, wait : Int]]
       /\ allocator_mutex' \in Threads \cup {Nobody}
       /\ \A b \in Alloc \ {a} : allocation'[b] = allocation[b]
       /\ \A u \in Threads \ {t} : thread'[u] = thread[u]
       /\ \/ /\ whole /\ allocator_mutex' = t /\ allocation' = allocation
             /\ thread'[t].on = a /\ thread'[t].at \in Freeing
          \/ /\ ~whole /\ allocator_mutex' = Nobody /\ allocation'[a].state = "none"
             /\ thread'[t] = Idle
  <2>1. CASE whole
    <3> DEFINE moved == [thread[t] EXCEPT !.at = place]
    <3>1. place \in Freeing /\ place \in Places
      BY DEF place, Freeing, Places
    <3> HIDE DEF place
    <3>2. /\ moved \in [at : Places, on : Alloc \cup {NoAlloc}, wait : Int]
          /\ moved.on = a /\ moved.at \in Freeing
      BY <1>3, <3>1 DEF Types
    <3>3. thread' = [thread EXCEPT ![t] = moved]
      BY <1>2, <2>1 DEF proceed
    <3> HIDE DEF moved
    <3> QED
      BY <1>2, <1>3, <2>1, <3>2, <3>3 DEF Types
  <2>2. CASE ~whole
    <3>1. forget_allocation(t) /\ allocator_mutex' = Nobody
      BY <1>1, <1>2, <2>2
    <3>2. /\ allocation' \in [Alloc -> Allocation]
          /\ thread' \in [Threads -> [at : Places, on : Alloc \cup {NoAlloc}, wait : Int]]
          /\ \A b \in Alloc : allocation'[b] = IF b = a THEN NoAllocation ELSE allocation[b]
          /\ \A u \in Threads : thread'[u] = IF u = t THEN Idle ELSE thread[u]
      BY <1>3, <1>4, <3>1, ForgetFacts
    <3> QED
      BY <1>4, <2>2, <3>1, <3>2 DEF NoAllocation
  <2> QED
    BY <2>1, <2>2
<1> HIDE DEF o, size
<1>15. Types'
  BY <1>1, <1>3, <1>12, <1>14 DEF Types
<1>16. BusyThreads'
  <2> SUFFICES ASSUME NEW u \in Threads, thread'[u].at # "idle"
      PROVE  /\ thread'[u].on \in Alloc /\ allocation'[thread'[u].on].state = "held"
             /\ \A v \in Threads : thread'[v].at # "idle" /\ thread'[v].on = thread'[u].on => v = u
    BY DEF BusyThreads
  <2>1. \A v \in Threads : thread'[v].at # "idle" =>
          thread[v].at # "idle" /\ thread'[v].on = thread[v].on
    BY <1>1, <1>14 DEF Idle
  <2>2. /\ thread[u].on \in Alloc /\ allocation[thread[u].on].state = "held"
        /\ \A v \in Threads : thread[v].at # "idle" /\ thread[v].on = thread[u].on => v = u
    BY <2>1 DEF Inv, BusyThreads
  <2>3. allocation'[thread[u].on].state = "held"
    <3>1. CASE u = t
      BY <1>4, <1>14, <3>1 DEF Idle
    <3>2. CASE u # t
      BY <1>13, <1>14, <2>1, <2>2, <3>2
    <3> QED
      BY <3>1, <3>2
  <2> QED
    BY <2>1, <2>2, <2>3
<1>17. \A b \in Alloc : allocation'[b].state = "held" => allocation'[b] = allocation[b]
  BY <1>14
<1>18. \A x \in Memory : memory'[x].kind = memory[x].kind
  BY <1>1, <1>11, <1>12
<1>19. HeldMemory'
  BY <1>17, <1>18 DEF Inv, HeldMemory
<1>20. \A u \in Threads : Whole(u)' => whole /\ u = t
  BY <1>6, <1>14 DEF Whole
<1>21. \A x : Owners(x)' = Owners(x) \ {a}
  <2> SUFFICES ASSUME NEW x PROVE Owners(x)' = Owners(x) \ {a}
    OBVIOUS
  <2>1. a \notin Owners(x)'
    BY <1>14 DEF Owners, Whole
  <2>2. \A b \in Alloc \ {a} : b \in Owners(x)' <=> b \in Owners(x)
    <3> SUFFICES ASSUME NEW b \in Alloc \ {a} PROVE b \in Owners(x)' <=> b \in Owners(x)
      OBVIOUS
    <3>1. allocation'[b] = allocation[b]
      BY <1>14
    <3>2. \A u \in Threads : Whole(u)' => thread'[u].on # b
      BY <1>14, <1>20
    <3> QED
      BY <1>7, <3>1, <3>2 DEF Owners
  <2>3. Owners(x)' \subseteq Alloc /\ Owners(x) \subseteq Alloc
    BY DEF Owners
  <2> QED
    BY <2>1, <2>2, <2>3
<1>22. \A x \in Memory \ {m} : a \notin Owners(x)
  BY DEF Owners
<1>23. \A b \in Alloc \ {a} : UnitsOf(b)' = UnitsOf(b)
  BY <1>14 DEF UnitsOf, Units
<1>24. \A u \in Nat : u \in freed <=> u \in FreeOf(m)'
  <2>1. FreeOf(m)' = (0..(ChunkSize - 1)) \ UNION {UnitsOf(b)' : b \in Owners(m)'}
    BY DEF FreeOf
  <2>2. {UnitsOf(b)' : b \in Owners(m)'} = {UnitsOf(b) : b \in Owners(m) \ {a}}
    BY <1>8, <1>21, <1>23
  <2>3. \A u \in Nat : u \in FreeOf(m)' <=>
          u \in 0..(ChunkSize - 1) /\ \A b \in Owners(m) \ {a} : u \notin UnitsOf(b)
    BY <2>1, <2>2
  <2>4. \A u \in Nat : u \in FreeOf(m) <=>
          u \in 0..(ChunkSize - 1) /\ \A b \in Owners(m) : u \notin UnitsOf(b)
    BY DEF FreeOf
  <2>5. \A u \in UnitsOf(a) : /\ u \in 0..(ChunkSize - 1)
                              /\ \A b \in Owners(m) \ {a} : u \notin UnitsOf(b)
    BY <1>8, <1>9
  <2>6. \A u \in Nat : u \in freed <=> u \in FreeOf(m) \/ u \in UnitsOf(a)
    BY <1>8
  <2> HIDE DEF freed
  <2> QED
    BY <2>3, <2>4, <2>5, <2>6
<1> HIDE DEF freed
<1>25. Exact(ranges, FreeOf(m)')
  BY <1>10, <1>24, ExactOfEqual
<1>26. ChunkExact(m)'
  <2>1. memory'[m].ranges = ranges
    BY <1>5, <1>11, <1>12
  <2>2. Exact(memory[m].ranges, FreeOf(m))'
    BY <1>25, <2>1
  <2>3. \A b \in Owners(m)' : b \in Owners(m) /\ UnitsOf(b)' = UnitsOf(b)
    BY <1>8, <1>21, <1>23
  <2> QED
    BY <1>9, <2>2, <2>3 DEF ChunkExact
<1>27. ChunksExact'
  <2> SUFFICES ASSUME NEW x \in Memory, x # m PROVE ChunkExact(x)'
    BY <1>26 DEF ChunksExact
  <2>1. ChunkExact(x)
    BY DEF Inv, ChunksExact
  <2>2. Owners(x)' = Owners(x)
    BY <1>21, <1>22
  <2>3. \A b \in Owners(x) : /\ allocation'[b].offset = allocation[b].offset
                             /\ allocation'[b].size = allocation[b].size
    BY <1>14, <1>22 DEF Owners
  <2>4. memory'[x].kind = memory[x].kind /\ memory'[x].ranges = memory[x].ranges
    BY <1>12
  <2> QED
    BY <2>1, <2>2, <2>3, <2>4, ChunkKept
<1>28. whole => Owners(m)' = {}
  <2> SUFFICES ASSUME whole, NEW b \in Owners(m)' PROVE FALSE
    OBVIOUS
  <2>1. Within(FreeOf(m)', ChunkSize)
    BY DEF FreeOf, Within
  <2>2. \A u \in 0..(ChunkSize - 1) : u \in FreeOf(m)'
    BY <1>6, <1>25, <2>1, FreeMeansAll DEF whole
  <2>3. b \in Owners(m) \ {a} /\ b \in Alloc /\ allocation[b].state = "held"
    BY <1>8, <1>21 DEF Owners
  <2>4. allocation[b].offset \in Nat /\ allocation[b].size \in Nat \ {0}
    <3>1. allocation[b].size > 0
      BY <2>3 DEF Inv, HeldMemory
    <3> QED
      BY <1>3, <2>3, <3>1 DEF Types, Allocation
  <2>5. allocation[b].offset \in UnitsOf(b)
    BY <2>4 DEF UnitsOf, Units
  <2>6. allocation[b].offset \in 0..(ChunkSize - 1)
    BY <1>9, <2>3, <2>5
  <2>7. UnitsOf(b)' = UnitsOf(b)
    BY <1>23, <2>3
  <2>8. allocation[b].offset \notin FreeOf(m)'
    BY <2>5, <2>7 DEF FreeOf
  <2> QED
    BY <2>2, <2>6, <2>8
<1>29. WholeChunk'
  <2>1. ASSUME NEW u \in Threads, Whole(u)' PROVE thread'[u].at \in Freeing
    BY <1>14, <1>20, <2>1
  <2>2. ASSUME NEW u \in Threads, Whole(u)', NEW x \in Memory, allocation'[thread'[u].on].memory = x
        PROVE  memory'[x].kind = "chunk" /\ Owners(x)' = {}
    <3>1. whole /\ u = t
      BY <1>20, <2>2
    <3>2. x = m
      BY <1>14, <2>2, <3>1
    <3> QED
      BY <1>1, <1>18, <1>28, <2>2, <3>1, <3>2
  <2> QED
    BY <2>1, <2>2 DEF WholeChunk
<1> QED
  BY <1>15, <1>16, <1>19, <1>27, <1>29 DEF Inv

\* vkd3d_memory_chunk_free_range.
LEMMA GiveRangeKeeps ==
  ASSUME Inv, NEW t \in Threads, GiveRange(t)
  PROVE  Inv'
  BY GiveRangeOf

-----------------------------------------------------------------------------
(* The specification.                                                      *)

\* The invariant holds when the device is created.
LEMMA InitInv ==
  ASSUME Init
  PROVE  Inv
<1>1. Types
  <2>1. NoObject \in MemoryObject
    BY DEF NoObject, MemoryObject
  <2>2. NoAllocation \in Allocation
    BY DEF NoAllocation, Allocation
  <2>3. Idle \in [at : Places, on : Alloc \cup {NoAlloc}, wait : Int]
    BY DEF Idle, Places
  <2>4. CommandBuffers + 1 \in Nat
    BY MemoryTransfersAssumption
  <2> QED
    BY <2>1, <2>2, <2>3, <2>4 DEF Types, Init
<1>2. /\ \A t \in Threads : thread[t].at = "idle" /\ ~Whole(t)
      /\ \A a \in Alloc : allocation[a].state = "none"
      /\ \A m \in Memory : memory[m].kind = "none"
  BY MemoryTransfersAssumption DEF Init, Idle, Whole, NoAllocation, NoObject
<1>3. ChunksExact
  BY <1>2 DEF ChunksExact, ChunkExact
<1> QED
  BY <1>1, <1>2, <1>3 DEF Inv, BusyThreads, HeldMemory, WholeChunk

\* Every step keeps the invariant.
LEMMA NextInv ==
  ASSUME Inv, [Next]_vars
  PROVE  Inv'
<1>1. next_signal_value \in Nat
  BY DEF Inv, Types
<1>2. ASSUME NEW t \in Threads, NEW a \in Alloc, NEW request \in Requests,
             Suballocate(t, a, request) \/ AllocateDedicated(t, a, request)
      PROVE  Inv'
  BY <1>2, SuballocateKeeps, AllocateDedicatedKeeps
<1>3. ASSUME NEW t \in Threads, NEW a \in Alloc, Free(t, a)
      PROVE  Inv'
  BY <1>3, FreeKeeps
<1>4. ASSUME NEW t \in Threads, NEW a \in Alloc, Execute(t, a)
      PROVE  Inv'
  <2>1. flush_locked(transfers, num_bytes_pending)
        /\ UNCHANGED <<allocator_mutex, memory, allocation, thread>>
    BY <1>4 DEF Execute, allocator
  <2> QED
    BY <1>1, <2>1, FlushFacts, AllocatorUntouched
<1>5. ASSUME NEW t \in Threads, Fill(t)
      PROVE  Inv'
  BY <1>5, FillKeeps
<1>6. ASSUME NEW t \in Threads, FreeStep(t)
      PROVE  Inv'
  BY <1>6, WaitingKeeps, GiveMemoryKeeps, GiveRangeKeeps DEF FreeStep
<1>7. ASSUME NEW t \in Threads, Flush(t)
      PROVE  Inv'
  <2>1. flush_locked(transfers, num_bytes_pending)
        /\ UNCHANGED <<allocator_mutex, memory, allocation, thread>>
    BY <1>7 DEF Flush, allocator
  <2> QED
    BY <1>1, <2>1, FlushFacts, AllocatorUntouched
<1>8. ASSUME NEW t \in Threads, NEW r \in Resource, Write(t, r)
      PROVE  Inv'
  <2>1. execute_transfer_locked(write_of(r))
        /\ UNCHANGED <<allocator_mutex, memory, allocation, thread>>
    BY <1>8 DEF Write, allocator
  <2> QED
    BY <1>1, <2>1, ExecuteTransferFacts, AllocatorUntouched
<1>9. ASSUME NEW t \in Threads, NEW r \in Resource, ReleaseResource(t, r)
      PROVE  Inv'
  BY <1>1, <1>9, AllocatorUntouched DEF ReleaseResource, allocator, queue
<1>10. ASSUME NEW a \in Alloc, Run(a)
       PROVE  Inv'
  BY <1>1, <1>10, AllocatorUntouched DEF Run, queue
<1>11. CASE Complete
  BY <1>1, <1>11, AllocatorUntouched DEF Complete, queue
<1>12. CASE Cleanup
  BY <1>1, <1>12, AllocatorUntouched DEF Cleanup, allocator, queue
<1>13. CASE Track
  BY <1>1, <1>13, AllocatorUntouched DEF Track, allocator, queue
<1>14. CASE Untrack
  BY <1>1, <1>14, AllocatorUntouched DEF Untrack, allocator, queue
<1>15. CASE UNCHANGED vars
  BY <1>1, <1>15, AllocatorUntouched DEF vars, allocator, queue
<1> QED
  BY <1>2, <1>3, <1>4, <1>5, <1>6, <1>7, <1>8, <1>9, <1>10, <1>11, <1>12, <1>13, <1>14, <1>15
     DEF Next

\* What the invariant says of the lists is the property.
LEMMA InvExact ==
  ASSUME Inv
  PROVE  FreeRangesExact
<1> SUFFICES ASSUME NEW m \in Chunks
    PROVE  LET ranges == memory[m].ranges
               units(a) == Units(allocation[a].offset, allocation[a].size)
           IN /\ \A i, j \in DOMAIN ranges : i < j => end(ranges[i]) < ranges[j].offset
              /\ UNION {Units(ranges[i].offset, ranges[i].length) : i \in DOMAIN ranges}
                   = (0..(ChunkSize - 1)) \ UNION {units(a) : a \in Owners(m)}
              /\ \A a, b \in Owners(m) : a # b => units(a) \cap units(b) = {}
  BY DEF FreeRangesExact
<1> DEFINE ranges == memory[m].ranges
           listed == UNION {Units(ranges[i].offset, ranges[i].length) : i \in DOMAIN ranges}
<1>1. m \in Memory /\ memory[m].kind = "chunk"
  BY DEF Chunks
<1>2. ChunkExact(m)
  BY <1>1 DEF Inv, ChunksExact
<1>3. Exact(ranges, FreeOf(m))
  BY <1>1, <1>2 DEF ChunkExact
<1>4. \A a, b \in Owners(m) : a # b => UnitsOf(a) \cap UnitsOf(b) = {}
  BY <1>1, <1>2 DEF ChunkExact
<1>5. \A i \in DOMAIN ranges : /\ ranges[i].offset \in Nat /\ ranges[i].length \in Nat
                               /\ end(ranges[i]) = ranges[i].offset + ranges[i].length
  BY <1>3, ListFacts DEF Exact
<1>6. \A i, j \in DOMAIN ranges : i < j => end(ranges[i]) < ranges[j].offset
  BY <1>3 DEF Exact, Sorted
<1> HIDE DEF ranges
<1>7. \A u \in Nat : u \in listed <=> u \in FreeOf(m)
  <2> SUFFICES ASSUME NEW u \in Nat PROVE u \in listed <=> u \in FreeOf(m)
    OBVIOUS
  <2>1. \A i \in DOMAIN ranges : u \in Units(ranges[i].offset, ranges[i].length) <=> Covers(ranges[i], u)
    BY <1>5 DEF Units, Covers
  <2>2. u \in FreeOf(m) <=> \E i \in DOMAIN ranges : Covers(ranges[i], u)
    BY <1>3 DEF Exact
  <2> QED
    BY <2>1, <2>2
<1>8. listed \subseteq Nat
  BY <1>5 DEF Units
<1>9. FreeOf(m) \subseteq Nat
  BY DEF FreeOf
<1> HIDE DEF listed
<1>10. listed = FreeOf(m)
  BY <1>7, <1>8, <1>9
<1>11. listed = (0..(ChunkSize - 1)) \ UNION {UnitsOf(a) : a \in Owners(m)}
  BY <1>10 DEF FreeOf
<1> QED
  BY <1>4, <1>6, <1>11 DEF UnitsOf, ranges, listed

\* vkd3d_memory_chunk_allocate_range and _free_range, called by any number of threads for
\* requests of any size and alignment: the free list of a chunk is always sorted and joined
\* and lists exactly the bytes nobody owns, and no two allocations share a byte.
THEOREM FreeRangesStayExact == Spec => []FreeRangesExact
<1>1. Init => Inv
  BY InitInv
<1>2. Inv /\ [Next]_vars => Inv'
  BY NextInv
<1>3. Inv => FreeRangesExact
  BY InvExact
<1> QED
  BY <1>1, <1>2, <1>3, PTL DEF Spec

\* vkd3d_memory_allocator_remove_chunk destroys a chunk only when nobody owns a slice of it,
\* and nobody gets one while it waits for the chunk's last clear.
THEOREM DestroyedChunksHaveNoOwners == Spec => []WholeChunk
<1>1. Init => Inv
  BY InitInv
<1>2. Inv /\ [Next]_vars => Inv'
  BY NextInv
<1>3. Inv => WholeChunk
  BY DEF Inv
<1> QED
  BY <1>1, <1>2, <1>3, PTL DEF Spec

-----------------------------------------------------------------------------
(***************************************************************************)
(* The transfer queue: its submissions, and which clears are to come.      *)
(***************************************************************************)

Clear == [op : {"clear"}, memory : Memory, offset : Nat, size : Nat, resource : {NoResource}]
SubresourceWrite == [op : {"write"}, memory : {NoMemory}, offset : {0}, size : {0},
                     resource : Resource]
Transfer == Clear \cup SubresourceWrite
Batch == [value : Nat, buffer : Nat, transfers : Seq(Transfer)]

QueueTypes ==
  /\ transfers \in Seq(Transfer) /\ inflight \in Seq(Batch)
  /\ last_known_value \in Nat /\ semaphore \in Nat /\ command_buffer_index \in Nat
  /\ next_signal_value \in Nat

\* Submissions that are not finished have the values behind the semaphore's, and the
\* command buffers in turn, no more than there are.
Buffer(value) == (value - 1 - CommandBuffers) % CommandBuffers
SubmissionsInOrder ==
  /\ last_known_value <= semaphore /\ next_signal_value > CommandBuffers
  /\ Len(inflight) = next_signal_value - 1 - semaphore /\ Len(inflight) <= CommandBuffers
  /\ \A i \in DOMAIN inflight :
       inflight[i].value = semaphore + i /\ inflight[i].buffer = Buffer(inflight[i].value)
  /\ command_buffer_index = Buffer(next_signal_value)

QueueInv == QueueTypes /\ SubmissionsInOrder

\* A queue that is not empty is submitted.
Submits(queued) ==
  /\ queued # <<>> /\ reusable
  /\ last_known_value' = IF last_known_value >= next_signal_value - CommandBuffers
                         THEN last_known_value ELSE next_signal_value - CommandBuffers
  /\ inflight' = Append(inflight, [value |-> next_signal_value, buffer |-> command_buffer_index,
                                   transfers |-> queued])
  /\ next_signal_value' = next_signal_value + 1
  /\ command_buffer_index' = (command_buffer_index + 1) % CommandBuffers
  /\ num_bytes_pending' = 0 /\ transfers' = <<>>
  /\ \E written \in [1..Cardinality(Writes(queued)) -> Writes(queued)] :
       ListsWrites(written, queued) /\ track_resources(written, queued)

Unsubmitted == UNCHANGED <<next_signal_value, command_buffer_index, last_known_value, inflight,
                           refs, tracked>>

\* The transfers are these now, or they were these and are submitted.
Queues(queued) ==
  \/ transfers' = queued /\ Unsubmitted
  \/ Submits(queued)

\* vkd3d_memory_transfer_queue_flush_locked submits what there is.
LEMMA FlushCases ==
  ASSUME NEW queued, NEW bytes, flush_locked(queued, bytes)
  PROVE  \/ queued = <<>> /\ transfers' = <<>> /\ num_bytes_pending' = bytes /\ Unsubmitted
         \/ Submits(queued)
BY DEF flush_locked, Submits, Unsubmitted

\* What is flushed is queued no more, or was empty.
LEMMA FlushQueues ==
  ASSUME NEW queued, NEW bytes, flush_locked(queued, bytes)
  PROVE  Queues(queued)
BY FlushCases DEF Queues

\* Another transfer is queued, and perhaps submitted.
LEMMA ExecuteTransferQueues ==
  ASSUME NEW x, execute_transfer_locked(x)
  PROVE  Queues(Append(transfers, x))
<1>1. CASE num_bytes_pending + x.size >= MaxPending
  <2>1. flush_locked(Append(transfers, x), num_bytes_pending + x.size)
    BY <1>1 DEF execute_transfer_locked
  <2> DEFINE q == Append(transfers, x)
             n == num_bytes_pending + x.size
  <2>2. flush_locked(q, n)
    BY <2>1
  <2> HIDE DEF q, n
  <2>3. Queues(q)
    BY <2>2, FlushQueues
  <2> QED
    BY <2>3 DEF q
<1>2. CASE ~(num_bytes_pending + x.size >= MaxPending)
  BY <1>2 DEF execute_transfer_locked, Queues, Unsubmitted
<1> QED
  BY <1>1, <1>2

\* Appending.
LEMMA Appended ==
  ASSUME NEW S, NEW s \in Seq(S), NEW e \in S
  PROVE  /\ Append(s, e) \in Seq(S) /\ Len(Append(s, e)) = Len(s) + 1
         /\ DOMAIN s = 1..Len(s) /\ DOMAIN Append(s, e) = 1..(Len(s) + 1)
         /\ \A i \in 1..Len(s) : Append(s, e)[i] = s[i]
         /\ Append(s, e)[Len(s) + 1] = e
OBVIOUS

\* What is behind the first element.
LEMMA Behind ==
  ASSUME NEW S, NEW q \in Seq(S), q # <<>>
  PROVE  /\ Tail(q) \in Seq(S) /\ Len(Tail(q)) = Len(q) - 1 /\ DOMAIN Tail(q) = 1..(Len(q) - 1)
         /\ Len(q) >= 1 /\ DOMAIN q = 1..Len(q) /\ Head(q) = q[1] /\ q[1] \in S
         /\ \A i \in 1..(Len(q) - 1) : Tail(q)[i] = q[i + 1]
<1>1. Tail(q) \in Seq(S) /\ Len(Tail(q)) = Len(q) - 1 /\ Len(q) \in Nat /\ Len(q) >= 1
  OBVIOUS
<1>2. DOMAIN Tail(q) = 1..(Len(q) - 1) /\ DOMAIN q = 1..Len(q)
  BY <1>1
<1>3. \A i \in 1..(Len(q) - 1) : Tail(q)[i] = q[i + 1]
  OBVIOUS
<1> QED
  BY <1>1, <1>2, <1>3

\* Division with rest, as the ring of command buffers uses it.
LEMMA WithRest ==
  ASSUME NEW a \in Int, NEW b \in Nat \ {0}
  PROVE  a = b * (a \div b) + (a % b) /\ a \div b \in Int /\ a % b \in 0..(b - 1)
OBVIOUS

\* Values that are closer than the ring is long have different command buffers.
LEMMA BuffersDiffer ==
  ASSUME NEW a \in Int, NEW c \in Int, NEW b \in Nat \ {0}, a < c, c < a + b
  PROVE  a % b # c % b
<1> SUFFICES ASSUME a % b = c % b PROVE FALSE
  OBVIOUS
<1> DEFINE q == (c \div b) - (a \div b)
<1>1. q \in Int /\ b * q = c - a
  <2>1. /\ a = b * (a \div b) + (a % b) /\ c = b * (c \div b) + (c % b)
        /\ a \div b \in Int /\ c \div b \in Int
        /\ a % b \in 0..(b - 1) /\ c % b \in 0..(b - 1)
    BY WithRest
  <2> DEFINE x == a \div b
             y == c \div b
             r == a % b
  <2>2. a = b * x + r /\ c = b * y + r /\ x \in Int /\ y \in Int /\ r \in Int /\ q = y - x
    BY <2>1
  <2> HIDE DEF x, y, r, q
  <2> QED
    BY <2>2
<1>2. CASE q >= 1
  <2>1. b * q >= b
    BY <1>1, <1>2
  <2> QED
    BY <2>1, <1>1
<1>3. CASE q <= 0
  <2>1. b * q <= 0
    BY <1>1, <1>3
  <2> QED
    BY <2>1, <1>1
<1> QED
  BY <1>1, <1>2, <1>3

\* The command buffer after the next.
LEMMA NextRest ==
  ASSUME NEW a \in Nat, NEW b \in Nat \ {0}
  PROVE  ((a % b) + 1) % b = (a + 1) % b
<1> DEFINE q == a \div b
           r == a % b
<1>1. a = b * q + r /\ q \in Int /\ r \in 0..(b - 1)
  BY WithRest
<1> HIDE DEF q, r
<1>2. CASE r + 1 < b
  <2>1. a + 1 = b * q + (r + 1)
    BY <1>1
  <2>2. (a + 1) % b = r + 1
    BY <1>1, <1>2, <2>1
  <2>3. (r + 1) % b = r + 1
    BY <1>1, <1>2
  <2> QED
    BY <2>2, <2>3 DEF r
<1>3. CASE r + 1 = b
  <2>1. a + 1 = b * (q + 1)
    BY <1>1, <1>3
  <2>2. (a + 1) % b = 0
    BY <1>1, <2>1
  <2>3. (r + 1) % b = 0
    BY <1>1, <1>3
  <2> QED
    BY <2>2, <2>3 DEF r
<1> QED
  BY <1>1, <1>2, <1>3

\* A submission takes the next value and the next command buffer.
LEMMA SubmitKeepsQueue ==
  ASSUME QueueInv, NEW queued \in Seq(Transfer), Submits(queued), semaphore' = semaphore
  PROVE  QueueInv'
<1> DEFINE n == next_signal_value
           batch == [value |-> n, buffer |-> command_buffer_index, transfers |-> queued]
<1>1. /\ n \in Nat /\ semaphore \in Nat /\ last_known_value \in Nat /\ command_buffer_index \in Nat
      /\ inflight \in Seq(Batch) /\ CommandBuffers \in Nat \ {0}
      /\ last_known_value <= semaphore /\ n > CommandBuffers
      /\ Len(inflight) = n - 1 - semaphore /\ Len(inflight) <= CommandBuffers
      /\ command_buffer_index = (n - 1 - CommandBuffers) % CommandBuffers
  BY MemoryTransfersAssumption DEF QueueInv, QueueTypes, SubmissionsInOrder, Buffer
<1>2. /\ semaphore >= n - CommandBuffers
      /\ last_known_value' = IF last_known_value >= n - CommandBuffers
                             THEN last_known_value ELSE n - CommandBuffers
      /\ inflight' = Append(inflight, batch)
      /\ next_signal_value' = n + 1
      /\ command_buffer_index' = (command_buffer_index + 1) % CommandBuffers
      /\ transfers' = <<>>
  BY DEF Submits, reusable
<1>3. batch \in Batch /\ batch.value = n /\ batch.buffer = command_buffer_index
  BY <1>1 DEF Batch
<1> HIDE DEF batch
<1>4. /\ inflight' \in Seq(Batch) /\ Len(inflight') = Len(inflight) + 1
      /\ DOMAIN inflight = 1..Len(inflight) /\ DOMAIN inflight' = 1..(Len(inflight) + 1)
      /\ \A i \in 1..Len(inflight) : inflight'[i] = inflight[i]
      /\ inflight'[Len(inflight) + 1] = batch
  <2> DEFINE longer == Append(inflight, batch)
  <2>1. /\ longer \in Seq(Batch) /\ Len(longer) = Len(inflight) + 1
        /\ DOMAIN inflight = 1..Len(inflight) /\ DOMAIN longer = 1..(Len(inflight) + 1)
        /\ \A i \in 1..Len(inflight) : longer[i] = inflight[i]
        /\ longer[Len(inflight) + 1] = batch
    BY <1>1, <1>3, Appended
  <2> HIDE DEF longer
  <2>2. inflight' = longer
    BY <1>2 DEF longer
  <2> QED
    BY <2>1, <2>2
<1>5. command_buffer_index' = ((n + 1) - 1 - CommandBuffers) % CommandBuffers
  <2> DEFINE a == n - 1 - CommandBuffers
  <2>1. a \in Nat /\ a + 1 = (n + 1) - 1 - CommandBuffers
    BY <1>1
  <2>2. command_buffer_index = a % CommandBuffers
    BY <1>1
  <2> HIDE DEF a
  <2>3. ((a % CommandBuffers) + 1) % CommandBuffers = (a + 1) % CommandBuffers
    BY <1>1, <2>1, NextRest
  <2> QED
    BY <1>2, <2>1, <2>2, <2>3
<1>6. command_buffer_index' \in Nat
  <2>1. command_buffer_index + 1 \in Nat
    BY <1>1
  <2> QED
    BY <1>1, <1>2, <2>1, WithRest
<1>7. \A i \in DOMAIN inflight' : /\ inflight'[i].value = semaphore + i
                                  /\ inflight'[i].buffer = Buffer(inflight'[i].value)
  <2> SUFFICES ASSUME NEW i \in 1..(Len(inflight) + 1)
      PROVE inflight'[i].value = semaphore + i /\ inflight'[i].buffer = Buffer(inflight'[i].value)
    BY <1>4
  <2>1. CASE i \in 1..Len(inflight)
    BY <1>4, <2>1 DEF QueueInv, SubmissionsInOrder
  <2>2. CASE i = Len(inflight) + 1
    <3>1. inflight'[i] = batch /\ batch.value = n /\ batch.buffer = command_buffer_index
      BY <1>3, <1>4, <2>2
    <3>2. n = semaphore + i
      BY <1>1, <2>2
    <3> QED
      BY <1>1, <3>1, <3>2 DEF Buffer
  <2> QED
    BY <1>1, <2>1, <2>2
<1>8. /\ last_known_value' \in Nat /\ last_known_value' <= semaphore /\ n + 1 \in Nat
      /\ n + 1 > CommandBuffers /\ Len(inflight') = (n + 1) - 1 - semaphore
      /\ Len(inflight') <= CommandBuffers
  BY <1>1, <1>2, <1>4
<1> HIDE DEF n, batch
<1>9. transfers' \in Seq(Transfer)
  BY <1>2
<1>10. QueueTypes'
  BY <1>1, <1>2, <1>4, <1>6, <1>8, <1>9 DEF QueueTypes
<1>11. \A i \in DOMAIN inflight' : /\ inflight'[i].value = semaphore' + i
                                   /\ inflight'[i].buffer = Buffer(inflight'[i].value)
  BY <1>7
<1>12. command_buffer_index' = Buffer(next_signal_value')
  BY <1>2, <1>5 DEF Buffer
<1>13. /\ last_known_value' <= semaphore' /\ next_signal_value' > CommandBuffers
       /\ Len(inflight') = next_signal_value' - 1 - semaphore' /\ Len(inflight') <= CommandBuffers
  BY <1>2, <1>8
<1> QED
  BY <1>10, <1>11, <1>12, <1>13 DEF QueueInv, SubmissionsInOrder, Buffer

\* Queued or submitted, the queue is in order.
LEMMA QueuesKeepsQueue ==
  ASSUME QueueInv, NEW queued \in Seq(Transfer), Queues(queued), semaphore' = semaphore
  PROVE  QueueInv'
<1>1. CASE transfers' = queued /\ Unsubmitted
  BY <1>1 DEF Unsubmitted, QueueInv, QueueTypes, SubmissionsInOrder, Buffer
<1> QED
  BY <1>1, SubmitKeepsQueue DEF Queues

\* The first submission is done.
LEMMA CompleteKeepsQueue ==
  ASSUME QueueInv, Complete
  PROVE  QueueInv'
<1>1. /\ inflight # <<>> /\ semaphore' = Head(inflight).value /\ inflight' = Tail(inflight)
      /\ UNCHANGED <<transfers, next_signal_value, last_known_value, command_buffer_index>>
  BY DEF Complete, queue
<1>2. /\ next_signal_value \in Nat /\ semaphore \in Nat /\ last_known_value \in Nat
      /\ inflight \in Seq(Batch) /\ CommandBuffers \in Nat \ {0} /\ last_known_value <= semaphore
      /\ Len(inflight) = next_signal_value - 1 - semaphore /\ Len(inflight) <= CommandBuffers
      /\ \A i \in DOMAIN inflight : inflight[i].value = semaphore + i
                                    /\ inflight[i].buffer = Buffer(inflight[i].value)
  BY MemoryTransfersAssumption DEF QueueInv, QueueTypes, SubmissionsInOrder
<1>3. /\ inflight' \in Seq(Batch) /\ Len(inflight') = Len(inflight) - 1
      /\ DOMAIN inflight' = 1..(Len(inflight) - 1)
      /\ Len(inflight) >= 1 /\ DOMAIN inflight = 1..Len(inflight) /\ Head(inflight) = inflight[1]
      /\ \A i \in 1..(Len(inflight) - 1) : inflight'[i] = inflight[i + 1]
  BY <1>1, <1>2, Behind
<1>4. semaphore' = semaphore + 1
  BY <1>1, <1>2, <1>3
<1>5. \A i \in DOMAIN inflight' : /\ inflight'[i].value = semaphore' + i
                                  /\ inflight'[i].buffer = Buffer(inflight'[i].value)
  <2> SUFFICES ASSUME NEW i \in 1..(Len(inflight) - 1)
      PROVE inflight'[i].value = semaphore' + i /\ inflight'[i].buffer = Buffer(inflight'[i].value)
    BY <1>3
  <2>1. inflight'[i] = inflight[i + 1] /\ i + 1 \in DOMAIN inflight
    BY <1>2, <1>3
  <2>2. inflight[i + 1].value = semaphore + (i + 1)
        /\ inflight[i + 1].buffer = Buffer(inflight[i + 1].value)
    BY <1>2, <2>1
  <2> QED
    BY <1>2, <1>4, <2>1, <2>2
<1>6. QueueTypes'
  BY <1>1, <1>2, <1>3, <1>4 DEF QueueInv, QueueTypes
<1>7. /\ last_known_value' <= semaphore' /\ next_signal_value' > CommandBuffers
      /\ Len(inflight') = next_signal_value' - 1 - semaphore' /\ Len(inflight') <= CommandBuffers
      /\ command_buffer_index' = Buffer(next_signal_value')
  BY <1>1, <1>2, <1>3, <1>4 DEF QueueInv, SubmissionsInOrder, Buffer
<1> QED
  BY <1>5, <1>6, <1>7 DEF QueueInv, SubmissionsInOrder, Buffer

\* A step that knows a newer value of the semaphore, and may take transfers back.
LEMMA PollKeepsQueue ==
  ASSUME QueueInv, UNCHANGED <<next_signal_value, command_buffer_index, inflight, semaphore>>,
         transfers' \in Seq(Transfer), last_known_value' \in Nat, last_known_value' <= semaphore
  PROVE  QueueInv'
BY DEF QueueInv, QueueTypes, SubmissionsInOrder, Buffer

-----------------------------------------------------------------------------
(* The clears that are to come.                                            *)

\* A submission that is not finished has value v and transfer x.
InFlight(v, x) ==
  \E i \in DOMAIN inflight : /\ v = inflight[i].value
                             /\ \E j \in DOMAIN inflight[i].transfers : x = inflight[i].transfers[j]

\* The GPU will have done x when the semaphore reaches v, if these are the transfers
\* still to be submitted.
ToCome(queued, v, x) ==
  /\ x \in Clear
  /\ \/ v = next_signal_value /\ \E i \in DOMAIN queued : x = queued[i]
     \/ InFlight(v, x)

Pending(v, x) == ToCome(transfers, v, x)

\* A submission that is not finished has a value to come.
LEMMA InFlightFacts ==
  ASSUME QueueInv, NEW v, NEW x, InFlight(v, x)
  PROVE  x \in Transfer /\ v \in Nat /\ semaphore < v /\ v < next_signal_value
<1>1. PICK i \in DOMAIN inflight : /\ v = inflight[i].value
                                   /\ \E j \in DOMAIN inflight[i].transfers : x = inflight[i].transfers[j]
  BY DEF InFlight
<1>2. inflight \in Seq(Batch) /\ semaphore \in Nat /\ next_signal_value \in Nat
  BY DEF QueueInv, QueueTypes
<1>3. i \in 1..Len(inflight) /\ Len(inflight) = next_signal_value - 1 - semaphore
      /\ v = semaphore + i
  BY <1>1, <1>2 DEF QueueInv, SubmissionsInOrder
<1>4. inflight[i].transfers \in Seq(Transfer)
  <2>1. inflight[i] \in Batch
    BY <1>2, <1>3
  <2> QED
    BY <2>1 DEF Batch
<1> QED
  BY <1>1, <1>2, <1>3, <1>4

\* A clear to come has one too.
LEMMA PendingFacts ==
  ASSUME QueueInv, NEW v, NEW x, Pending(v, x)
  PROVE  /\ x \in Clear /\ x.memory \in Memory /\ x.offset \in Nat /\ x.size \in Nat
         /\ v \in Nat /\ semaphore < v /\ v <= next_signal_value
<1>1. next_signal_value \in Nat /\ semaphore \in Nat /\ Len(inflight) \in Nat
      /\ Len(inflight) = next_signal_value - 1 - semaphore
  BY DEF QueueInv, QueueTypes, SubmissionsInOrder
<1>2. x \in Clear /\ (v = next_signal_value \/ InFlight(v, x))
  BY DEF Pending, ToCome
<1>3. CASE v = next_signal_value
  BY <1>1, <1>2, <1>3 DEF Clear
<1>4. CASE InFlight(v, x)
  BY <1>1, <1>2, <1>4, InFlightFacts DEF Clear
<1> QED
  BY <1>2, <1>3, <1>4

\* What has the value to be signalled next is queued.
LEMMA PendingNext ==
  ASSUME QueueInv, NEW x
  PROVE  Pending(next_signal_value, x) <=> x \in Clear /\ \E i \in DOMAIN transfers : x = transfers[i]
<1>1. ~InFlight(next_signal_value, x)
  <2> SUFFICES ASSUME InFlight(next_signal_value, x) PROVE FALSE
    OBVIOUS
  <2>1. next_signal_value < next_signal_value /\ next_signal_value \in Nat
    BY InFlightFacts
  <2> QED
    BY <2>1
<1> QED
  BY <1>1 DEF Pending, ToCome

\* What is submitted is in flight.
LEMMA SubmitsInFlight ==
  ASSUME QueueInv, NEW queued \in Seq(Transfer), Submits(queued)
  PROVE  \A v, x : InFlight(v, x)' <=> \/ v = next_signal_value /\ \E i \in DOMAIN queued : x = queued[i]
                                      \/ InFlight(v, x)
<1> DEFINE batch == [value |-> next_signal_value, buffer |-> command_buffer_index,
                     transfers |-> queued]
<1>1. /\ inflight' = Append(inflight, batch) /\ transfers' = <<>>
      /\ next_signal_value' = next_signal_value + 1
  BY DEF Submits
<1>2. /\ inflight \in Seq(Batch) /\ next_signal_value \in Nat /\ batch \in Batch
      /\ batch.value = next_signal_value /\ batch.transfers = queued
  BY DEF QueueInv, QueueTypes, Batch
<1> HIDE DEF batch
<1>3. /\ Len(inflight) \in Nat
      /\ DOMAIN inflight = 1..Len(inflight) /\ DOMAIN inflight' = 1..(Len(inflight) + 1)
      /\ \A i \in 1..Len(inflight) : inflight'[i] = inflight[i]
      /\ inflight'[Len(inflight) + 1] = batch
  BY <1>1, <1>2, Appended
<1>4. \A v, x : InFlight(v, x)' <=> \/ v = next_signal_value /\ \E i \in DOMAIN queued : x = queued[i]
                                    \/ InFlight(v, x)
  <2> SUFFICES ASSUME NEW v, NEW x
      PROVE  InFlight(v, x)' <=> \/ v = next_signal_value /\ \E i \in DOMAIN queued : x = queued[i]
                                 \/ InFlight(v, x)
    OBVIOUS
  <2> DEFINE Has(b) == v = b.value /\ \E j \in DOMAIN b.transfers : x = b.transfers[j]
  <2>1. InFlight(v, x) <=> \E i \in 1..Len(inflight) : Has(inflight[i])
    BY <1>3 DEF InFlight
  <2>2. InFlight(v, x)' <=> \E i \in 1..(Len(inflight) + 1) : Has(inflight'[i])
    BY <1>3 DEF InFlight
  <2>3. Has(batch) <=> v = next_signal_value /\ \E i \in DOMAIN queued : x = queued[i]
    BY <1>2
  <2> HIDE DEF Has
  <2>4. \A i \in 1..(Len(inflight) + 1) : i \in 1..Len(inflight) \/ i = Len(inflight) + 1
    BY <1>3
  <2>5. Len(inflight) + 1 \in 1..(Len(inflight) + 1)
        /\ \A i \in 1..Len(inflight) : i \in 1..(Len(inflight) + 1)
    BY <1>3
  <2> QED
    BY <1>3, <2>1, <2>2, <2>3, <2>4, <2>5
<1> QED
  BY <1>4

\* Submitting does not change what is to come.
LEMMA QueuesPending ==
  ASSUME QueueInv, NEW queued \in Seq(Transfer), Queues(queued)
  PROVE  /\ \A v, x : Pending(v, x)' <=> ToCome(queued, v, x)
         /\ next_signal_value' \in Nat /\ next_signal_value <= next_signal_value'
         /\ next_signal_value' # next_signal_value => transfers' = <<>>
<1>1. CASE transfers' = queued /\ Unsubmitted
  <2>1. UNCHANGED <<next_signal_value, inflight>> /\ next_signal_value \in Nat
    BY <1>1 DEF Unsubmitted, QueueInv, QueueTypes
  <2>2. \A v, x : Pending(v, x)' <=> ToCome(queued, v, x)
    BY <1>1, <2>1 DEF Pending, ToCome, InFlight
  <2> QED
    BY <2>1, <2>2
<1>2. CASE Submits(queued)
  <2>1. /\ transfers' = <<>> /\ next_signal_value' = next_signal_value + 1
        /\ next_signal_value \in Nat
    BY <1>2 DEF Submits, QueueInv, QueueTypes
  <2>2. \A v, x : InFlight(v, x)' <=> \/ v = next_signal_value /\ \E i \in DOMAIN queued : x = queued[i]
                                      \/ InFlight(v, x)
    BY <1>2, SubmitsInFlight
  <2>3. \A v, x : Pending(v, x)' <=> x \in Clear /\ InFlight(v, x)'
    BY <2>1 DEF Pending, ToCome
  <2>4. \A v, x : Pending(v, x)' <=> ToCome(queued, v, x)
    BY <2>2, <2>3 DEF ToCome
  <2> QED
    BY <2>1, <2>4
<1> QED
  BY <1>1, <1>2 DEF Queues

\* A step that touches neither the transfers nor the submissions.
LEMMA PendingUntouched ==
  ASSUME UNCHANGED <<transfers, inflight, next_signal_value>>
  PROVE  \A v, x : Pending(v, x)' <=> Pending(v, x)
BY DEF Pending, ToCome, InFlight

\* One more transfer.
LEMMA ToComeAppended ==
  ASSUME QueueInv, NEW y \in Transfer
  PROVE  /\ Append(transfers, y) \in Seq(Transfer)
         /\ \A v, x : ToCome(Append(transfers, y), v, x)
                        <=> Pending(v, x) \/ (v = next_signal_value /\ x = y /\ y \in Clear)
<1>1. transfers \in Seq(Transfer) /\ Len(transfers) \in Nat
  BY DEF QueueInv, QueueTypes
<1> DEFINE q == Append(transfers, y)
<1>2. /\ q \in Seq(Transfer)
      /\ DOMAIN transfers = 1..Len(transfers) /\ DOMAIN q = 1..(Len(transfers) + 1)
      /\ \A i \in 1..Len(transfers) : q[i] = transfers[i]
      /\ q[Len(transfers) + 1] = y
  BY <1>1, Appended
<1> HIDE DEF q
<1>3. \A x : (\E i \in DOMAIN q : x = q[i]) <=> (\E i \in DOMAIN transfers : x = transfers[i]) \/ x = y
  <2>1. \A i \in 1..(Len(transfers) + 1) : i \in 1..Len(transfers) \/ i = Len(transfers) + 1
    BY <1>1
  <2>2. Len(transfers) + 1 \in 1..(Len(transfers) + 1)
        /\ \A i \in 1..Len(transfers) : i \in 1..(Len(transfers) + 1)
    BY <1>1
  <2> QED
    BY <1>2, <2>1, <2>2
<1>4. \A v, x : ToCome(q, v, x) <=> Pending(v, x) \/ (v = next_signal_value /\ x = y /\ y \in Clear)
  BY <1>3 DEF Pending, ToCome
<1> QED
  BY <1>2, <1>4 DEF q

\* The GPU finishes what has the value that its semaphore takes.
LEMMA CompletePending ==
  ASSUME QueueInv, Complete
  PROVE  /\ semaphore' = semaphore + 1
         /\ \A v, x : Pending(v, x)' <=> Pending(v, x) /\ v # semaphore + 1
         /\ \A v, x : InFlight(v, x)' => InFlight(v, x)
         /\ \A x : x \in Clear /\ (\E j \in DOMAIN Head(inflight).transfers : x = Head(inflight).transfers[j])
                     <=> Pending(semaphore + 1, x) /\ semaphore + 1 # next_signal_value
<1>1. /\ inflight # <<>> /\ semaphore' = Head(inflight).value /\ inflight' = Tail(inflight)
      /\ UNCHANGED <<transfers, next_signal_value>>
  BY DEF Complete, queue
<1>2. /\ inflight \in Seq(Batch) /\ semaphore \in Nat /\ next_signal_value \in Nat
      /\ \A i \in DOMAIN inflight : inflight[i].value = semaphore + i
      /\ Len(inflight) = next_signal_value - 1 - semaphore
  BY DEF QueueInv, QueueTypes, SubmissionsInOrder
<1>3. /\ DOMAIN inflight' = 1..(Len(inflight) - 1)
      /\ Len(inflight) >= 1 /\ DOMAIN inflight = 1..Len(inflight) /\ Head(inflight) = inflight[1]
      /\ \A i \in 1..(Len(inflight) - 1) : inflight'[i] = inflight[i + 1]
      /\ Len(inflight) \in Nat
  BY <1>1, <1>2, Behind
<1>4. semaphore' = semaphore + 1 /\ semaphore + 1 # next_signal_value
  BY <1>1, <1>2, <1>3
<1> DEFINE Has(x, b) == \E j \in DOMAIN b.transfers : x = b.transfers[j]
<1>5. \A v, x : InFlight(v, x) <=> \E i \in 1..Len(inflight) : v = semaphore + i /\ Has(x, inflight[i])
  BY <1>2, <1>3 DEF InFlight
<1>6. \A v, x : InFlight(v, x)' <=>
         \E i \in 1..(Len(inflight) - 1) : v = semaphore + (i + 1) /\ Has(x, inflight[i + 1])
  <2>1. \A i \in 1..(Len(inflight) - 1) : inflight'[i].value = semaphore + (i + 1)
                                          /\ inflight'[i] = inflight[i + 1]
    <3> SUFFICES ASSUME NEW i \in 1..(Len(inflight) - 1)
        PROVE  inflight'[i].value = semaphore + (i + 1) /\ inflight'[i] = inflight[i + 1]
      OBVIOUS
    <3>1. i + 1 \in 1..Len(inflight)
      BY <1>3
    <3>2. inflight[i + 1].value = semaphore + (i + 1)
      BY <1>2, <1>3, <3>1
    <3> QED
      BY <1>3, <3>2
  <2>2. \A v, x : InFlight(v, x)' <=>
           \E i \in 1..(Len(inflight) - 1) : v = inflight'[i].value /\ Has(x, inflight'[i])
    BY <1>3 DEF InFlight
  <2> HIDE DEF Has
  <2>3. \A v, x : \A i \in 1..(Len(inflight) - 1) :
          (v = inflight'[i].value /\ Has(x, inflight'[i]))
            <=> (v = semaphore + (i + 1) /\ Has(x, inflight[i + 1]))
    BY <2>1
  <2> QED
    BY <2>2, <2>3
<1> HIDE DEF Has
<1>7. \A v, x : InFlight(v, x)' <=> InFlight(v, x) /\ v # semaphore + 1
  <2> SUFFICES ASSUME NEW v, NEW x PROVE InFlight(v, x)' <=> InFlight(v, x) /\ v # semaphore + 1
    OBVIOUS
  <2>1. ASSUME InFlight(v, x)' PROVE InFlight(v, x) /\ v # semaphore + 1
    <3>1. PICK i \in 1..(Len(inflight) - 1) : v = semaphore + (i + 1) /\ Has(x, inflight[i + 1])
      BY <1>6, <2>1
    <3>2. i + 1 \in 1..Len(inflight) /\ semaphore + (i + 1) # semaphore + 1
      BY <1>2, <1>3
    <3> QED
      BY <1>5, <3>1, <3>2
  <2>2. ASSUME InFlight(v, x), v # semaphore + 1 PROVE InFlight(v, x)'
    <3>1. PICK i \in 1..Len(inflight) : v = semaphore + i /\ Has(x, inflight[i])
      BY <1>5, <2>2
    <3>2. i # 1
      BY <2>2, <3>1
    <3>3. PICK k \in 1..(Len(inflight) - 1) : k + 1 = i
      <4>1. i - 1 \in 1..(Len(inflight) - 1) /\ (i - 1) + 1 = i
        BY <1>3, <3>2
      <4> QED
        BY <4>1
    <3> QED
      BY <1>6, <3>1, <3>3
  <2> QED
    BY <2>1, <2>2
<1>8. \A x : (\E j \in DOMAIN Head(inflight).transfers : x = Head(inflight).transfers[j])
               <=> InFlight(semaphore + 1, x)
  <2> SUFFICES ASSUME NEW x PROVE Has(x, inflight[1]) <=> InFlight(semaphore + 1, x)
    BY <1>3 DEF Has
  <2>1. \A i \in 1..Len(inflight) : semaphore + 1 = semaphore + i => i = 1
    BY <1>2
  <2>2. 1 \in 1..Len(inflight)
    BY <1>3
  <2> QED
    BY <1>5, <2>1, <2>2
<1>9. \A v, x : Pending(v, x)' <=> /\ x \in Clear
                                   /\ \/ v = next_signal_value /\ \E i \in DOMAIN transfers : x = transfers[i]
                                      \/ InFlight(v, x)'
  BY <1>1 DEF Pending, ToCome
<1> QED
  BY <1>4, <1>7, <1>8, <1>9 DEF Pending, ToCome

-----------------------------------------------------------------------------
(* What allocating, freeing and queueing do to the rest.                   *)

\* The content of memory, and what the GPU uses, with the queue as it is.
QueueStays == UNCHANGED <<transfers, num_bytes_pending, inflight, next_signal_value, semaphore,
                          command_buffer_index, last_known_value>>

\* A thread gets allocation a in memory object m, and fills it if it has to read as zero.
Allocates(t, a, m) ==
  /\ thread[t].at = "idle" /\ allocation[a].state = "none"
  /\ \A b \in Alloc \ {a} : allocation'[b] = allocation[b]
  /\ \A x \in Memory \ {m} : memory'[x] = memory[x]
  /\ allocation'[a].state = "held" /\ allocation'[a].memory = m
  /\ allocation'[a].clear = memory'[m].clear
  /\ memory'[m].kind \in {"chunk", "dedicated"}
  /\ \/ memory[m].kind = "none" /\ memory'[m].clear = 0
     \/ memory[m].kind = "chunk" /\ memory'[m].kind = "chunk" /\ memory'[m].clear = memory[m].clear
  /\ allocator_mutex' = allocator_mutex
  /\ \A u \in Threads \ {t} : thread'[u] = thread[u]
  /\ \/ thread'[t] = thread[t] /\ ~allocation'[a].zeroed
     \/ thread'[t].at = "fill" /\ thread'[t].on = a
  /\ QueueStays /\ UNCHANGED <<content, use, need>>

\* A thread with memory that has to read as zero goes on to fill it.
LEMMA StartFacts ==
  ASSUME Types, NEW t \in Threads, NEW a \in Alloc, NEW request \in Requests,
         IF request.zeroed THEN start(t, a, "fill") ELSE UNCHANGED thread
  PROVE  /\ \A u \in Threads \ {t} : thread'[u] = thread[u]
         /\ \/ thread'[t] = thread[t] /\ ~request.zeroed
            \/ thread'[t].at = "fill" /\ thread'[t].on = a
<1> DEFINE filling == [at |-> "fill", on |-> a, wait |-> 0]
<1>1. CASE request.zeroed
  <2>1. thread' = [thread EXCEPT ![t] = filling] /\ filling.at = "fill" /\ filling.on = a
    BY <1>1 DEF start
  <2> HIDE DEF filling
  <2> QED
    BY <2>1 DEF Types
<1>2. CASE ~request.zeroed
  BY <1>2
<1> QED
  BY <1>1, <1>2

\* vkd3d_suballocate_memory allocates from a chunk.
LEMMA SuballocateEffect ==
  ASSUME Types, NEW t \in Threads, NEW a \in Alloc, NEW request \in Requests,
         Suballocate(t, a, request)
  PROVE  \E m \in Memory : Allocates(t, a, m) /\ allocator_mutex = Nobody /\ memory'[m].kind = "chunk"
                             /\ (memory[m].kind = "none" => memory'[m].size = ChunkSize)
                             /\ (memory[m].kind = "chunk" => memory'[m].size = memory[m].size)
<1> DEFINE chunk == [kind |-> "chunk", size |-> ChunkSize, clear |-> 0,
                     ranges |-> <<[offset |-> 0, length |-> ChunkSize]>>]
<1>1. /\ thread[t].at = "idle" /\ allocator_mutex = Nobody /\ a = unused_allocation
      /\ QueueStays /\ UNCHANGED <<allocator_mutex, content, use, need>>
      /\ IF request.zeroed THEN start(t, a, "fill") ELSE UNCHANGED thread
  BY DEF Suballocate, queue, gpu, QueueStays
<1>2. \/ \E m \in FittingChunks(request) : slice(a, request, m, memory[m])
      \/ \E m \in unused_memory : slice(a, request, m, chunk)
  BY DEF Suballocate
<1>3. allocation[a].state = "none"
  BY <1>1, UnusedFacts
<1>4. /\ \A u \in Threads \ {t} : thread'[u] = thread[u]
      /\ \/ thread'[t] = thread[t] /\ ~request.zeroed
         \/ thread'[t].at = "fill" /\ thread'[t].on = a
  BY <1>1, StartFacts
<1>5. ASSUME NEW m \in Memory, NEW object, slice(a, request, m, object)
      PROVE  /\ \A b \in Alloc \ {a} : allocation'[b] = allocation[b]
             /\ \A x \in Memory \ {m} : memory'[x] = memory[x]
             /\ allocation'[a].state = "held" /\ allocation'[a].memory = m
             /\ allocation'[a].clear = object.clear /\ allocation'[a].zeroed = request.zeroed
             /\ \E ranges : memory'[m] = [object EXCEPT !.ranges = ranges]
  <2> DEFINE index == pick_range(object.ranges, request.size, request.alignment)
             offset == align(object.ranges[index].offset, request.alignment)
             taken == take_range(object.ranges, index, offset, request.size)
             new == [state |-> "held", memory |-> m, offset |-> offset, size |-> request.size,
                     zeroed |-> request.zeroed, clear |-> object.clear]
             after == [object EXCEPT !.ranges = taken]
  <2>1. memory' = [memory EXCEPT ![m] = after] /\ allocation' = [allocation EXCEPT ![a] = new]
    BY <1>5 DEF slice, hold
  <2>2. /\ new.state = "held" /\ new.memory = m /\ new.clear = object.clear
        /\ new.zeroed = request.zeroed
    OBVIOUS
  <2>3. \E ranges : after = [object EXCEPT !.ranges = ranges]
    OBVIOUS
  <2> HIDE DEF new, after
  <2> QED
    BY <2>1, <2>2, <2>3 DEF Types
<1>6. CASE \E m \in FittingChunks(request) : slice(a, request, m, memory[m])
  <2>1. PICK m \in FittingChunks(request) : slice(a, request, m, memory[m])
    BY <1>6
  <2>2. m \in Memory /\ memory[m].kind = "chunk" /\ memory[m] \in MemoryObject
    BY DEF FittingChunks, Chunks, Types
  <2>3. PICK ranges : memory'[m] = [memory[m] EXCEPT !.ranges = ranges]
    BY <1>5, <2>1, <2>2
  <2>4. /\ memory'[m].kind = "chunk" /\ memory'[m].clear = memory[m].clear
        /\ memory'[m].size = memory[m].size
    BY <2>2, <2>3 DEF MemoryObject
  <2>5. Allocates(t, a, m)
    BY <1>1, <1>3, <1>4, <1>5, <2>1, <2>2, <2>4 DEF Allocates
  <2> QED
    BY <1>1, <2>2, <2>4, <2>5
<1>7. CASE \E m \in unused_memory : slice(a, request, m, chunk)
  <2>1. PICK m \in unused_memory : slice(a, request, m, chunk)
    BY <1>7
  <2>2. m \in Memory /\ memory[m].kind = "none"
    BY UnusedMemoryFacts
  <2>3. PICK ranges : memory'[m] = [chunk EXCEPT !.ranges = ranges]
    BY <1>5, <2>1, <2>2
  <2>4. /\ memory'[m].kind = "chunk" /\ memory'[m].clear = 0 /\ chunk.clear = 0
        /\ memory'[m].size = ChunkSize
    BY <2>3
  <2> HIDE DEF chunk
  <2>5. Allocates(t, a, m)
    BY <1>1, <1>3, <1>4, <1>5, <2>1, <2>2, <2>4 DEF Allocates
  <2> QED
    BY <1>1, <2>2, <2>4, <2>5
<1> QED
  BY <1>2, <1>6, <1>7

\* vkd3d_memory_allocation_init allocates memory of its own.
LEMMA AllocateDedicatedEffect ==
  ASSUME Types, NEW t \in Threads, NEW a \in Alloc, NEW request \in Requests,
         AllocateDedicated(t, a, request)
  PROVE  \E m \in Memory : /\ Allocates(t, a, m) /\ memory[m].kind = "none"
                           /\ memory'[m].kind = "dedicated" /\ memory'[m].ranges = <<>>
                           /\ memory'[m].size \in 0..ChunkSize
                           /\ allocation'[a].offset = 0 /\ allocation'[a].size <= ChunkSize
<1>1. /\ thread[t].at = "idle" /\ a = unused_allocation
      /\ QueueStays /\ UNCHANGED <<allocator_mutex, content, use, need>>
      /\ IF request.zeroed THEN start(t, a, "fill") ELSE UNCHANGED thread
  BY DEF AllocateDedicated, queue, gpu, QueueStays
<1>2. PICK m \in unused_memory :
        /\ memory' = [memory EXCEPT ![m] = [kind |-> "dedicated", size |-> request.size,
                                            ranges |-> <<>>, clear |-> 0]]
        /\ hold(a, request, m, 0, 0)
  BY DEF AllocateDedicated
<1>3. m \in Memory /\ memory[m].kind = "none"
  BY UnusedMemoryFacts
<1>4. allocation[a].state = "none"
  BY <1>1, UnusedFacts
<1>5. request.size \in 1..ChunkSize /\ ChunkSize \in Nat
  BY MemoryTransfersAssumption
<1> DEFINE object == [kind |-> "dedicated", size |-> request.size, ranges |-> <<>>, clear |-> 0]
           new == [state |-> "held", memory |-> m, offset |-> 0, size |-> request.size,
                   zeroed |-> request.zeroed, clear |-> 0]
<1>6. /\ object.kind = "dedicated" /\ object.clear = 0 /\ object.ranges = <<>>
      /\ object.size = request.size
  OBVIOUS
<1>7. /\ new.state = "held" /\ new.memory = m /\ new.clear = 0 /\ new.zeroed = request.zeroed
      /\ new.offset = 0 /\ new.size = request.size
  OBVIOUS
<1>8. memory' = [memory EXCEPT ![m] = object] /\ allocation' = [allocation EXCEPT ![a] = new]
  BY <1>2 DEF hold
<1> HIDE DEF object, new
<1>9. /\ \A b \in Alloc \ {a} : allocation'[b] = allocation[b]
      /\ \A x \in Memory \ {m} : memory'[x] = memory[x]
      /\ memory'[m] = object /\ allocation'[a] = new
  BY <1>3, <1>8 DEF Types
<1>10. /\ \A u \in Threads \ {t} : thread'[u] = thread[u]
       /\ \/ thread'[t] = thread[t] /\ ~request.zeroed
          \/ thread'[t].at = "fill" /\ thread'[t].on = a
  BY <1>1, StartFacts
<1>11. Allocates(t, a, m)
  BY <1>1, <1>3, <1>4, <1>6, <1>7, <1>9, <1>10 DEF Allocates
<1> QED
  BY <1>3, <1>5, <1>6, <1>7, <1>9, <1>11

\* A thread forgets its allocation, a slice of m or all of it.
Forgets(t, a, m) ==
  /\ thread[t].at = "give" /\ thread[t].on = a /\ allocation[a].memory = m
  /\ a \in Alloc /\ m \in Memory /\ allocation[a].state = "held"
  /\ \A b \in Alloc : allocation'[b] = IF b = a THEN NoAllocation ELSE allocation[b]
  /\ \A u \in Threads : thread'[u] = IF u = t THEN Idle ELSE thread[u]
  /\ \A x \in Memory \ {m} : memory'[x] = memory[x]
  /\ \/ memory'[m] = NoObject /\ (Whole(t) \/ memory[m].kind = "dedicated")
     \/ /\ memory[m].kind = "chunk" /\ memory'[m].kind = "chunk" /\ ~Whole(t)
        /\ memory'[m].clear = memory[m].clear /\ memory'[m].size = memory[m].size
  /\ \A u \in Threads : /\ Whole(u)' => Whole(u) /\ u # t
                        /\ Whole(u) => u = t \/ Whole(u)'
  /\ content' = [content EXCEPT ![m] =
       [u \in DOMAIN @ |-> IF u \in Units(Region(t).offset, Region(t).size) THEN "junk" ELSE @[u]]]
  /\ use' = [use EXCEPT ![a] = "unused"] /\ need' = [need EXCEPT ![a] = 0]
  /\ QueueStays

\* vkFreeMemory ends an allocation.
LEMMA GiveMemoryEffect ==
  ASSUME Inv, NEW t \in Threads, GiveMemory(t)
  PROVE  Forgets(t, thread[t].on, allocation[thread[t].on].memory)
<1> DEFINE a == thread[t].on
           m == allocation[a].memory
<1>1. /\ thread[t].at = "give" /\ (Whole(t) \/ memory[m].kind = "dedicated")
      /\ memory' = [memory EXCEPT ![m] = NoObject]
      /\ allocator_mutex' = IF Whole(t) THEN Nobody ELSE allocator_mutex
      /\ forget_allocation(t) /\ QueueStays
  BY DEF GiveMemory, queue, gpu, QueueStays
<1>2. Types
  BY DEF Inv
<1>3. a \in Alloc /\ allocation[a].state = "held" /\ m \in Memory
  BY <1>1 DEF Inv, BusyThreads, HeldMemory
<1>4. /\ \A b \in Alloc : allocation'[b] = IF b = a THEN NoAllocation ELSE allocation[b]
      /\ \A u \in Threads : thread'[u] = IF u = t THEN Idle ELSE thread[u]
  BY <1>1, <1>2, <1>3, ForgetFacts
<1>5. memory'[m] = NoObject /\ \A x \in Memory \ {m} : memory'[x] = memory[x]
  BY <1>1, <1>2, <1>3 DEF Types
<1>6. \A u \in Threads : /\ Whole(u)' => Whole(u) /\ u # t
                         /\ Whole(u) => u = t \/ Whole(u)'
  BY <1>1, <1>2, MemoryTransfersAssumption DEF Whole, Inv, WholeChunk, Types
<1>7. /\ content' = [content EXCEPT ![m] =
           [u \in DOMAIN @ |-> IF u \in Units(Region(t).offset, Region(t).size) THEN "junk" ELSE @[u]]]
      /\ use' = [use EXCEPT ![a] = "unused"] /\ need' = [need EXCEPT ![a] = 0]
  BY <1>1 DEF forget_allocation
<1> HIDE DEF a, m
<1>8. thread[t].at = "give" /\ thread[t].on = a /\ allocation[a].memory = m
  BY <1>1 DEF a, m
<1>9. QueueStays /\ (Whole(t) \/ memory[m].kind = "dedicated")
  BY <1>1
<1>10. Forgets(t, a, m)
  BY <1>3, <1>4, <1>5, <1>6, <1>7, <1>8, <1>9 DEF Forgets
<1> QED
  BY <1>10 DEF a, m

\* A thread gives back the last slice of a chunk, and goes on to destroy that.
TakesWhole(t, a, m) ==
  /\ thread[t].at = "give" /\ thread[t].on = a /\ allocation[a].memory = m
  /\ a \in Alloc /\ m \in Memory /\ allocation[a].state = "held"
  /\ allocator_mutex = Nobody /\ allocator_mutex' = t
  /\ allocation' = allocation
  /\ \A x \in Memory \ {m} : memory'[x] = memory[x]
  /\ memory[m].kind = "chunk" /\ memory'[m].kind = "chunk" /\ memory'[m].clear = memory[m].clear
  /\ memory'[m].size = memory[m].size
  /\ \A u \in Threads \ {t} : thread'[u] = thread[u]
  /\ thread'[t].on = a /\ thread'[t].at = (IF memory[m].clear = 0 THEN "give" ELSE "poll")
  /\ QueueStays /\ UNCHANGED <<content, use, need>>

\* Giving back a slice ends an allocation, or begins to destroy the chunk.
LEMMA GiveRangeEffect ==
  ASSUME Inv, NEW t \in Threads, GiveRange(t)
  PROVE  LET a == thread[t].on IN Forgets(t, a, allocation[a].memory) \/ TakesWhole(t, a, allocation[a].memory)
<1> DEFINE a == thread[t].on
           m == allocation[a].memory
           ranges == free_range(memory[m].ranges, allocation[a].offset, allocation[a].size)
           place == IF memory[m].clear = 0 THEN "give" ELSE "poll"
<1>1. /\ thread[t].at = "give" /\ allocator_mutex = Nobody /\ memory[m].kind = "chunk"
      /\ memory' = [memory EXCEPT ![m].ranges = ranges] /\ QueueStays
  BY DEF GiveRange, queue, gpu, QueueStays
<1>2. \/ allocator_mutex' = t /\ proceed(t, place) /\ UNCHANGED <<content, allocation, use, need>>
      \/ forget_allocation(t) /\ UNCHANGED allocator_mutex
  BY DEF GiveRange
<1>3. Types
  BY DEF Inv
<1>4. a \in Alloc /\ allocation[a].state = "held" /\ m \in Memory
  BY <1>1 DEF Inv, BusyThreads, HeldMemory
<1> HIDE DEF ranges
<1>5. /\ memory'[m].kind = "chunk" /\ memory'[m].clear = memory[m].clear
      /\ memory'[m].size = memory[m].size
      /\ \A x \in Memory \ {m} : memory'[x] = memory[x]
  <2>1. memory[m] \in MemoryObject
    BY <1>3, <1>4 DEF Types
  <2> QED
    BY <1>1, <1>3, <1>4, <2>1 DEF Types, MemoryObject
<1>6. \A u \in Threads : ~Whole(u)
  BY <1>1, MemoryTransfersAssumption DEF Whole
<1>7. CASE allocator_mutex' = t /\ proceed(t, place) /\ UNCHANGED <<content, allocation, use, need>>
  <2>1. thread' = [thread EXCEPT ![t].at = place]
    BY <1>7 DEF proceed
  <2>2. /\ thread'[t].on = a /\ thread'[t].at = place
        /\ \A u \in Threads \ {t} : thread'[u] = thread[u]
    <3>1. thread[t] \in [at : Places, on : Alloc \cup {NoAlloc}, wait : Int]
      BY <1>3 DEF Types
    <3> HIDE DEF place
    <3> QED
      BY <1>3, <2>1, <3>1 DEF Types
  <2> HIDE DEF m
  <2>3. allocation[a].memory = m /\ place = (IF memory[m].clear = 0 THEN "give" ELSE "poll")
    BY DEF m
  <2> HIDE DEF a, place
  <2>4. thread[t].on = a
    BY DEF a
  <2>5. TakesWhole(t, a, m)
    BY <1>1, <1>4, <1>5, <1>7, <2>2, <2>3, <2>4 DEF TakesWhole
  <2> QED
    BY <2>5 DEF a, m
<1>8. CASE forget_allocation(t) /\ UNCHANGED allocator_mutex
  <2>1. /\ \A b \in Alloc : allocation'[b] = IF b = a THEN NoAllocation ELSE allocation[b]
        /\ \A u \in Threads : thread'[u] = IF u = t THEN Idle ELSE thread[u]
    BY <1>3, <1>4, <1>8, ForgetFacts
  <2>2. /\ content' = [content EXCEPT ![m] =
             [u \in DOMAIN @ |-> IF u \in Units(Region(t).offset, Region(t).size) THEN "junk" ELSE @[u]]]
        /\ use' = [use EXCEPT ![a] = "unused"] /\ need' = [need EXCEPT ![a] = 0]
    BY <1>8 DEF forget_allocation
  <2>3. \A u \in Threads : ~Whole(u)'
    BY <1>6, <1>8 DEF Whole
  <2> HIDE DEF m
  <2>4. allocation[a].memory = m
    BY DEF m
  <2> HIDE DEF a
  <2>5. thread[t].on = a
    BY DEF a
  <2>6. Forgets(t, a, m)
    BY <1>1, <1>4, <1>5, <1>6, <2>1, <2>2, <2>3, <2>4, <2>5 DEF Forgets
  <2> QED
    BY <2>6 DEF a, m
<1> QED
  BY <1>2, <1>7, <1>8

-----------------------------------------------------------------------------
(***************************************************************************)
(* What is cleared, and who waits for it.                                  *)
(***************************************************************************)

\* Allocations in the same memory do not overlap, whether owners or about to give back a chunk.
LEMMA HeldApart ==
  ASSUME Inv, NEW a \in Alloc, NEW b \in Alloc, a # b,
         allocation[a].state = "held", allocation[b].state = "held",
         allocation[a].memory = allocation[b].memory
  PROVE  UnitsOf(a) \cap UnitsOf(b) = {} /\ memory[allocation[a].memory].kind = "chunk"
<1> DEFINE m == allocation[a].memory
<1>1. m \in Memory /\ memory[m].kind # "none" /\ memory[m].kind # "dedicated"
  BY DEF Inv, HeldMemory
<1>2. memory[m].kind = "chunk" /\ ChunkExact(m)
  BY <1>1 DEF Inv, Types, MemoryObject, ChunksExact
<1>3. CASE a \in Owners(m) /\ b \in Owners(m)
  BY <1>2, <1>3 DEF ChunkExact
<1>4. CASE ~(a \in Owners(m) /\ b \in Owners(m))
  <2>1. PICK t \in Threads : Whole(t) /\ (thread[t].on = a \/ thread[t].on = b)
    BY <1>4 DEF Owners
  <2>2. allocation[thread[t].on].memory = m
    BY <2>1
  <2>3. Owners(m) = {}
    BY <1>1, <2>1, <2>2 DEF Inv, WholeChunk
  <2>4. \A u \in Threads : Whole(u) => u = t
    BY <2>1 DEF Whole
  <2>5. a \in Owners(m) \/ b \in Owners(m)
    BY <2>1, <2>4 DEF Owners
  <2> QED
    BY <2>3, <2>5
<1> QED
  BY <1>2, <1>3, <1>4

\* Nobody has a slice of what a thread is about to free as a whole.
Alone(t) == Whole(t) \/ memory[allocation[thread[t].on].memory].kind = "dedicated"

\* So no other allocation is in it.
LEMMA AloneInMemory ==
  ASSUME Inv, NEW t \in Threads, thread[t].at # "idle", Alone(t),
         NEW b \in Alloc, allocation[b].state = "held",
         allocation[b].memory = allocation[thread[t].on].memory
  PROVE  b = thread[t].on
<1> DEFINE a == thread[t].on
           m == allocation[a].memory
<1>1. a \in Alloc /\ allocation[a].state = "held" /\ m \in Memory
  BY DEF Inv, BusyThreads, HeldMemory
<1>2. CASE Whole(t)
  <2>1. Owners(m) = {}
    BY <1>1, <1>2 DEF Inv, WholeChunk
  <2>2. \A u \in Threads : Whole(u) => u = t
    BY <1>2 DEF Whole
  <2>3. b # a => b \in Owners(m)
    BY <2>2 DEF Owners
  <2> QED
    BY <2>1, <2>3
<1>3. CASE memory[m].kind = "dedicated"
  BY <1>1, <1>3 DEF Inv, HeldMemory
<1> QED
  BY <1>2, <1>3 DEF Alone

\* A queued clear belongs to an allocation that waits for no other, and that is at most
\* about to take it out of the queue again.
BelongsTo(x, a) ==
  /\ allocation[a].state = "held" /\ x = clear_of(allocation[a])
  /\ allocation[a].clear = next_signal_value
  /\ \A t \in Threads : thread[t].at # "idle" /\ thread[t].on = a =>
       thread[t].at \in {"poll", "unqueue"} /\ ~Whole(t)
QueuedBelong == \A x : Pending(next_signal_value, x) => \E a \in Alloc : BelongsTo(x, a)

\* A clear to come is of memory that exists and knows how long to wait.
Known(v, x) ==
  /\ memory[x.memory].kind # "none"
  /\ memory[x.memory].kind = "chunk" => v <= memory[x.memory].clear
  /\ memory[x.memory].kind = "dedicated" =>
       \A a \in Alloc : allocation[a].state = "held" /\ allocation[a].memory = x.memory
                          => allocation[a].clear = v
PendingKnown == \A v, x : Pending(v, x) => Known(v, x)

\* What is waited for was queued.
ClearsAreIssued ==
  /\ \A m \in Memory : memory[m].clear <= next_signal_value
  /\ \A a \in Alloc : allocation[a].clear <= next_signal_value
  /\ \A t \in Threads :
       thread[t].at = "fill" /\ memory[allocation[thread[t].on].memory].kind = "dedicated" =>
         allocation[thread[t].on].clear = 0

\* Who frees a memory object waits for all its clears first.
Waiting(t) ==
  /\ thread[t].at = "wait" =>
       /\ Alone(t) /\ thread[t].wait \in Nat /\ thread[t].wait < next_signal_value
       /\ \A v, x : Pending(v, x) /\ x.memory = allocation[thread[t].on].memory => v <= thread[t].wait
  /\ thread[t].at = "give" /\ Alone(t) =>
       \A v, x : Pending(v, x) => x.memory # allocation[thread[t].on].memory
Waits == \A t \in Threads : Waiting(t)

Clears == QueuedBelong /\ PendingKnown /\ ClearsAreIssued /\ Waits

\* A step that adds no clear and moves nobody.
LEMMA ClearsStay ==
  ASSUME Inv, QueueInv, Clears, UNCHANGED <<allocator_mutex, memory, allocation, thread>>,
         \A v, x : Pending(v, x)' => Pending(v, x),
         next_signal_value' \in Nat, next_signal_value <= next_signal_value',
         \A x : Pending(next_signal_value, x)' => next_signal_value' = next_signal_value
  PROVE  Clears'
<1>0. next_signal_value \in Nat
  BY DEF QueueInv, QueueTypes
<1>1. QueuedBelong'
  <2> SUFFICES ASSUME NEW x, Pending(next_signal_value, x)' PROVE \E a \in Alloc : BelongsTo(x, a)'
    BY DEF QueuedBelong
  <2>1. next_signal_value' = next_signal_value
    OBVIOUS
  <2>2. Pending(next_signal_value, x)
    BY <2>1
  <2>3. PICK a \in Alloc : BelongsTo(x, a)
    BY <2>2 DEF Clears, QueuedBelong
  <2>4. BelongsTo(x, a)'
    BY <2>1, <2>3 DEF BelongsTo, Whole, clear_of
  <2> QED
    BY <2>4
<1>2. PendingKnown'
  <2> SUFFICES ASSUME NEW v, NEW x, Pending(v, x)' PROVE Known(v, x)'
    BY DEF PendingKnown
  <2>1. Known(v, x)
    BY DEF Clears, PendingKnown
  <2> QED
    BY <2>1 DEF Known
<1>3. ClearsAreIssued'
  <2>1. /\ \A m \in Memory : memory[m].clear \in Nat /\ memory[m].clear <= next_signal_value
        /\ \A a \in Alloc : allocation[a].clear \in Nat /\ allocation[a].clear <= next_signal_value
        /\ \A t \in Threads :
             thread[t].at = "fill" /\ memory[allocation[thread[t].on].memory].kind = "dedicated" =>
               allocation[thread[t].on].clear = 0
    <3>1. \A m \in Memory : memory[m].clear \in Nat
      BY DEF Inv, Types, MemoryObject
    <3>2. \A a \in Alloc : allocation[a].clear \in Nat
      BY DEF Inv, Types, Allocation
    <3> QED
      BY <3>1, <3>2 DEF Clears, ClearsAreIssued
  <2> QED
    BY <1>0, <2>1 DEF ClearsAreIssued
<1>4. Waits'
  <2> SUFFICES ASSUME NEW t \in Threads PROVE Waiting(t)'
    BY DEF Waits
  <2>1. Waiting(t) /\ Alone(t)' = Alone(t)
    BY DEF Clears, Waits, Alone, Whole
  <2> QED
    BY <1>0, <2>1 DEF Waiting
<1> QED
  BY <1>1, <1>2, <1>3, <1>4 DEF Clears

\* A thread that frees something, or begins to, moves on.
LEMMA ClearsMove ==
  ASSUME Inv, QueueInv, Clears, NEW t \in Threads,
         UNCHANGED <<allocator_mutex, memory, allocation, next_signal_value>>,
         \A u \in Threads \ {t} : thread'[u] = thread[u], thread'[t].at # "fill",
         \A v, x : Pending(v, x)' => Pending(v, x),
         \A x, a : Pending(next_signal_value, x)' /\ BelongsTo(x, a) /\ thread'[t].on = a
                     => thread'[t].at \in {"poll", "unqueue"} /\ ~Whole(t),
         Waiting(t)'
  PROVE  Clears'
<1>1. QueuedBelong'
  <2> SUFFICES ASSUME NEW x, Pending(next_signal_value, x)' PROVE \E a \in Alloc : BelongsTo(x, a)'
    BY DEF QueuedBelong
  <2>1. Pending(next_signal_value, x)
    OBVIOUS
  <2>2. PICK a \in Alloc : BelongsTo(x, a)
    BY <2>1 DEF Clears, QueuedBelong
  <2>3. ASSUME NEW u \in Threads, thread'[u].at # "idle", thread'[u].on = a
        PROVE  thread'[u].at \in {"poll", "unqueue"} /\ ~Whole(u)'
    <3>1. CASE u = t
      BY <2>2, <2>3, <3>1 DEF Whole
    <3>2. CASE u # t
      BY <2>2, <2>3, <3>2 DEF Whole, BelongsTo
    <3> QED
      BY <3>1, <3>2
  <2>4. BelongsTo(x, a)'
    BY <2>2, <2>3 DEF BelongsTo, clear_of
  <2> QED
    BY <2>4
<1>2. PendingKnown'
  <2> SUFFICES ASSUME NEW v, NEW x, Pending(v, x)' PROVE Known(v, x)'
    BY DEF PendingKnown
  <2>1. Known(v, x)
    BY DEF Clears, PendingKnown
  <2> QED
    BY <2>1 DEF Known
<1>3. ClearsAreIssued'
  BY DEF Clears, ClearsAreIssued
<1>4. Waits'
  <2> SUFFICES ASSUME NEW u \in Threads PROVE Waiting(u)'
    BY DEF Waits
  <2>1. CASE u # t
    <3>1. Waiting(u) /\ Alone(u)' = Alone(u) /\ thread'[u] = thread[u]
      BY <2>1 DEF Clears, Waits, Alone, Whole
    <3> QED
      BY <3>1 DEF Waiting
  <2> QED
    BY <2>1
<1> QED
  BY <1>1, <1>2, <1>3, <1>4 DEF Clears

\* The application frees an allocation.
LEMMA FreeClears ==
  ASSUME Inv, QueueInv, Clears, NEW t \in Threads, NEW a \in Alloc, Free(t, a)
  PROVE  Clears'
<1> DEFINE begun == [at |-> IF allocation[a].clear = 0 THEN "give" ELSE "poll", on |-> a, wait |-> 0]
<1>1. /\ thread[t].at = "idle" /\ allocation[a].state = "held"
      /\ thread' = [thread EXCEPT ![t] = begun]
      /\ UNCHANGED <<allocator_mutex, memory, allocation, next_signal_value, transfers, inflight>>
  BY DEF Free, start, allocator, queue, gpu
<1>2. begun.on = a /\ begun.at = (IF allocation[a].clear = 0 THEN "give" ELSE "poll")
  OBVIOUS
<1> HIDE DEF begun
<1>3. thread'[t] = begun /\ \A u \in Threads \ {t} : thread'[u] = thread[u]
  BY <1>1 DEF Inv, Types
<1>4. \A v, x : Pending(v, x)' <=> Pending(v, x)
  BY <1>1, PendingUntouched
<1>5. ~Whole(t) /\ ~Whole(t)'
  BY <1>1 DEF Inv, WholeChunk, Whole, Freeing
<1>6. ASSUME NEW x, NEW b, Pending(next_signal_value, x)', BelongsTo(x, b), thread'[t].on = b
      PROVE  thread'[t].at \in {"poll", "unqueue"} /\ ~Whole(t)
  <2>1. allocation[a].clear = next_signal_value /\ next_signal_value # 0
    BY <1>2, <1>3, <1>6, MemoryTransfersAssumption
    DEF BelongsTo, QueueInv, QueueTypes, SubmissionsInOrder
  <2> QED
    BY <1>2, <1>3, <1>5, <2>1
<1>7. Waiting(t)'
  <2>1. thread'[t].on = a /\ allocation' = allocation /\ memory' = memory /\ thread'[t].at # "wait"
    BY <1>1, <1>2, <1>3
  <2> SUFFICES ASSUME allocation[a].clear = 0, Alone(t)', NEW v, NEW x, Pending(v, x),
                      x.memory = allocation[a].memory
      PROVE  FALSE
    BY <1>2, <1>3, <1>4, <2>1 DEF Waiting
  <2>2. memory[x.memory].kind = "dedicated"
    BY <1>5, <2>1 DEF Alone
  <2>3. allocation[a].clear = v
    BY <1>1, <2>2 DEF Clears, PendingKnown, Known
  <2>4. v \in Nat /\ semaphore \in Nat /\ semaphore < v
    BY PendingFacts DEF QueueInv, QueueTypes
  <2> QED
    BY <2>3, <2>4
<1>8. thread'[t].at # "fill"
  BY <1>2, <1>3
<1> QED
  BY <1>1, <1>3, <1>4, <1>6, <1>7, <1>8, ClearsMove

\* What a thread frees, and what it has to wait for.
LEMMA RegionFacts ==
  ASSUME Inv, NEW t \in Threads, thread[t].at # "idle"
  PROVE  LET a == thread[t].on IN
         /\ a \in Alloc /\ allocation[a].state = "held" /\ allocation[a] \in Allocation
         /\ allocation[a].memory \in Memory /\ memory[allocation[a].memory] \in MemoryObject
         /\ memory[allocation[a].memory].kind \in {"chunk", "dedicated"}
         /\ Region(t).memory = allocation[a].memory /\ Region(t).clear \in Nat
         /\ Whole(t) => memory[allocation[a].memory].kind = "chunk"
                        /\ Region(t).clear = memory[allocation[a].memory].clear
         /\ ~Whole(t) => /\ Region(t).clear = allocation[a].clear
                         /\ clear_of(Region(t)) = clear_of(allocation[a])
                         /\ Region(t).size = allocation[a].size
                         /\ Region(t).offset = allocation[a].offset
<1> DEFINE a == thread[t].on
           m == allocation[a].memory
<1>1. a \in Alloc /\ allocation[a].state = "held" /\ m \in Memory /\ memory[m].kind # "none"
  BY DEF Inv, BusyThreads, HeldMemory
<1>2. allocation[a] \in Allocation /\ memory[m] \in MemoryObject
  BY <1>1 DEF Inv, Types
<1>3. memory[m].kind \in {"chunk", "dedicated"} /\ memory[m].clear \in Nat /\ allocation[a].clear \in Nat
  BY <1>1, <1>2 DEF MemoryObject, Allocation
<1>4. Whole(t) => memory[m].kind = "chunk"
  BY <1>1 DEF Inv, WholeChunk
<1>5. CASE Whole(t)
  <2>1. Region(t) = [memory |-> m, offset |-> 0, size |-> ChunkSize, clear |-> memory[m].clear]
    BY <1>5 DEF Region
  <2> HIDE DEF a, m
  <2>2. Region(t).memory = m /\ Region(t).clear = memory[m].clear
    BY <2>1
  <2> QED
    BY <1>1, <1>2, <1>3, <1>4, <1>5, <2>2 DEF a, m
<1>6. CASE ~Whole(t)
  <2>1. Region(t) = [memory |-> m, offset |-> allocation[a].offset, size |-> allocation[a].size,
                     clear |-> allocation[a].clear]
    BY <1>6 DEF Region
  <2>2. /\ Region(t).memory = m /\ Region(t).clear = allocation[a].clear
        /\ Region(t).offset = allocation[a].offset /\ Region(t).size = allocation[a].size
    BY <2>1
  <2>3. clear_of(Region(t)) = clear_of(allocation[a])
    BY <2>2 DEF clear_of
  <2> QED
    BY <1>1, <1>2, <1>3, <1>6, <2>2, <2>3
<1> QED
  BY <1>5, <1>6

\* A clear of what a thread frees as a whole is submitted, and awaited by its value.
LEMMA RegionClears ==
  ASSUME Inv, QueueInv, Clears, NEW t \in Threads, thread[t].at # "idle", Alone(t),
         NEW v, NEW x, Pending(v, x), x.memory = allocation[thread[t].on].memory
  PROVE  /\ v <= Region(t).clear
         /\ Whole(t) => v # next_signal_value
         /\ ~Whole(t) => v = Region(t).clear
<1> DEFINE a == thread[t].on
           m == allocation[a].memory
<1>1. Known(v, x) /\ v \in Nat
  BY PendingFacts DEF Clears, PendingKnown
<1>2. CASE Whole(t)
  <2>1. memory[m].kind = "chunk" /\ Region(t).clear = memory[m].clear
    BY <1>2, RegionFacts
  <2>2. v <= memory[m].clear
    BY <1>1, <2>1 DEF Known
  <2>3. ASSUME v = next_signal_value PROVE FALSE
    <3>1. PICK b \in Alloc : BelongsTo(x, b)
      BY <2>3 DEF Clears, QueuedBelong
    <3>2. allocation[b].state = "held" /\ allocation[b].memory = m
      <4>1. x.memory = allocation[b].memory
        BY <3>1 DEF BelongsTo, clear_of
      <4> QED
        BY <3>1, <4>1 DEF BelongsTo
    <3>3. b = a
      BY <3>2, AloneInMemory
    <3> QED
      BY <1>2, <3>1, <3>3 DEF BelongsTo
  <2> QED
    BY <1>2, <2>1, <2>2, <2>3
<1>3. CASE ~Whole(t)
  <2>1. /\ memory[m].kind = "dedicated" /\ Region(t).clear = allocation[a].clear
        /\ a \in Alloc /\ allocation[a].state = "held"
    BY <1>3, RegionFacts DEF Alone
  <2>2. allocation[a].clear = v
    BY <1>1, <2>1 DEF Known
  <2> QED
    BY <1>1, <1>3, <2>1, <2>2
<1> QED
  BY <1>2, <1>3

\* Is the clear done?
LEMMA PollClears ==
  ASSUME Inv, QueueInv, Clears, NEW t \in Threads, Poll(t)
  PROVE  Clears' /\ last_known_value' \in Nat /\ last_known_value' <= semaphore
<1> DEFINE place == IF last_known_value' >= Region(t).clear THEN "give" ELSE "unqueue"
<1>1. /\ thread[t].at = "poll" /\ thread' = [thread EXCEPT ![t].at = place]
      /\ last_known_value' = last_known_value \/ last_known_value' = semaphore
      /\ UNCHANGED <<allocator_mutex, memory, allocation, next_signal_value, transfers, inflight,
                     semaphore>>
  BY DEF Poll, poll, proceed, allocator, queue, gpu
<1>2. /\ last_known_value' \in Nat /\ last_known_value' <= semaphore /\ semaphore \in Nat
      /\ next_signal_value \in Nat /\ semaphore < next_signal_value
  <2>1. /\ last_known_value \in Nat /\ semaphore \in Nat /\ last_known_value <= semaphore
        /\ next_signal_value \in Nat /\ Len(inflight) \in Nat
        /\ Len(inflight) = next_signal_value - 1 - semaphore
    BY DEF QueueInv, QueueTypes, SubmissionsInOrder
  <2> QED
    BY <1>1, <2>1
<1>3. place = "give" \/ place = "unqueue"
  OBVIOUS
<1>4. place = "give" => last_known_value' >= Region(t).clear
  OBVIOUS
<1>5. place = "unqueue" => ~(last_known_value' >= Region(t).clear)
  OBVIOUS
<1> HIDE DEF place
<1>6. /\ thread'[t].at = place /\ thread'[t].on = thread[t].on
      /\ \A u \in Threads \ {t} : thread'[u] = thread[u]
  <2>1. thread[t] \in [at : Places, on : Alloc \cup {NoAlloc}, wait : Int]
    BY DEF Inv, Types
  <2> QED
    BY <1>1, <2>1 DEF Inv, Types
<1>7. \A v, x : Pending(v, x)' <=> Pending(v, x)
  BY <1>1, PendingUntouched
<1>8. ASSUME NEW x, NEW b, Pending(next_signal_value, x)', BelongsTo(x, b), thread'[t].on = b
      PROVE  thread'[t].at \in {"poll", "unqueue"} /\ ~Whole(t)
  <2>1. ~Whole(t) /\ allocation[b].clear = next_signal_value
    BY <1>1, <1>6, <1>8 DEF BelongsTo
  <2>2. Region(t).clear = next_signal_value
    BY <1>1, <1>6, <1>8, <2>1, RegionFacts
  <2> QED
    BY <1>2, <1>3, <1>4, <1>6, <2>1, <2>2
<1>9. Waiting(t)'
  <2> SUFFICES ASSUME place = "give", Alone(t), NEW v, NEW x, Pending(v, x),
                      x.memory = allocation[thread[t].on].memory
      PROVE  FALSE
    <3>1. Alone(t)' = Alone(t)
      BY <1>1, <1>6 DEF Alone, Whole
    <3> QED
      BY <1>1, <1>3, <1>6, <1>7, <3>1 DEF Waiting
  <2>1. v <= Region(t).clear /\ Region(t).clear \in Nat
    BY <1>1, RegionClears, RegionFacts
  <2>2. v \in Nat /\ semaphore < v
    BY PendingFacts
  <2> QED
    BY <1>2, <1>4, <2>1, <2>2
<1>10. thread'[t].at # "fill"
  BY <1>3, <1>6
<1>11. Clears'
  BY <1>1, <1>6, <1>7, <1>8, <1>9, <1>10, ClearsMove
<1> QED
  BY <1>2, <1>11

\* The wait for a clear is over.
LEMMA WaitedClears ==
  ASSUME Inv, QueueInv, Clears, NEW t \in Threads, Waited(t)
  PROVE  Clears' /\ last_known_value' \in Nat /\ last_known_value' <= semaphore
<1>1. /\ thread[t].at = "wait" /\ semaphore >= thread[t].wait
      /\ thread' = [thread EXCEPT ![t].at = "give"]
      /\ last_known_value' = last_known_value \/ last_known_value' = thread[t].wait
      /\ UNCHANGED <<allocator_mutex, memory, allocation, next_signal_value, transfers, inflight,
                     semaphore>>
  BY DEF Waited, proceed, allocator, queue, gpu
<1>2. /\ Alone(t) /\ thread[t].wait \in Nat
      /\ \A v, x : Pending(v, x) /\ x.memory = allocation[thread[t].on].memory => v <= thread[t].wait
  BY <1>1 DEF Clears, Waits, Waiting
<1>3. last_known_value' \in Nat /\ last_known_value' <= semaphore /\ semaphore \in Nat
  BY <1>1, <1>2 DEF QueueInv, QueueTypes, SubmissionsInOrder
<1>4. /\ thread'[t].at = "give" /\ thread'[t].on = thread[t].on
      /\ \A u \in Threads \ {t} : thread'[u] = thread[u]
  <2>1. thread[t] \in [at : Places, on : Alloc \cup {NoAlloc}, wait : Int]
    BY DEF Inv, Types
  <2> QED
    BY <1>1, <2>1 DEF Inv, Types
<1>5. \A v, x : Pending(v, x)' <=> Pending(v, x)
  BY <1>1, PendingUntouched
<1>6. ASSUME NEW x, NEW b, Pending(next_signal_value, x)', BelongsTo(x, b), thread'[t].on = b
      PROVE  thread'[t].at \in {"poll", "unqueue"} /\ ~Whole(t)
  BY <1>1, <1>4, <1>6 DEF BelongsTo
<1>7. Waiting(t)'
  <2> SUFFICES ASSUME NEW v, NEW x, Pending(v, x), x.memory = allocation[thread[t].on].memory
      PROVE  FALSE
    BY <1>1, <1>4, <1>5 DEF Waiting
  <2>1. v <= thread[t].wait /\ v \in Nat /\ semaphore < v
    BY <1>2, PendingFacts
  <2> QED
    BY <1>1, <1>2, <1>3, <2>1
<1>8. thread'[t].at # "fill"
  BY <1>4
<1>9. Clears'
  BY <1>1, <1>4, <1>5, <1>6, <1>7, <1>8, ClearsMove
<1> QED
  BY <1>3, <1>9

\* No clear is in the queue twice.
Once(queued) ==
  \A i, j \in DOMAIN queued : queued[i] \in Clear /\ queued[i] = queued[j] => i = j
QueuedOnce == Once(transfers)

\* The last element takes the place of one that is removed.
LEMMA Replaced ==
  ASSUME NEW S, NEW s \in Seq(S), NEW i \in 1..Len(s)
  PROVE  LET r == SubSeq([s EXCEPT ![i] = Last(s)], 1, Len(s) - 1) IN
         /\ r \in Seq(S) /\ Len(r) = Len(s) - 1 /\ DOMAIN r = 1..(Len(s) - 1)
         /\ \A k \in 1..(Len(s) - 1) : r[k] = IF k = i THEN s[Len(s)] ELSE s[k]
<1> DEFINE e == [s EXCEPT ![i] = Last(s)]
           r == SubSeq(e, 1, Len(s) - 1)
<1>1. Len(s) \in Nat /\ Len(s) >= 1 /\ DOMAIN s = 1..Len(s) /\ Last(s) = s[Len(s)] /\ Last(s) \in S
  BY DEF Last
<1>2. /\ e \in Seq(S) /\ Len(e) = Len(s) /\ DOMAIN e = 1..Len(s)
      /\ \A k \in 1..Len(s) : e[k] = IF k = i THEN Last(s) ELSE s[k]
  BY <1>1
<1> HIDE DEF e
<1>3. /\ r \in Seq(S) /\ Len(r) = Len(s) - 1
      /\ \A k \in 1..(Len(s) - 1) : r[k] = e[k]
  BY <1>1, <1>2
<1>4. DOMAIN r = 1..(Len(s) - 1)
  BY <1>3
<1> HIDE DEF r
<1>5. \A k \in 1..(Len(s) - 1) : r[k] = IF k = i THEN s[Len(s)] ELSE s[k]
  <2>1. \A k \in 1..(Len(s) - 1) : k \in 1..Len(s)
    BY <1>1
  <2> QED
    BY <1>1, <1>2, <1>3, <2>1
<1> QED
  BY <1>3, <1>4, <1>5 DEF r, e

\* What a thread may take out of the queue is a clear.
LEMMA RegionIsClear ==
  ASSUME Inv, NEW t \in Threads, thread[t].at # "idle"
  PROVE  clear_of(Region(t)) \in Clear /\ clear_of(Region(t)).memory = Region(t).memory
         /\ Region(t).size \in Nat /\ Region(t).offset \in Nat
         /\ clear_of(Region(t)).size = Region(t).size
<1> DEFINE a == allocation[thread[t].on]
<1>1. a \in Allocation /\ a.memory \in Memory
  BY RegionFacts
<1>2. Region(t).memory \in Memory /\ Region(t).offset \in Nat /\ Region(t).size \in Nat
  <2>1. a.offset \in Nat /\ a.size \in Nat /\ ChunkSize \in Nat
    BY <1>1, MemoryTransfersAssumption DEF Allocation
  <2> HIDE DEF a
  <2>2. CASE Whole(t)
    <3>1. Region(t) = [memory |-> a.memory, offset |-> 0, size |-> ChunkSize,
                       clear |-> memory[a.memory].clear]
      BY <2>2 DEF Region, a
    <3> QED
      BY <1>1, <2>1, <3>1
  <2>3. CASE ~Whole(t)
    <3>1. Region(t) = [memory |-> a.memory, offset |-> a.offset, size |-> a.size, clear |-> a.clear]
      BY <2>3 DEF Region, a
    <3> QED
      BY <1>1, <2>1, <3>1
  <2> QED
    BY <2>2, <2>3
<1> QED
  BY <1>2 DEF clear_of, Clear

\* The clear is taken out of the queue, or it is not in it.
LEMMA UnqueuePending ==
  ASSUME Inv, QueueInv, QueuedOnce, NEW t \in Threads, Unqueue(t), NEW y, y = clear_of(Region(t))
  PROVE  \/ /\ Pending(next_signal_value, y) /\ transfers' \in Seq(Transfer)
            /\ \A v, x : Pending(v, x)' <=> Pending(v, x) /\ ~(v = next_signal_value /\ x = y)
            /\ \A k \in DOMAIN transfers' : \E j \in DOMAIN transfers : transfers'[k] = transfers[j]
            /\ QueuedOnce' /\ num_bytes_pending' = num_bytes_pending - Region(t).size
            /\ proceed(t, "give")
         \/ /\ ~Pending(next_signal_value, y)
            /\ UNCHANGED <<transfers, num_bytes_pending>>
            /\ IF memory[Region(t).memory].kind = "chunk" /\ ~Whole(t)
               THEN proceed(t, "give")
               ELSE thread' = [thread EXCEPT ![t] =
                      [@ EXCEPT !.at = "wait", !.wait = last_signalled(Region(t).clear)]]
<1> DEFINE queued == {k \in DOMAIN transfers : transfers[k] = y}
<1>0. thread[t].at = "unqueue" /\ UNCHANGED <<next_signal_value, inflight>>
  BY DEF Unqueue, gpu
<1>1. y \in Clear /\ transfers \in Seq(Transfer) /\ DOMAIN transfers = 1..Len(transfers)
      /\ Len(transfers) \in Nat
  BY <1>0, RegionIsClear DEF QueueInv, QueueTypes
<1>2. CASE queued # {}
  <2> DEFINE i == CHOOSE j \in queued : \A k \in queued : j <= k
             r == SubSeq([transfers EXCEPT ![i] = Last(transfers)], 1, Len(transfers) - 1)
  <2>1. /\ transfers' = r /\ num_bytes_pending' = num_bytes_pending - Region(t).size
        /\ proceed(t, "give")
    BY <1>2 DEF Unqueue
  <2>2. PICK j \in queued : TRUE
    BY <1>2
  <2>3. queued = {j}
    BY <1>1, <2>2 DEF QueuedOnce, Once
  <2>4. j <= j
    BY <1>1
  <2> HIDE DEF queued
  <2>5. i \in queued
    BY <2>2, <2>3, <2>4
  <2> HIDE DEF i
  <2>6. i \in 1..Len(transfers) /\ transfers[i] = y
    BY <1>1, <2>5 DEF queued
  <2>7. /\ r \in Seq(Transfer) /\ DOMAIN r = 1..(Len(transfers) - 1)
        /\ \A k \in 1..(Len(transfers) - 1) : r[k] = IF k = i THEN transfers[Len(transfers)] ELSE transfers[k]
    BY <1>1, <2>6, Replaced
  <2> HIDE DEF r
  <2>8. \A k \in 1..(Len(transfers) - 1) :
          k \in 1..Len(transfers) /\ Len(transfers) \in 1..Len(transfers) /\ k # Len(transfers)
    <3>1. \A n \in Nat : \A k \in 1..(n - 1) : k \in 1..n /\ n \in 1..n /\ k # n
      OBVIOUS
    <3> QED
      BY <1>1, <3>1
  <2>9. \A k \in 1..Len(transfers) : transfers[k] = y => k = i
    BY <1>1, <2>6 DEF QueuedOnce, Once
  <2>10. ASSUME NEW x PROVE (\E k \in DOMAIN r : x = r[k])
                              <=> (\E k \in DOMAIN transfers : x = transfers[k]) /\ x # y
    <3>1. ASSUME NEW k \in DOMAIN r, x = r[k]
          PROVE  (\E l \in DOMAIN transfers : x = transfers[l]) /\ x # y
      <4>1. CASE k = i
        <5>1. r[k] = transfers[Len(transfers)] /\ Len(transfers) # i
          BY <2>7, <2>8, <3>1, <4>1
        <5> QED
          BY <1>1, <2>7, <2>8, <2>9, <3>1, <5>1
      <4>2. CASE k # i
        BY <1>1, <2>7, <2>8, <2>9, <3>1, <4>2
      <4> QED
        BY <4>1, <4>2
    <3>2. ASSUME NEW l \in DOMAIN transfers, x = transfers[l], x # y
          PROVE  \E k \in DOMAIN r : x = r[k]
      <4>1. l # i
        BY <2>6, <3>2
      <4>2. CASE l = Len(transfers)
        <5>1. i \in 1..(Len(transfers) - 1)
          <6>1. \A n \in Nat : \A k \in 1..n : k # n => k \in 1..(n - 1)
            OBVIOUS
          <6> QED
            BY <1>1, <2>6, <4>1, <4>2, <6>1
        <5> QED
          BY <2>7, <3>2, <4>2, <5>1
      <4>3. CASE l # Len(transfers)
        <5>1. l \in 1..(Len(transfers) - 1)
          BY <1>1, <4>3
        <5> QED
          BY <2>7, <3>2, <4>1, <5>1
      <4> QED
        BY <4>2, <4>3
    <3> QED
      BY <3>1, <3>2
  <2>11. Pending(next_signal_value, y)
    BY <1>1, <2>6, PendingNext
  <2>12. \A v, x : Pending(v, x)' <=> \/ x \in Clear /\ v = next_signal_value /\ \E k \in DOMAIN r : x = r[k]
                                      \/ x \in Clear /\ InFlight(v, x)
    BY <1>0, <2>1 DEF Pending, ToCome, InFlight
  <2>13. ASSUME NEW x PROVE ~InFlight(next_signal_value, x)
    <3> SUFFICES ASSUME InFlight(next_signal_value, x) PROVE FALSE
      OBVIOUS
    <3>1. next_signal_value < next_signal_value /\ next_signal_value \in Nat
      BY InFlightFacts
    <3> QED
      BY <3>1
  <2>14. \A v, x : Pending(v, x)' <=> Pending(v, x) /\ ~(v = next_signal_value /\ x = y)
    BY <2>10, <2>12, <2>13 DEF Pending, ToCome
  <2>15. \A k \in DOMAIN r : \E j1 \in DOMAIN transfers : r[k] = transfers[j1]
    BY <2>10
  <2>16. \A k, l \in DOMAIN r : r[k] \in Clear /\ r[k] = r[l] => k = l
    <3> SUFFICES ASSUME NEW k \in DOMAIN r, NEW l \in DOMAIN r, r[k] \in Clear, r[k] = r[l]
        PROVE  k = l
      OBVIOUS
    <3> DEFINE from(n) == IF n = i THEN Len(transfers) ELSE n
    <3>1. /\ r[k] = transfers[from(k)] /\ r[l] = transfers[from(l)]
          /\ from(k) \in DOMAIN transfers /\ from(l) \in DOMAIN transfers
      BY <1>1, <2>7, <2>8
    <3>2. from(k) = from(l)
      BY <3>1 DEF QueuedOnce, Once
    <3> QED
      BY <2>7, <2>8, <3>2
  <2>17. QueuedOnce'
    BY <2>1, <2>16 DEF QueuedOnce, Once
  <2> QED
    BY <2>1, <2>7, <2>11, <2>14, <2>15, <2>17
<1>3. CASE queued = {}
  <2>1. ~Pending(next_signal_value, y)
    BY <1>3, PendingNext
  <2>2. /\ UNCHANGED <<transfers, num_bytes_pending>>
        /\ IF memory[Region(t).memory].kind = "chunk" /\ ~Whole(t)
           THEN proceed(t, "give")
           ELSE thread' = [thread EXCEPT ![t] =
                  [@ EXCEPT !.at = "wait", !.wait = last_signalled(Region(t).clear)]]
    BY <1>3 DEF Unqueue
  <2> QED
    BY <2>1, <2>2
<1> QED
  BY <1>2, <1>3

\* A clear is taken out of the queue, or what it stands for is waited for.
LEMMA UnqueueClears ==
  ASSUME Inv, QueueInv, Clears, QueuedOnce, NEW t \in Threads, Unqueue(t)
  PROVE  Clears' /\ QueuedOnce' /\ transfers' \in Seq(Transfer)
<1> DEFINE y == clear_of(Region(t))
           a == thread[t].on
           m == allocation[a].memory
<1>1. /\ thread[t].at = "unqueue"
      /\ UNCHANGED <<allocator_mutex, memory, allocation, next_signal_value, inflight, semaphore>>
  BY DEF Unqueue, allocator, gpu
<1>2. /\ a \in Alloc /\ allocation[a].state = "held" /\ m \in Memory /\ Region(t).memory = m
      /\ memory[m].kind \in {"chunk", "dedicated"} /\ Region(t).clear \in Nat
      /\ Whole(t) => memory[m].kind = "chunk" /\ Region(t).clear = memory[m].clear
      /\ ~Whole(t) => Region(t).clear = allocation[a].clear /\ y = clear_of(allocation[a])
  BY <1>1, RegionFacts
<1>3. y \in Clear /\ y.memory = m
  BY <1>1, <1>2, RegionIsClear
<1>4. next_signal_value \in Nat /\ next_signal_value >= 2 /\ semaphore \in Nat
  BY MemoryTransfersAssumption DEF QueueInv, QueueTypes, SubmissionsInOrder
<1>5. \/ /\ Pending(next_signal_value, y) /\ transfers' \in Seq(Transfer)
         /\ \A v, x : Pending(v, x)' <=> Pending(v, x) /\ ~(v = next_signal_value /\ x = y)
         /\ QueuedOnce' /\ proceed(t, "give")
      \/ /\ ~Pending(next_signal_value, y) /\ UNCHANGED transfers
         /\ IF memory[Region(t).memory].kind = "chunk" /\ ~Whole(t)
            THEN proceed(t, "give")
            ELSE thread' = [thread EXCEPT ![t] =
                   [@ EXCEPT !.at = "wait", !.wait = last_signalled(Region(t).clear)]]
  BY UnqueuePending
<1> HIDE DEF y
<1>6. thread[t] \in [at : Places, on : Alloc \cup {NoAlloc}, wait : Int]
  BY DEF Inv, Types
<1>7. Alone(t) <=> Whole(t) \/ memory[m].kind = "dedicated"
  BY DEF Alone
<1> HIDE DEF m
<1>8. m = allocation[a].memory
  BY DEF m
<1> HIDE DEF a
<1>9. a = thread[t].on
  BY DEF a
<1>10. CASE proceed(t, "give") /\ ~Alone(t)
  <2>1. /\ thread'[t].at = "give" /\ thread'[t].on = a
        /\ \A u \in Threads \ {t} : thread'[u] = thread[u]
    BY <1>6, <1>9, <1>10 DEF Inv, Types, proceed
  <2>2. \A v, x : Pending(v, x)' => Pending(v, x)
    BY <1>1, <1>5, PendingUntouched
  <2>3. ~Alone(t)'
    BY <1>1, <1>9, <1>10, <2>1 DEF Alone, Whole
  <2>4. Waiting(t)'
    BY <2>1, <2>3 DEF Waiting
  <2>5. ASSUME NEW x, NEW b, Pending(next_signal_value, x)', BelongsTo(x, b), thread'[t].on = b
        PROVE  FALSE
    <3>1. b = a /\ x = clear_of(allocation[a]) /\ ~Whole(t)
      BY <1>7, <1>10, <2>1, <2>5 DEF BelongsTo
    <3>2. x = y
      BY <1>2, <3>1
    <3>3. next_signal_value' = next_signal_value
      BY <1>1
    <3>4. Pending(next_signal_value, x)
      BY <2>2, <2>5, <3>3
    <3> QED
      BY <1>5, <2>5, <3>2, <3>3, <3>4
  <2>6. Clears'
    BY <1>1, <2>1, <2>2, <2>4, <2>5, ClearsMove
  <2>7. QueuedOnce' /\ transfers' \in Seq(Transfer)
    BY <1>5 DEF QueuedOnce, Once, QueueInv, QueueTypes
  <2> QED
    BY <2>6, <2>7
<1>11. CASE Alone(t) /\ Pending(next_signal_value, y)
  <2>1. ~Whole(t) /\ Region(t).clear = next_signal_value
    BY <1>1, <1>3, <1>8, <1>9, <1>11, RegionClears
  <2>2. /\ proceed(t, "give") /\ transfers' \in Seq(Transfer) /\ QueuedOnce'
        /\ \A v, x : Pending(v, x)' <=> Pending(v, x) /\ ~(v = next_signal_value /\ x = y)
    BY <1>5, <1>11
  <2>3. /\ thread'[t].at = "give" /\ thread'[t].on = a
        /\ \A u \in Threads \ {t} : thread'[u] = thread[u]
    BY <1>6, <1>9, <2>2 DEF Inv, Types, proceed
  <2>4. ASSUME NEW v, NEW x, Pending(v, x)' PROVE x.memory # m
    <3> SUFFICES ASSUME x.memory = m PROVE FALSE
      OBVIOUS
    <3>1. Pending(v, x) /\ ~(v = next_signal_value /\ x = y)
      BY <2>2, <2>4
    <3>2. v = next_signal_value
      BY <1>1, <1>8, <1>9, <1>11, <2>1, <3>1, RegionClears
    <3>3. PICK b \in Alloc : BelongsTo(x, b)
      BY <3>1, <3>2 DEF Clears, QueuedBelong
    <3>4. allocation[b].state = "held" /\ x = clear_of(allocation[b])
      BY <3>3 DEF BelongsTo
    <3>5. x.memory = allocation[b].memory
      BY <3>4 DEF clear_of
    <3>6. b = a
      BY <1>1, <1>8, <1>9, <1>11, <3>4, <3>5, AloneInMemory
    <3>7. x = y
      BY <1>2, <2>1, <3>4, <3>6
    <3> QED
      BY <3>1, <3>2, <3>7
  <2>5. Waiting(t)'
    BY <1>1, <1>8, <2>3, <2>4 DEF Waiting
  <2>6. ASSUME NEW x, NEW b, Pending(next_signal_value, x)', BelongsTo(x, b), thread'[t].on = b
        PROVE  FALSE
    <3>1. b = a /\ x = clear_of(allocation[b])
      BY <2>3, <2>6 DEF BelongsTo
    <3>2. x.memory = m
      BY <1>8, <3>1 DEF clear_of
    <3> QED
      BY <2>4, <2>6, <3>2
  <2>7. Clears'
    BY <1>1, <2>2, <2>3, <2>5, <2>6, ClearsMove
  <2> QED
    BY <2>2, <2>7
<1>12. CASE Alone(t) /\ ~Pending(next_signal_value, y)
  <2> DEFINE wait == last_signalled(Region(t).clear)
  <2>1. thread' = [thread EXCEPT ![t] = [@ EXCEPT !.at = "wait", !.wait = wait]]
        /\ transfers' = transfers
    BY <1>2, <1>5, <1>7, <1>12
  <2>2. Region(t).clear <= next_signal_value
    BY <1>2 DEF Clears, ClearsAreIssued
  <2>3. /\ wait \in Nat /\ wait < next_signal_value
        /\ Region(t).clear # next_signal_value => wait = Region(t).clear
        /\ Region(t).clear = next_signal_value => wait = next_signal_value - 1
    BY <1>2, <1>4, <2>2 DEF last_signalled
  <2> HIDE DEF wait
  <2>4. /\ thread'[t].at = "wait" /\ thread'[t].on = a /\ thread'[t].wait = wait
        /\ \A u \in Threads \ {t} : thread'[u] = thread[u]
    BY <1>6, <1>9, <2>1 DEF Inv, Types
  <2>5. \A v, x : Pending(v, x)' <=> Pending(v, x)
    BY <1>1, <2>1, PendingUntouched
  <2>6. ASSUME NEW v, NEW x, Pending(v, x), x.memory = m PROVE v <= wait
    <3>1. /\ v <= Region(t).clear /\ v \in Nat
          /\ Whole(t) => v # next_signal_value
          /\ ~Whole(t) => v = Region(t).clear
      BY <1>1, <1>8, <1>9, <1>12, <2>6, RegionClears, PendingFacts
    <3>2. v # next_signal_value
      <4> SUFFICES ASSUME v = next_signal_value PROVE FALSE
        OBVIOUS
      <4>1. ~Whole(t)
        BY <3>1
      <4>2. PICK b \in Alloc : BelongsTo(x, b)
        BY <2>6 DEF Clears, QueuedBelong
      <4>3. allocation[b].state = "held" /\ x = clear_of(allocation[b])
        BY <4>2 DEF BelongsTo
      <4>4. x.memory = allocation[b].memory
        BY <4>3 DEF clear_of
      <4>5. b = a
        BY <1>1, <1>8, <1>9, <1>12, <2>6, <4>3, <4>4, AloneInMemory
      <4>6. x = y
        BY <1>2, <4>1, <4>3, <4>5
      <4> QED
        BY <1>12, <2>6, <4>6
    <3> QED
      BY <1>2, <1>4, <2>2, <2>3, <3>1, <3>2
  <2>7. Alone(t)'
    BY <1>1, <1>8, <1>9, <1>12, <2>4 DEF Alone, Whole
  <2>8. Waiting(t)'
    BY <1>1, <1>8, <2>3, <2>4, <2>5, <2>6, <2>7 DEF Waiting
  <2>9. ASSUME NEW x, NEW b, Pending(next_signal_value, x)', BelongsTo(x, b), thread'[t].on = b
        PROVE  FALSE
    <3>1. b = a /\ x = clear_of(allocation[b])
      BY <2>4, <2>9 DEF BelongsTo
    <3>2. x.memory = m
      BY <1>8, <3>1 DEF clear_of
    <3>3. next_signal_value <= wait
      BY <1>1, <2>5, <2>6, <2>9, <3>2
    <3> QED
      BY <1>4, <2>3, <3>3
  <2>10. Clears'
    BY <1>1, <2>4, <2>5, <2>8, <2>9, ClearsMove
  <2>11. QueuedOnce' /\ transfers' \in Seq(Transfer)
    BY <2>1 DEF QueuedOnce, Once, QueueInv, QueueTypes
  <2> QED
    BY <2>10, <2>11
<1> QED
  BY <1>2, <1>5, <1>7, <1>10, <1>11, <1>12

\* A new allocation has no clear of its own yet.
LEMMA AllocateClears ==
  ASSUME Inv, QueueInv, Clears, NEW t \in Threads, NEW a \in Alloc, NEW m \in Memory,
         Allocates(t, a, m)
  PROVE  Clears'
<1>1. /\ thread[t].at = "idle" /\ allocation[a].state = "none"
      /\ \A b \in Alloc \ {a} : allocation'[b] = allocation[b]
      /\ \A x \in Memory \ {m} : memory'[x] = memory[x]
      /\ allocation'[a].state = "held" /\ allocation'[a].memory = m
      /\ allocation'[a].clear = memory'[m].clear
      /\ memory'[m].kind \in {"chunk", "dedicated"}
      /\ \/ memory[m].kind = "none" /\ memory'[m].clear = 0
         \/ memory[m].kind = "chunk" /\ memory'[m].kind = "chunk" /\ memory'[m].clear = memory[m].clear
      /\ allocator_mutex' = allocator_mutex
      /\ \A u \in Threads \ {t} : thread'[u] = thread[u]
      /\ \/ thread'[t] = thread[t]
         \/ thread'[t].at = "fill" /\ thread'[t].on = a
      /\ UNCHANGED <<transfers, inflight, next_signal_value>>
  BY DEF Allocates, QueueStays
<1>2. \A v, x : Pending(v, x)' <=> Pending(v, x)
  BY <1>1, PendingUntouched
<1>3. next_signal_value \in Nat
  BY DEF QueueInv, QueueTypes
<1>4. \A u \in Threads : thread[u].at # "idle" => thread[u].on # a /\ thread[u].on \in Alloc /\ u # t
  BY <1>1 DEF Inv, BusyThreads
<1>5. \A v, x : Pending(v, x) => /\ x.memory \in Memory /\ Known(v, x)
                                 /\ x.memory = m => memory[m].kind = "chunk"
  <2> SUFFICES ASSUME NEW v, NEW x, Pending(v, x)
      PROVE  x.memory \in Memory /\ Known(v, x) /\ (x.memory = m => memory[m].kind = "chunk")
    OBVIOUS
  <2>1. x.memory \in Memory /\ Known(v, x)
    BY PendingFacts DEF Clears, PendingKnown
  <2> QED
    BY <1>1, <2>1 DEF Known
<1>6. QueuedBelong'
  <2> SUFFICES ASSUME NEW x, Pending(next_signal_value, x) PROVE \E b \in Alloc : BelongsTo(x, b)'
    BY <1>1, <1>2 DEF QueuedBelong
  <2>1. PICK b \in Alloc : BelongsTo(x, b)
    BY DEF Clears, QueuedBelong
  <2>2. b # a /\ allocation'[b] = allocation[b]
    BY <1>1, <2>1 DEF BelongsTo
  <2>3. \A u \in Threads : thread'[u].at # "idle" /\ thread'[u].on = b => thread'[u] = thread[u]
    BY <1>1, <2>2
  <2>4. BelongsTo(x, b)'
    BY <1>1, <2>1, <2>2, <2>3 DEF BelongsTo, Whole, clear_of
  <2> QED
    BY <2>4
<1>7. PendingKnown'
  <2> SUFFICES ASSUME NEW v, NEW x, Pending(v, x) PROVE Known(v, x)'
    BY <1>2 DEF PendingKnown
  <2>1. x.memory \in Memory /\ Known(v, x) /\ (x.memory = m => memory[m].kind = "chunk")
    BY <1>5
  <2>2. CASE x.memory = m
    BY <1>1, <2>1, <2>2 DEF Known
  <2>3. CASE x.memory # m
    BY <1>1, <2>1, <2>3 DEF Known
  <2> QED
    BY <2>2, <2>3
<1>8. \A u \in Threads : thread[u].at # "idle" =>
        /\ allocation'[thread[u].on] = allocation[thread[u].on]
        /\ allocation[thread[u].on].memory \in Memory
        /\ memory'[allocation[thread[u].on].memory].kind = memory[allocation[thread[u].on].memory].kind
  <2> SUFFICES ASSUME NEW u \in Threads, thread[u].at # "idle"
      PROVE  /\ allocation'[thread[u].on] = allocation[thread[u].on]
             /\ allocation[thread[u].on].memory \in Memory
             /\ memory'[allocation[thread[u].on].memory].kind = memory[allocation[thread[u].on].memory].kind
    OBVIOUS
  <2>1. /\ thread[u].on \in Alloc \ {a} /\ allocation[thread[u].on].memory \in Memory
        /\ memory[allocation[thread[u].on].memory].kind # "none"
    BY <1>4 DEF Inv, BusyThreads, HeldMemory
  <2> QED
    BY <1>1, <2>1
<1>9. ClearsAreIssued'
  <2>1. \A x \in Memory : memory'[x].clear <= next_signal_value
    BY <1>1, <1>3 DEF Clears, ClearsAreIssued
  <2>2. \A b \in Alloc : allocation'[b].clear <= next_signal_value
    BY <1>1, <1>3, <2>1 DEF Clears, ClearsAreIssued
  <2>3. ASSUME NEW u \in Threads, thread'[u].at = "fill",
               memory'[allocation'[thread'[u].on].memory].kind = "dedicated"
        PROVE  allocation'[thread'[u].on].clear = 0
    <3>1. CASE thread'[u] = thread[u]
      BY <1>8, <2>3, <3>1 DEF Clears, ClearsAreIssued
    <3>2. CASE thread'[u].on = a
      BY <1>1, <2>3, <3>2
    <3> QED
      BY <1>1, <3>1, <3>2
  <2> QED
    BY <1>1, <2>1, <2>2, <2>3 DEF ClearsAreIssued
<1>10. Waits'
  <2> SUFFICES ASSUME NEW u \in Threads PROVE Waiting(u)'
    BY DEF Waits
  <2>1. CASE thread'[u] = thread[u]
    <3>1. Waiting(u)
      BY DEF Clears, Waits
    <3>2. CASE thread[u].at = "idle"
      BY <2>1, <3>2 DEF Waiting
    <3>3. CASE thread[u].at # "idle"
      <4>1. Alone(u)' = Alone(u) /\ allocation'[thread'[u].on] = allocation[thread[u].on]
        BY <1>1, <1>8, <2>1, <3>3 DEF Alone, Whole
      <4> QED
        BY <1>1, <1>2, <2>1, <3>1, <4>1 DEF Waiting
    <3> QED
      BY <3>2, <3>3
  <2>2. CASE thread'[u].at = "fill"
    BY <2>2 DEF Waiting
  <2> QED
    BY <1>1, <2>1, <2>2
<1> QED
  BY <1>6, <1>7, <1>9, <1>10 DEF Clears

\* An allocation goes when no clear of it is to come.
LEMMA ForgetClears ==
  ASSUME Inv, QueueInv, Clears, NEW t \in Threads, NEW a, NEW m, Forgets(t, a, m)
  PROVE  Clears'
<1>1. /\ thread[t].at = "give" /\ thread[t].on = a /\ allocation[a].memory = m
      /\ a \in Alloc /\ m \in Memory /\ allocation[a].state = "held"
      /\ \A b \in Alloc : allocation'[b] = IF b = a THEN NoAllocation ELSE allocation[b]
      /\ \A u \in Threads : thread'[u] = IF u = t THEN Idle ELSE thread[u]
      /\ \A x \in Memory \ {m} : memory'[x] = memory[x]
      /\ \/ memory'[m] = NoObject /\ Alone(t)
         \/ /\ memory[m].kind = "chunk" /\ memory'[m].kind = "chunk"
            /\ memory'[m].clear = memory[m].clear
      /\ \A u \in Threads : /\ Whole(u)' => Whole(u) /\ u # t
                            /\ Whole(u) => u = t \/ Whole(u)'
      /\ UNCHANGED <<transfers, inflight, next_signal_value>>
  BY DEF Forgets, QueueStays, Alone
<1>2. \A v, x : Pending(v, x)' <=> Pending(v, x)
  BY <1>1, PendingUntouched
<1>3. next_signal_value \in Nat /\ Waiting(t)
  BY DEF QueueInv, QueueTypes, Clears, Waits
<1>4. \A u \in Threads : u # t /\ thread[u].at # "idle" => thread[u].on # a
  BY <1>1 DEF Inv, BusyThreads
<1>5. ASSUME NEW x \in Memory, \/ x # m
                               \/ \E b \in Alloc : b # a /\ allocation[b].state = "held" /\ allocation[b].memory = m
                               \/ \E v, y : Pending(v, y) /\ y.memory = m
      PROVE  memory'[x].kind = memory[x].kind /\ memory'[x].clear = memory[x].clear
  <2>1. CASE x # m
    BY <1>1, <2>1
  <2>2. CASE x = m /\ Alone(t)
    <3>1. \A b \in Alloc : allocation[b].state = "held" /\ allocation[b].memory = m => b = a
      BY <1>1, <2>2, AloneInMemory
    <3>2. \A v, y : Pending(v, y) => y.memory # m
      BY <1>1, <1>3, <2>2 DEF Waiting
    <3> QED
      BY <1>5, <2>2, <3>1, <3>2
  <2> QED
    BY <1>1, <2>1, <2>2
<1>6. QueuedBelong'
  <2> SUFFICES ASSUME NEW x, Pending(next_signal_value, x) PROVE \E b \in Alloc : BelongsTo(x, b)'
    BY <1>1, <1>2 DEF QueuedBelong
  <2>1. PICK b \in Alloc : BelongsTo(x, b)
    BY DEF Clears, QueuedBelong
  <2>2. b # a
    BY <1>1, <2>1 DEF BelongsTo
  <2>3. allocation'[b] = allocation[b]
    BY <1>1, <2>2
  <2>4. \A u \in Threads : thread'[u].at # "idle" => thread'[u] = thread[u]
    BY <1>1 DEF Idle
  <2>5. BelongsTo(x, b)'
    BY <1>1, <2>1, <2>3, <2>4 DEF BelongsTo, clear_of
  <2> QED
    BY <2>5
<1>7. PendingKnown'
  <2> SUFFICES ASSUME NEW v, NEW x, Pending(v, x) PROVE Known(v, x)'
    BY <1>2 DEF PendingKnown
  <2>1. x.memory \in Memory /\ Known(v, x)
    BY PendingFacts DEF Clears, PendingKnown
  <2>2. memory'[x.memory].kind = memory[x.memory].kind /\ memory'[x.memory].clear = memory[x.memory].clear
    BY <1>5, <2>1
  <2>3. \A b \in Alloc : allocation'[b].state = "held" => allocation'[b] = allocation[b]
    BY <1>1 DEF NoAllocation
  <2> QED
    BY <2>1, <2>2, <2>3 DEF Known
<1>8. ASSUME NEW u \in Threads, u # t, thread[u].at # "idle"
      PROVE  /\ allocation'[thread[u].on] = allocation[thread[u].on]
             /\ memory'[allocation[thread[u].on].memory].kind = memory[allocation[thread[u].on].memory].kind
  <2>1. /\ thread[u].on \in Alloc /\ thread[u].on # a /\ allocation[thread[u].on].memory \in Memory
        /\ allocation[thread[u].on].state = "held"
    BY <1>4, <1>8 DEF Inv, BusyThreads, HeldMemory
  <2> QED
    BY <1>1, <1>5, <2>1
<1>9. ClearsAreIssued'
  <2>1. \A x \in Memory : memory'[x].clear <= next_signal_value
    BY <1>1, <1>3 DEF Clears, ClearsAreIssued, NoObject
  <2>2. \A b \in Alloc : allocation'[b].clear <= next_signal_value
    BY <1>1, <1>3 DEF Clears, ClearsAreIssued, NoAllocation
  <2>3. ASSUME NEW u \in Threads, thread'[u].at = "fill",
               memory'[allocation'[thread'[u].on].memory].kind = "dedicated"
        PROVE  allocation'[thread'[u].on].clear = 0
    <3>1. u # t /\ thread'[u] = thread[u]
      BY <1>1, <2>3 DEF Idle
    <3> QED
      BY <1>8, <2>3, <3>1 DEF Clears, ClearsAreIssued
  <2> QED
    BY <1>1, <2>1, <2>2, <2>3 DEF ClearsAreIssued
<1>10. Waits'
  <2> SUFFICES ASSUME NEW u \in Threads PROVE Waiting(u)'
    BY DEF Waits
  <2>1. CASE u = t \/ thread[u].at = "idle"
    BY <1>1, <2>1 DEF Waiting, Idle
  <2>2. CASE u # t /\ thread[u].at # "idle"
    <3>1. Waiting(u) /\ thread'[u] = thread[u]
      BY <1>1, <2>2 DEF Clears, Waits
    <3>2. Whole(u)' <=> Whole(u)
      BY <1>1, <2>2
    <3>3. (Alone(u)' <=> Alone(u)) /\ allocation'[thread'[u].on] = allocation[thread[u].on]
      BY <1>8, <2>2, <3>1, <3>2 DEF Alone
    <3> QED
      BY <1>1, <1>2, <3>1, <3>3 DEF Waiting
  <2> QED
    BY <2>1, <2>2
<1> QED
  BY <1>6, <1>7, <1>9, <1>10 DEF Clears

\* A chunk without owners has no queued clear.
LEMMA TakeWholeClears ==
  ASSUME Inv, QueueInv, Clears, NEW t \in Threads, NEW a, NEW m, TakesWhole(t, a, m)
  PROVE  Clears'
<1>1. /\ thread[t].at = "give" /\ thread[t].on = a /\ allocation[a].memory = m
      /\ a \in Alloc /\ m \in Memory
      /\ allocator_mutex = Nobody /\ allocator_mutex' = t /\ allocation' = allocation
      /\ \A x \in Memory : memory'[x].kind = memory[x].kind /\ memory'[x].clear = memory[x].clear
      /\ memory[m].kind = "chunk"
      /\ \A u \in Threads \ {t} : thread'[u] = thread[u]
      /\ thread'[t].on = a /\ thread'[t].at = (IF memory[m].clear = 0 THEN "give" ELSE "poll")
      /\ UNCHANGED <<transfers, inflight, next_signal_value>>
  BY DEF TakesWhole, QueueStays
<1>2. \A v, x : Pending(v, x)' <=> Pending(v, x)
  BY <1>1, PendingUntouched
<1>3. \A u \in Threads : ~Whole(u) /\ (Whole(u)' <=> u = t)
  BY <1>1, MemoryTransfersAssumption DEF Whole
<1>4. QueuedBelong'
  <2> SUFFICES ASSUME NEW x, Pending(next_signal_value, x) PROVE \E b \in Alloc : BelongsTo(x, b)'
    BY <1>1, <1>2 DEF QueuedBelong
  <2>1. PICK b \in Alloc : BelongsTo(x, b)
    BY DEF Clears, QueuedBelong
  <2>2. b # a
    BY <1>1, <2>1 DEF BelongsTo
  <2>3. \A u \in Threads : thread'[u].at # "idle" /\ thread'[u].on = b => u # t /\ thread'[u] = thread[u]
    BY <1>1, <2>2
  <2>4. BelongsTo(x, b)'
    BY <1>1, <1>3, <2>1, <2>3 DEF BelongsTo, clear_of
  <2> QED
    BY <2>4
<1>5. PendingKnown'
  <2> SUFFICES ASSUME NEW v, NEW x, Pending(v, x) PROVE Known(v, x)'
    BY <1>2 DEF PendingKnown
  <2>1. x.memory \in Memory /\ Known(v, x)
    BY PendingFacts DEF Clears, PendingKnown
  <2> QED
    BY <1>1, <2>1 DEF Known
<1>6. \A u \in Threads \ {t} : thread[u].at # "idle" => allocation[thread[u].on].memory \in Memory
  BY DEF Inv, BusyThreads, HeldMemory
<1>7. ClearsAreIssued'
  <2>1. ASSUME NEW u \in Threads, thread'[u].at = "fill",
               memory'[allocation'[thread'[u].on].memory].kind = "dedicated"
        PROVE  allocation'[thread'[u].on].clear = 0
    <3>1. u # t /\ thread'[u] = thread[u]
      BY <1>1, <2>1
    <3> QED
      BY <1>1, <1>6, <2>1, <3>1 DEF Clears, ClearsAreIssued
  <2> QED
    BY <1>1, <2>1 DEF Clears, ClearsAreIssued
<1>8. Waits'
  <2> SUFFICES ASSUME NEW u \in Threads PROVE Waiting(u)'
    BY DEF Waits
  <2>1. CASE u = t
    <3>1. \A v, x : Pending(v, x) /\ memory[m].clear = 0 => x.memory # m
      <4> SUFFICES ASSUME NEW v, NEW x, Pending(v, x), memory[m].clear = 0, x.memory = m PROVE FALSE
        OBVIOUS
      <4>1. Known(v, x) /\ v \in Nat /\ semaphore \in Nat /\ semaphore < v
        BY PendingFacts DEF Clears, PendingKnown, QueueInv, QueueTypes
      <4>2. v <= 0
        BY <1>1, <4>1 DEF Known
      <4> QED
        BY <4>1, <4>2
    <3> QED
      BY <1>1, <1>2, <2>1, <3>1 DEF Waiting
  <2>2. CASE u # t /\ thread[u].at = "idle"
    BY <1>1, <2>2 DEF Waiting
  <2>3. CASE u # t /\ thread[u].at # "idle"
    <3>1. Waiting(u) /\ thread'[u] = thread[u]
      BY <1>1, <2>3 DEF Clears, Waits
    <3>2. Alone(u)' = Alone(u)
      BY <1>1, <1>3, <1>6, <2>3, <3>1 DEF Alone
    <3> QED
      BY <1>1, <1>2, <3>1, <3>2 DEF Waiting
  <2> QED
    BY <2>1, <2>2, <2>3
<1> QED
  BY <1>4, <1>5, <1>7, <1>8 DEF Clears

\* What a thread is about to clear is not in the queue already, nor is any part of it.
LEMMA FillIsNew ==
  ASSUME Inv, QueueInv, Clears, NEW t \in Threads, thread[t].at = "fill",
         NEW x, Pending(next_signal_value, x)
  PROVE  x # clear_of(allocation[thread[t].on])
<1> DEFINE a == thread[t].on
<1>1. a \in Alloc /\ allocation[a].state = "held"
  BY DEF Inv, BusyThreads
<1>2. PICK b \in Alloc : BelongsTo(x, b)
  BY DEF Clears, QueuedBelong
<1>3. allocation[b].state = "held" /\ x = clear_of(allocation[b]) /\ b # a
  BY <1>2 DEF BelongsTo
<1> SUFFICES ASSUME x = clear_of(allocation[a]) PROVE FALSE
  OBVIOUS
<1>4. /\ allocation[b].memory = allocation[a].memory /\ allocation[b].offset = allocation[a].offset
      /\ allocation[b].size = allocation[a].size
  BY <1>3 DEF clear_of
<1>5. UnitsOf(a) \cap UnitsOf(b) = {}
  BY <1>1, <1>3, <1>4, HeldApart
<1>6. allocation[a].size \in Nat /\ allocation[a].offset \in Nat /\ allocation[a].size > 0
  BY <1>1 DEF Inv, Types, HeldMemory, Allocation
<1>7. allocation[a].offset \in UnitsOf(a)
  BY <1>6 DEF UnitsOf, Units
<1>8. UnitsOf(b) = UnitsOf(a)
  BY <1>4 DEF UnitsOf
<1> QED
  BY <1>5, <1>7, <1>8

\* What vkd3d_memory_transfer_queue_fill_allocation does.
Fills(t, a, m) ==
  /\ thread[t].at = "fill" /\ a = thread[t].on /\ m = allocation[a].memory
  /\ a \in Alloc /\ m \in Memory /\ allocation[a].state = "held"
  /\ \A b \in Alloc : /\ allocation'[b].state = allocation[b].state
                      /\ allocation'[b].memory = allocation[b].memory
                      /\ allocation'[b].offset = allocation[b].offset
                      /\ allocation'[b].size = allocation[b].size
                      /\ allocation'[b].zeroed = allocation[b].zeroed
                      /\ allocation'[b].clear = IF b = a THEN next_signal_value ELSE allocation[b].clear
  /\ \A x \in Memory : /\ memory'[x].kind = memory[x].kind /\ memory'[x].size = memory[x].size
                       /\ memory'[x].ranges = memory[x].ranges
                       /\ memory'[x].clear = IF x = m /\ memory[m].kind = "chunk" THEN next_signal_value
                                             ELSE memory[x].clear
  /\ allocator_mutex' = allocator_mutex
  /\ \A u \in Threads : thread'[u] = IF u = t THEN Idle ELSE thread[u]
  /\ clear_of(allocation[a]) \in Clear /\ clear_of(allocation[a]).memory = m
  /\ clear_of(allocation[a]).size = allocation[a].size
  /\ clear_of(allocation[a]).offset = allocation[a].offset
  /\ execute_transfer_locked(clear_of(allocation[a]))
  /\ UNCHANGED <<content, semaphore, released, tracking, tracker, use, need>>

\* The step that fills an allocation does that.
LEMMA FillEffect ==
  ASSUME Inv, NEW t \in Threads, Fill(t)
  PROVE  Fills(t, thread[t].on, allocation[thread[t].on].memory)
<1> DEFINE a == thread[t].on
           m == allocation[a].memory
           n == next_signal_value
<1>1. /\ thread[t].at = "fill" /\ allocator_mutex' = allocator_mutex
      /\ allocation' = [allocation EXCEPT ![a].clear = n]
      /\ memory' = IF memory[m].kind = "chunk" THEN [memory EXCEPT ![m].clear = n] ELSE memory
      /\ thread' = [thread EXCEPT ![t] = Idle]
      /\ execute_transfer_locked(clear_of(allocation[a]))
      /\ UNCHANGED <<content, semaphore, released, tracking, tracker, use, need>>
  BY DEF Fill, return, work
<1>2. Types
  BY DEF Inv
<1>3. a \in Alloc /\ m \in Memory /\ allocation[a].state = "held"
  BY <1>1 DEF Inv, BusyThreads, HeldMemory
<1>4. /\ allocation[a].offset \in Nat /\ allocation[a].size \in Nat
      /\ clear_of(allocation[a]) = [op |-> "clear", memory |-> m, offset |-> allocation[a].offset,
                                    size |-> allocation[a].size, resource |-> NoResource]
  BY <1>2, <1>3 DEF Types, Allocation, clear_of
<1>5. /\ clear_of(allocation[a]) \in Clear /\ clear_of(allocation[a]).memory = m
      /\ clear_of(allocation[a]).size = allocation[a].size
      /\ clear_of(allocation[a]).offset = allocation[a].offset
  BY <1>3, <1>4 DEF Clear
<1> HIDE DEF a, m, n
<1>6. \A u \in Threads : thread'[u] = IF u = t THEN Idle ELSE thread[u]
  BY <1>1, <1>2 DEF Types
<1>7. \A x \in Memory : /\ memory'[x].kind = memory[x].kind /\ memory'[x].size = memory[x].size
                        /\ memory'[x].ranges = memory[x].ranges
                        /\ memory'[x].clear = IF x = m /\ memory[m].kind = "chunk" THEN n
                                              ELSE memory[x].clear
  <2>1. \A x \in Memory : memory[x] \in MemoryObject
    BY <1>2 DEF Types
  <2>2. CASE memory[m].kind = "chunk"
    BY <1>1, <1>2, <1>3, <2>1, <2>2 DEF Types, MemoryObject
  <2>3. CASE memory[m].kind # "chunk"
    BY <1>1, <2>3
  <2> QED
    BY <2>2, <2>3
<1>8. \A b \in Alloc : /\ allocation'[b].state = allocation[b].state
                       /\ allocation'[b].memory = allocation[b].memory
                       /\ allocation'[b].offset = allocation[b].offset
                       /\ allocation'[b].size = allocation[b].size
                       /\ allocation'[b].zeroed = allocation[b].zeroed
                       /\ allocation'[b].clear = IF b = a THEN n ELSE allocation[b].clear
  BY <1>1, <1>2, <1>3 DEF Types, Allocation
<1>9. a = thread[t].on /\ m = allocation[a].memory /\ n = next_signal_value
  BY DEF a, m, n
<1> QED
  BY <1>1, <1>3, <1>5, <1>6, <1>7, <1>8, <1>9 DEF Fills, a, m, n

\* The clear is to come, and everything that was.
LEMMA FillPending ==
  ASSUME Inv, QueueInv, NEW t, NEW a, NEW m, Fills(t, a, m), NEW y, y = clear_of(allocation[a])
  PROVE  /\ \A v, x : Pending(v, x)' <=> Pending(v, x) \/ (v = next_signal_value /\ x = y)
         /\ next_signal_value' \in Nat /\ next_signal_value <= next_signal_value'
         /\ QueueInv'
<1>1. y \in Clear /\ execute_transfer_locked(y) /\ semaphore' = semaphore
  BY DEF Fills
<1>2. Queues(Append(transfers, y))
  BY <1>1, ExecuteTransferQueues
<1>3. y \in Transfer
  BY <1>1 DEF Transfer
<1> DEFINE q == Append(transfers, y)
<1>4. /\ q \in Seq(Transfer)
      /\ \A v, x : ToCome(q, v, x) <=> Pending(v, x) \/ (v = next_signal_value /\ x = y /\ y \in Clear)
  BY <1>3, ToComeAppended
<1>5. Queues(q)
  BY <1>2
<1> HIDE DEF q
<1>6. /\ \A v, x : Pending(v, x)' <=> ToCome(q, v, x)
      /\ next_signal_value' \in Nat /\ next_signal_value <= next_signal_value'
  BY <1>4, <1>5, QueuesPending
<1>7. QueueInv'
  BY <1>1, <1>4, <1>5, QueuesKeepsQueue
<1> QED
  BY <1>1, <1>4, <1>6, <1>7

\* The clear of a new allocation is queued.
LEMMA FillClears ==
  ASSUME Inv, QueueInv, Clears, NEW t \in Threads, NEW a, NEW m, Fills(t, a, m)
  PROVE  Clears'
<1> DEFINE y == clear_of(allocation[a])
           n == next_signal_value
<1>1. /\ thread[t].at = "fill" /\ a = thread[t].on /\ m = allocation[a].memory
      /\ a \in Alloc /\ m \in Memory /\ allocation[a].state = "held"
      /\ \A b \in Alloc : /\ allocation'[b].state = allocation[b].state
                          /\ allocation'[b].memory = allocation[b].memory
                          /\ allocation'[b].offset = allocation[b].offset
                          /\ allocation'[b].size = allocation[b].size
                          /\ allocation'[b].clear = IF b = a THEN n ELSE allocation[b].clear
      /\ \A x \in Memory : /\ memory'[x].kind = memory[x].kind
                           /\ memory'[x].clear = IF x = m /\ memory[m].kind = "chunk" THEN n
                                                 ELSE memory[x].clear
      /\ allocator_mutex' = allocator_mutex
      /\ \A u \in Threads : thread'[u] = IF u = t THEN Idle ELSE thread[u]
      /\ y \in Clear /\ y.memory = m
  BY DEF Fills
<1>2. /\ \A v, x : Pending(v, x)' <=> Pending(v, x) \/ (v = n /\ x = y)
      /\ next_signal_value' \in Nat /\ n <= next_signal_value'
  BY FillPending
<1>3. n \in Nat /\ semaphore \in Nat
  BY DEF QueueInv, QueueTypes
<1>4. \A b \in Alloc : clear_of(allocation'[b]) = clear_of(allocation[b])
  BY <1>1 DEF clear_of
<1>5. \A u \in Threads : u # t /\ thread[u].at # "idle" => thread[u].on # a /\ thread[u].on \in Alloc
                           /\ allocation[thread[u].on].memory \in Memory
  BY <1>1 DEF Inv, BusyThreads, HeldMemory
<1>6. \A v, x : Pending(v, x) => x.memory \in Memory /\ v \in Nat /\ v <= n /\ semaphore < v /\ Known(v, x)
  BY PendingFacts DEF Clears, PendingKnown
<1>7. \A b \in Alloc : /\ allocation[b].clear \in Nat /\ allocation[b].clear <= n
  BY DEF Inv, Types, Allocation, Clears, ClearsAreIssued
<1>8. \A x \in Memory : memory[x].clear \in Nat /\ memory[x].clear <= n
  BY DEF Inv, Types, MemoryObject, Clears, ClearsAreIssued
<1>9. \A u \in Threads : Whole(u)' <=> Whole(u)
  BY <1>1 DEF Whole
<1>10. PICK z : z = y
  OBVIOUS
<1> HIDE DEF y, n
<1>11. n = next_signal_value
  BY DEF n
<1>12. \A v, x : Pending(v, x)' <=> Pending(v, x) \/ (v = n /\ x = z)
  BY <1>2, <1>10
<1>13. QueuedBelong'
  <2> SUFFICES ASSUME NEW x, Pending(next_signal_value, x)' PROVE \E b \in Alloc : BelongsTo(x, b)'
    BY DEF QueuedBelong
  <2>1. next_signal_value' = n
    <3>1. Pending(next_signal_value', x) \/ next_signal_value' = n
      BY <1>12
    <3>2. next_signal_value' <= n \/ next_signal_value' = n
      BY <1>6, <3>1
    <3> QED
      BY <1>2, <1>3, <3>2
  <2>2. CASE x = z
    <3>1. clear_of(allocation'[a]) = z
      BY <1>1, <1>4, <1>10 DEF y
    <3>2. \A u \in Threads : thread'[u].at # "idle" => thread'[u].on # a
      BY <1>1, <1>5 DEF Idle
    <3>3. allocation'[a].state = "held" /\ allocation'[a].clear = next_signal_value'
      BY <1>1, <2>1
    <3>4. BelongsTo(x, a)'
      <4>1. a' = a
        OBVIOUS
      <4> QED
        BY <2>2, <3>1, <3>2, <3>3 DEF BelongsTo, clear_of
    <3> QED
      BY <1>1, <3>4
  <2>3. CASE x # z
    <3>1. Pending(next_signal_value, x)
      BY <1>11, <1>12, <2>1, <2>3
    <3>2. PICK b \in Alloc : BelongsTo(x, b)
      BY <3>1 DEF Clears, QueuedBelong
    <3>3. b # a
      BY <1>1, <3>2 DEF BelongsTo
    <3>4. \A u \in Threads : thread'[u].at # "idle" => thread'[u] = thread[u]
      BY <1>1 DEF Idle
    <3>5. clear_of(allocation'[b]) = x /\ allocation'[b].state = "held"
          /\ allocation'[b].clear = next_signal_value'
      BY <1>1, <1>4, <1>11, <2>1, <3>2, <3>3 DEF BelongsTo
    <3>6. BelongsTo(x, b)'
      BY <1>9, <3>2, <3>4, <3>5 DEF BelongsTo, clear_of
    <3> QED
      BY <3>6
  <2> QED
    BY <2>2, <2>3
<1>14. PendingKnown'
  <2> SUFFICES ASSUME NEW v, NEW x, Pending(v, x)' PROVE Known(v, x)'
    BY DEF PendingKnown
  <2>1. CASE Pending(v, x)
    <3>1. /\ x.memory \in Memory /\ v \in Nat /\ v <= n /\ semaphore < v
          /\ memory[x.memory].kind # "none"
          /\ memory[x.memory].kind = "chunk" => v <= memory[x.memory].clear
          /\ memory[x.memory].kind = "dedicated" =>
               \A b \in Alloc : allocation[b].state = "held" /\ allocation[b].memory = x.memory
                                  => allocation[b].clear = v
      BY <1>6, <2>1 DEF Known
    <3>2. memory[x.memory].kind = "dedicated" => x.memory # m
      <4> SUFFICES ASSUME memory[x.memory].kind = "dedicated", x.memory = m PROVE FALSE
        OBVIOUS
      <4>1. allocation[a].clear = v
        BY <1>1, <3>1
      <4>2. allocation[a].clear = 0
        BY <1>1 DEF Clears, ClearsAreIssued
      <4> QED
        BY <1>3, <3>1, <4>1, <4>2
    <3>3. memory'[x.memory].kind = "chunk" => v <= memory'[x.memory].clear
      BY <1>1, <3>1
    <3>4. ASSUME memory'[x.memory].kind = "dedicated", NEW b \in Alloc,
                 allocation'[b].state = "held", allocation'[b].memory = x.memory
          PROVE  allocation'[b].clear = v
      <4>1. memory[x.memory].kind = "dedicated" /\ x.memory # m
        BY <1>1, <3>1, <3>2, <3>4
      <4>2. b # a
        BY <1>1, <3>4, <4>1
      <4> QED
        BY <1>1, <3>1, <3>4, <4>1, <4>2
    <3> QED
      BY <1>1, <3>1, <3>3, <3>4 DEF Known
  <2>2. CASE v = n /\ x = z
    <3>1. x.memory = m
      BY <1>1, <1>10, <2>2
    <3>2. memory[m].kind \in {"chunk", "dedicated"}
      BY <1>1 DEF Inv, Types, HeldMemory, MemoryObject
    <3>3. memory[m].kind = "dedicated" =>
            \A b \in Alloc : allocation[b].state = "held" /\ allocation[b].memory = m => b = a
      BY <1>1 DEF Inv, HeldMemory
    <3>4. memory'[m].kind = "chunk" => v <= memory'[m].clear
      BY <1>1, <1>3, <2>2
    <3>5. memory'[m].kind = "dedicated" =>
            \A b \in Alloc : allocation'[b].state = "held" /\ allocation'[b].memory = m
                               => allocation'[b].clear = v
      BY <1>1, <2>2, <3>3
    <3> QED
      BY <1>1, <3>1, <3>2, <3>4, <3>5 DEF Known
  <2> QED
    BY <1>12, <2>1, <2>2
<1>15. ClearsAreIssued'
  <2>1. \A x \in Memory : memory'[x].clear <= next_signal_value'
    BY <1>1, <1>2, <1>3, <1>8
  <2>2. \A b \in Alloc : allocation'[b].clear <= next_signal_value'
    BY <1>1, <1>2, <1>3, <1>7
  <2>3. ASSUME NEW u \in Threads, thread'[u].at = "fill",
               memory'[allocation'[thread'[u].on].memory].kind = "dedicated"
        PROVE  allocation'[thread'[u].on].clear = 0
    <3>1. u # t /\ thread'[u] = thread[u]
      BY <1>1, <2>3 DEF Idle
    <3>2. thread[u].on \in Alloc \ {a} /\ allocation[thread[u].on].memory \in Memory
      BY <1>5, <2>3, <3>1
    <3>3. memory[allocation[thread[u].on].memory].kind = "dedicated"
      BY <1>1, <2>3, <3>1, <3>2
    <3> QED
      BY <1>1, <2>3, <3>1, <3>2, <3>3 DEF Clears, ClearsAreIssued
  <2> QED
    BY <2>1, <2>2, <2>3 DEF ClearsAreIssued
<1>16. Waits'
  <2> SUFFICES ASSUME NEW u \in Threads PROVE Waiting(u)'
    BY DEF Waits
  <2>1. CASE u = t \/ thread[u].at = "idle"
    BY <1>1, <2>1 DEF Waiting, Idle
  <2>2. CASE u # t /\ thread[u].at # "idle"
    <3>1. /\ thread'[u] = thread[u] /\ thread[u].on \in Alloc \ {a} /\ Waiting(u)
          /\ allocation[thread[u].on].memory \in Memory
      BY <1>1, <1>5, <2>2 DEF Clears, Waits
    <3>2. /\ allocation'[thread'[u].on].memory = allocation[thread[u].on].memory
          /\ Alone(u)' <=> Alone(u)
      BY <1>1, <1>9, <3>1 DEF Alone
    <3>3. Alone(u) => allocation[thread[u].on].memory # m
      BY <1>1, <2>2, <3>1, AloneInMemory
    <3>4. thread[u].at = "wait" => thread[u].wait < next_signal_value'
      BY <1>2, <1>3, <1>11, <3>1 DEF Waiting
    <3>5. z.memory = m
      BY <1>1, <1>10
    <3>6. \A v, x : Pending(v, x)' /\ Alone(u) /\ x.memory = allocation[thread[u].on].memory => Pending(v, x)
      BY <1>12, <3>3, <3>5
    <3> QED
      BY <3>1, <3>2, <3>4, <3>6 DEF Waiting
  <2> QED
    BY <2>1, <2>2
<1> QED
  BY <1>13, <1>14, <1>15, <1>16 DEF Clears

-----------------------------------------------------------------------------
(***************************************************************************)
(* Every step leaves the queue and the clears in order.                    *)
(***************************************************************************)

Issued == QueueInv /\ QueuedOnce /\ Clears

\* One more transfer that is not a queued clear.
LEMMA OnceAppended ==
  ASSUME QueueInv, QueuedOnce, NEW y \in Transfer,
         \A i \in DOMAIN transfers : y \in Clear => transfers[i] # y
  PROVE  Once(Append(transfers, y))
<1>1. transfers \in Seq(Transfer)
  BY DEF QueueInv, QueueTypes
<1> DEFINE q == Append(transfers, y)
<1>2. /\ DOMAIN transfers = 1..Len(transfers) /\ DOMAIN q = 1..(Len(transfers) + 1)
      /\ \A i \in 1..Len(transfers) : q[i] = transfers[i]
      /\ q[Len(transfers) + 1] = y /\ Len(transfers) \in Nat
  BY <1>1, Appended
<1> HIDE DEF q
<1>3. \A n \in Nat : \A i \in 1..(n + 1) : i \in 1..n \/ i = n + 1
  OBVIOUS
<1> SUFFICES ASSUME NEW i \in DOMAIN q, NEW j \in DOMAIN q, q[i] \in Clear, q[i] = q[j] PROVE i = j
  BY DEF Once, q
<1>4. CASE i \in 1..Len(transfers) /\ j \in 1..Len(transfers)
  BY <1>2, <1>4 DEF QueuedOnce, Once
<1>5. CASE i \in 1..Len(transfers) /\ j = Len(transfers) + 1
  BY <1>2, <1>5
<1>6. CASE i = Len(transfers) + 1 /\ j \in 1..Len(transfers)
  BY <1>2, <1>6
<1> QED
  BY <1>2, <1>3, <1>4, <1>5, <1>6

\* What is queued once stays so when it is submitted.
LEMMA QueuesOnce ==
  ASSUME NEW q, Once(q), Queues(q)
  PROVE  QueuedOnce'
<1>1. transfers' = q \/ transfers' = <<>>
  BY DEF Queues, Submits
<1>2. CASE transfers' = q
  BY <1>2 DEF QueuedOnce, Once
<1>3. CASE transfers' = <<>>
  BY <1>3 DEF QueuedOnce, Once
<1> QED
  BY <1>1, <1>2, <1>3

\* The allocator is left alone, and transfers q are queued or submitted that add no clear.
Submitting(q) ==
  /\ UNCHANGED <<allocator_mutex, memory, allocation, thread, content, semaphore>>
  /\ q \in Seq(Transfer) /\ Queues(q) /\ Once(q)
  /\ \A v, x : ToCome(q, v, x) <=> Pending(v, x)

\* Such a step keeps the queue and the clears in order.
LEMMA SubmittingIssued ==
  ASSUME Inv, Issued, NEW q, Submitting(q)
  PROVE  /\ Issued' /\ next_signal_value' \in Nat /\ next_signal_value <= next_signal_value'
         /\ next_signal_value' # next_signal_value => transfers' = <<>>
         /\ \A v, x : Pending(v, x)' <=> Pending(v, x)
<1>1. QueueInv /\ QueuedOnce /\ Clears /\ q \in Seq(Transfer) /\ Queues(q) /\ Once(q) /\ semaphore' = semaphore
      /\ UNCHANGED <<allocator_mutex, memory, allocation, thread>>
  BY DEF Issued, Submitting
<1>2. QueueInv' /\ QueuedOnce'
  BY <1>1, QueuesKeepsQueue, QueuesOnce
<1>3. /\ \A v, x : Pending(v, x)' <=> ToCome(q, v, x)
      /\ next_signal_value' \in Nat /\ next_signal_value <= next_signal_value'
      /\ next_signal_value' # next_signal_value => transfers' = <<>>
  BY <1>1, QueuesPending
<1>4. \A v, x : Pending(v, x)' <=> Pending(v, x)
  BY <1>3 DEF Submitting
<1>5. ASSUME NEW x, Pending(next_signal_value, x)' PROVE next_signal_value' = next_signal_value
  <2>1. Pending(next_signal_value', x)
    BY <1>4, <1>5
  <2>2. next_signal_value' <= next_signal_value /\ next_signal_value \in Nat
    BY <1>1, <2>1, PendingFacts DEF QueueInv, QueueTypes
  <2> QED
    BY <1>3, <2>2
<1>6. Clears'
  BY <1>1, <1>3, <1>4, <1>5, ClearsStay
<1> QED
  BY <1>2, <1>3, <1>4, <1>6 DEF Issued

\* d3d12_command_queue_ExecuteCommandLists and vkd3d_memory_transfer_queue_flush.
LEMMA FlushSubmits ==
  ASSUME Inv, Issued, flush_locked(transfers, num_bytes_pending),
         UNCHANGED <<allocator_mutex, memory, allocation, thread, content, semaphore>>
  PROVE  Submitting(transfers)
<1>1. transfers \in Seq(Transfer) /\ Once(transfers)
  BY DEF Issued, QueueInv, QueueTypes, QueuedOnce
<1>2. Queues(transfers)
  BY FlushQueues
<1>3. \A v, x : ToCome(transfers, v, x) <=> Pending(v, x)
  BY DEF Pending
<1> QED
  BY <1>1, <1>2, <1>3 DEF Submitting

\* vkd3d_memory_transfer_queue_write_subresource queues no clear.
LEMMA WriteSubmits ==
  ASSUME Inv, Issued, NEW t \in Threads, NEW r \in Resource, Write(t, r)
  PROVE  /\ write_of(r) \in SubresourceWrite /\ write_of(r).resource = r /\ write_of(r) \notin Clear
         /\ execute_transfer_locked(write_of(r))
         /\ Submitting(Append(transfers, write_of(r)))
<1>1. /\ UNCHANGED <<allocator_mutex, memory, allocation, thread, content, semaphore>>
      /\ execute_transfer_locked(write_of(r))
  BY DEF Write, allocator
<1> DEFINE y == write_of(r)
<1>2. y \in SubresourceWrite /\ y.op = "write" /\ y.resource = r
  BY DEF write_of, SubresourceWrite
<1>3. y \notin Clear /\ y \in Transfer
  BY <1>2 DEF Clear, Transfer
<1> HIDE DEF y
<1>4. Queues(Append(transfers, y))
  BY <1>1, ExecuteTransferQueues DEF y
<1>5. QueueInv /\ QueuedOnce
  BY DEF Issued
<1>6. Once(Append(transfers, y))
  BY <1>3, <1>5, OnceAppended
<1>7. /\ Append(transfers, y) \in Seq(Transfer)
      /\ \A v, x : ToCome(Append(transfers, y), v, x)
                     <=> Pending(v, x) \/ (v = next_signal_value /\ x = y /\ y \in Clear)
  BY <1>3, <1>5, ToComeAppended
<1>8. Submitting(Append(transfers, y))
  BY <1>1, <1>3, <1>4, <1>6, <1>7 DEF Submitting
<1> QED
  BY <1>1, <1>2, <1>3, <1>8 DEF y

\* A new allocation's clear is queued, or submitted.
LEMMA FillIssued ==
  ASSUME Inv, Issued, NEW t \in Threads, NEW a, NEW m, Fills(t, a, m)
  PROVE  Issued'
<1> DEFINE y == clear_of(allocation[a])
<1>1. QueueInv /\ QueuedOnce /\ Clears
  BY DEF Issued
<1>2. thread[t].at = "fill" /\ a = thread[t].on /\ y \in Clear /\ execute_transfer_locked(y)
  BY DEF Fills
<1>3. y \in Transfer
  BY <1>2 DEF Transfer
<1>4. ASSUME NEW i \in DOMAIN transfers PROVE transfers[i] # y
  <2> SUFFICES ASSUME transfers[i] = y PROVE FALSE
    OBVIOUS
  <2>1. PICK x : x = transfers[i]
    OBVIOUS
  <2>2. Pending(next_signal_value, x)
    BY <1>1, <1>2, <2>1, PendingNext
  <2>3. x # clear_of(allocation[thread[t].on])
    BY <1>1, <1>2, <2>2, FillIsNew
  <2> QED
    BY <1>2, <2>1, <2>3
<1> HIDE DEF y
<1>5. Once(Append(transfers, y)) /\ Queues(Append(transfers, y))
  BY <1>1, <1>2, <1>3, <1>4, OnceAppended, ExecuteTransferQueues
<1> DEFINE q == Append(transfers, y)
<1> HIDE DEF q
<1>6. Once(q) /\ Queues(q)
  BY <1>5 DEF q
<1>7. QueuedOnce'
  BY <1>6, QueuesOnce
<1>8. QueueInv'
  BY <1>1, FillPending
<1>9. Clears'
  BY <1>1, FillClears
<1> QED
  BY <1>7, <1>8, <1>9 DEF Issued

\* The queue stays as it is.
LEMMA StaysIssued ==
  ASSUME Issued, QueueStays
  PROVE  QueueInv' /\ QueuedOnce' /\ \A v, x : Pending(v, x)' <=> Pending(v, x)
<1>1. QueueInv'
  BY DEF Issued, QueueInv, QueueTypes, SubmissionsInOrder, Buffer, QueueStays
<1>2. QueuedOnce'
  BY DEF Issued, QueuedOnce, Once, QueueStays
<1>3. \A v, x : Pending(v, x)' <=> Pending(v, x)
  BY PendingUntouched DEF QueueStays
<1> QED
  BY <1>1, <1>2, <1>3

\* Steps of the GPU and the tracker, which touch no clear but those that are done.
LEMMA OthersIssued ==
  ASSUME Inv, Issued, UNCHANGED <<allocator_mutex, memory, allocation, thread, transfers,
                                  next_signal_value, command_buffer_index, inflight, semaphore>>,
         last_known_value' \in Nat, last_known_value' <= semaphore
  PROVE  Issued' /\ \A v, x : Pending(v, x)' <=> Pending(v, x)
<1>1. QueueInv /\ QueuedOnce /\ Clears /\ transfers' \in Seq(Transfer) /\ next_signal_value \in Nat
  BY DEF Issued, QueueInv, QueueTypes
<1>2. QueueInv'
  BY <1>1, PollKeepsQueue
<1>3. QueuedOnce'
  BY <1>1 DEF QueuedOnce, Once
<1>4. \A v, x : Pending(v, x)' <=> Pending(v, x)
  BY PendingUntouched
<1>5. Clears'
  BY <1>1, <1>4, ClearsStay
<1> QED
  BY <1>2, <1>3, <1>4, <1>5 DEF Issued

\* A submission is done, and with it its clears.
LEMMA CompleteIssued ==
  ASSUME Inv, Issued, Complete
  PROVE  Issued'
<1>1. QueueInv /\ QueuedOnce /\ Clears /\ next_signal_value \in Nat
  BY DEF Issued, QueueInv, QueueTypes
<1>2. UNCHANGED <<allocator_mutex, memory, allocation, thread, transfers, next_signal_value>>
  BY DEF Complete, queue
<1>3. \A v, x : Pending(v, x)' => Pending(v, x)
  BY <1>1, CompletePending
<1>4. Clears'
  BY <1>1, <1>2, <1>3, ClearsStay
<1>5. QueueInv' /\ QueuedOnce'
  BY <1>1, <1>2, CompleteKeepsQueue DEF QueuedOnce, Once
<1> QED
  BY <1>4, <1>5 DEF Issued

-----------------------------------------------------------------------------
(***************************************************************************)
(* What memory reads as, and how the GPU uses it.                          *)
(***************************************************************************)

UseTypes ==
  /\ use \in [Alloc -> {"unused", "submitted", "used"}] /\ need \in [Alloc -> Nat]
  /\ content \in [Memory -> [0..(ChunkSize - 1) -> {"junk", "zero", "data"}]]

HeldInside ==
  \A a \in Alloc : allocation[a].state = "held" => UnitsOf(a) \subseteq 0..(ChunkSize - 1)

\* Clear x overwrites a part of allocation a.
Hits(x, a) ==
  x.memory = allocation[a].memory /\ Units(x.offset, x.size) \cap UnitsOf(a) # {}

\* No clear to come overwrites what a command list wrote, and a command list that is
\* submitted waits for all of them.
InTime(a) ==
  \A v, x : Pending(v, x) /\ Hits(x, a) =>
    use[a] # "used" /\ (use[a] = "submitted" => v <= need[a])
Uses ==
  /\ \A a \in Alloc :
       /\ use[a] # "unused" => allocation[a].state = "held"
       /\ need[a] < next_signal_value
       /\ allocation[a].state = "held" => InTime(a)
  /\ \A t \in Threads :
       /\ thread[t].at = "fill" => use[thread[t].on] = "unused"
       /\ thread[t].at # "idle" => use[thread[t].on] # "submitted"

Reads(a, what) == \A u \in UnitsOf(a) : content[allocation[a].memory][u] = what

\* No thread allocates or frees a.
Settled(a) == \A t \in Threads : thread[t].at # "idle" => thread[t].on # a

\* Memory that has to read as zero does so, or its clear is to come.
Zeros ==
  \A a \in Alloc :
    allocation[a].state = "held" /\ allocation[a].zeroed /\ use[a] # "used" /\ Settled(a) =>
      (\E v : Pending(v, clear_of(allocation[a]))) \/ Reads(a, "zero")
Datas == \A a \in Alloc : use[a] = "used" => Reads(a, "data")

Contents == UseTypes /\ HeldInside /\ Uses /\ Zeros /\ Datas

\* An allocation's own clear overwrites it.
LEMMA OwnClearHits ==
  ASSUME Inv, NEW a \in Alloc, allocation[a].state = "held", NEW x, x = clear_of(allocation[a])
  PROVE  Hits(x, a) /\ allocation[a].offset \in UnitsOf(a)
<1>1. /\ allocation[a].size \in Nat /\ allocation[a].offset \in Nat /\ allocation[a].size > 0
      /\ x.memory = allocation[a].memory /\ x.offset = allocation[a].offset
      /\ x.size = allocation[a].size
  BY DEF Inv, Types, HeldMemory, Allocation, clear_of
<1>2. allocation[a].offset \in UnitsOf(a) /\ Units(x.offset, x.size) = UnitsOf(a)
  BY <1>1 DEF UnitsOf, Units
<1> QED
  BY <1>1, <1>2 DEF Hits

\* A clear of one allocation overwrites no other.
LEMMA ClearHitsOne ==
  ASSUME Inv, NEW a \in Alloc, NEW b \in Alloc, allocation[a].state = "held",
         allocation[b].state = "held", NEW x, x = clear_of(allocation[a]), Hits(x, b)
  PROVE  b = a
<1> SUFFICES ASSUME b # a PROVE FALSE
  OBVIOUS
<1>1. /\ x.memory = allocation[a].memory /\ x.offset = allocation[a].offset
      /\ x.size = allocation[a].size
  BY DEF clear_of
<1>2. Units(x.offset, x.size) = UnitsOf(a)
  BY <1>1 DEF UnitsOf
<1>3. UnitsOf(a) \cap UnitsOf(b) = {}
  BY <1>1, HeldApart DEF Hits
<1> QED
  BY <1>2, <1>3 DEF Hits

\* A clear that stays to come is one of an allocation that is settled.
Keeps(a) ==
  (\E v : Pending(v, clear_of(allocation[a]))) => (\E v : Pending(v, clear_of(allocation[a])))'

\* A step that touches neither allocations nor their contents.
LEMMA ContentsStay ==
  ASSUME Contents, UNCHANGED <<content, use, need, allocation>>, next_signal_value \in Nat,
         next_signal_value' \in Nat, next_signal_value <= next_signal_value',
         \A v, x : Pending(v, x)' => Pending(v, x),
         \A t \in Threads : /\ thread'[t].at = "fill" => use[thread'[t].on] = "unused"
                            /\ thread'[t].at # "idle" => use[thread'[t].on] # "submitted",
         \A a \in Alloc : Settled(a)' => Settled(a),
         \A a \in Alloc : Settled(a)' /\ allocation[a].state = "held" => Keeps(a)
  PROVE  Contents'
<1>1. \A a : UnitsOf(a)' = UnitsOf(a) /\ clear_of(allocation'[a]) = clear_of(allocation[a])
  BY DEF UnitsOf
<1>2. \A a, x : Hits(x, a)' <=> Hits(x, a)
  BY <1>1 DEF Hits
<1>3. \A a \in Alloc : need[a] \in Nat
  BY DEF Contents, UseTypes
<1>4. UseTypes' /\ HeldInside'
  BY <1>1 DEF Contents, UseTypes, HeldInside
<1>5. Uses'
  <2>1. ASSUME NEW a \in Alloc
        PROVE  /\ use'[a] # "unused" => allocation'[a].state = "held"
               /\ need'[a] < next_signal_value'
               /\ allocation'[a].state = "held" => InTime(a)'
    <3>1. /\ use[a] # "unused" => allocation[a].state = "held"
          /\ need[a] < next_signal_value
          /\ allocation[a].state = "held" => InTime(a)
      BY DEF Contents, Uses
    <3>2. InTime(a) => InTime(a)'
      BY <1>2 DEF InTime
    <3> QED
      BY <1>3, <3>1, <3>2
  <2> QED
    BY <2>1 DEF Uses
<1>6. \A a, what : Reads(a, what)' <=> Reads(a, what)
  BY <1>1 DEF Reads
<1>7. Zeros'
  <2> SUFFICES ASSUME NEW a \in Alloc, allocation'[a].state = "held", allocation'[a].zeroed,
                      use'[a] # "used", Settled(a)'
      PROVE  (\E v : Pending(v, clear_of(allocation[a])))' \/ Reads(a, "zero")'
    BY DEF Zeros
  <2>1. (\E v : Pending(v, clear_of(allocation[a]))) \/ Reads(a, "zero")
    BY DEF Contents, Zeros
  <2> QED
    BY <1>6, <2>1 DEF Keeps
<1>8. Datas'
  BY <1>6 DEF Contents, Datas
<1> QED
  BY <1>4, <1>5, <1>7, <1>8 DEF Contents

\* No thread holds the mutex, or is at work on it, when an allocation starts.
LEMMA AllocateContents ==
  ASSUME Inv, Inv', Contents, next_signal_value \in Nat, NEW t \in Threads, NEW a \in Alloc,
         NEW m \in Memory, Allocates(t, a, m), UnitsOf(a)' \subseteq 0..(ChunkSize - 1)
  PROVE  Contents'
<1>1. /\ thread[t].at = "idle" /\ allocation[a].state = "none"
      /\ \A b \in Alloc \ {a} : allocation'[b] = allocation[b]
      /\ allocation'[a].state = "held" /\ allocation'[a].memory = m
      /\ \A u \in Threads \ {t} : thread'[u] = thread[u]
      /\ \/ thread'[t] = thread[t] /\ ~allocation'[a].zeroed
         \/ thread'[t].at = "fill" /\ thread'[t].on = a
      /\ UNCHANGED <<transfers, inflight, next_signal_value, semaphore, content, use, need>>
  BY DEF Allocates, QueueStays
<1>2. \A v, x : Pending(v, x)' <=> Pending(v, x)
  BY <1>1, PendingUntouched
<1>3. \A b \in Alloc \ {a} : /\ UnitsOf(b)' = UnitsOf(b)
                             /\ clear_of(allocation'[b]) = clear_of(allocation[b])
  BY <1>1 DEF UnitsOf
<1>4. use[a] = "unused"
  BY <1>1 DEF Contents, Uses
<1>5. UseTypes' /\ HeldInside'
  BY <1>1, <1>3 DEF Contents, UseTypes, HeldInside
<1>6. Uses'
  <2>1. ASSUME NEW b \in Alloc
        PROVE  /\ use'[b] # "unused" => allocation'[b].state = "held"
               /\ need'[b] < next_signal_value'
               /\ allocation'[b].state = "held" => InTime(b)'
    <3>1. CASE b = a
      BY <1>1, <1>4, <3>1 DEF Contents, Uses, InTime
    <3>2. CASE b # a
      <4>1. InTime(b) => InTime(b)'
        BY <1>1, <1>2, <1>3, <3>2 DEF InTime, Hits
      <4> QED
        BY <1>1, <3>2, <4>1 DEF Contents, Uses
    <3> QED
      BY <3>1, <3>2
  <2>2. ASSUME NEW u \in Threads
        PROVE  /\ thread'[u].at = "fill" => use'[thread'[u].on] = "unused"
               /\ thread'[u].at # "idle" => use'[thread'[u].on] # "submitted"
    <3>1. CASE thread'[u] = thread[u]
      BY <1>1, <3>1 DEF Contents, Uses
    <3>2. CASE thread'[u].on = a
      BY <1>1, <1>4, <3>2
    <3> QED
      BY <1>1, <3>1, <3>2
  <2> QED
    BY <2>1, <2>2 DEF Uses
<1>7. Zeros'
  <2> SUFFICES ASSUME NEW b \in Alloc, allocation'[b].state = "held", allocation'[b].zeroed,
                      use'[b] # "used", Settled(b)'
      PROVE  (\E v : Pending(v, clear_of(allocation[b])))' \/ Reads(b, "zero")'
    BY DEF Zeros
  <2>1. b # a
    BY <1>1 DEF Settled
  <2>2. Settled(b)
    BY <1>1 DEF Settled
  <2>3. (\E v : Pending(v, clear_of(allocation[b]))) \/ Reads(b, "zero")
    BY <1>1, <2>1, <2>2 DEF Contents, Zeros
  <2>4. CASE Reads(b, "zero")
    BY <1>1, <1>3, <2>1, <2>4 DEF Reads
  <2>5. CASE \E v : Pending(v, clear_of(allocation[b]))
    <3>1. PICK v, x : x = clear_of(allocation[b]) /\ Pending(v, x)
      BY <2>5
    <3>2. x = clear_of(allocation'[b]) /\ Pending(v, x)'
      BY <1>2, <1>3, <2>1, <3>1
    <3> QED
      BY <3>2
  <2> QED
    BY <2>3, <2>4, <2>5
<1>8. Datas'
  <2> SUFFICES ASSUME NEW b \in Alloc, use'[b] = "used" PROVE Reads(b, "data")'
    BY DEF Datas
  <2>1. b # a /\ Reads(b, "data")
    BY <1>1, <1>4 DEF Contents, Datas
  <2> QED
    BY <1>1, <1>3, <2>1 DEF Reads
<1> QED
  BY <1>5, <1>6, <1>7, <1>8 DEF Contents

\* The clear of a new allocation is to come.
LEMMA FillContents ==
  ASSUME Inv, Issued, Contents, NEW t \in Threads, NEW a, NEW m, Fills(t, a, m)
  PROVE  Contents'
<1>0. QueueInv /\ next_signal_value \in Nat
  BY DEF Issued, QueueInv, QueueTypes
<1>1. /\ thread[t].at = "fill" /\ a = thread[t].on /\ m = allocation[a].memory
      /\ a \in Alloc /\ m \in Memory /\ allocation[a].state = "held"
      /\ \A b \in Alloc : /\ allocation'[b].state = allocation[b].state
                          /\ allocation'[b].memory = allocation[b].memory
                          /\ allocation'[b].offset = allocation[b].offset
                          /\ allocation'[b].size = allocation[b].size
                          /\ allocation'[b].zeroed = allocation[b].zeroed
      /\ \A u \in Threads : thread'[u] = IF u = t THEN Idle ELSE thread[u]
      /\ UNCHANGED <<content, use, need>>
  BY DEF Fills
<1>2. PICK y : y = clear_of(allocation[a])
  OBVIOUS
<1>3. /\ \A v, x : Pending(v, x)' <=> Pending(v, x) \/ (v = next_signal_value /\ x = y)
      /\ next_signal_value' \in Nat /\ next_signal_value <= next_signal_value'
  BY <1>0, <1>2, FillPending
<1>4. \A b \in Alloc : UnitsOf(b)' = UnitsOf(b) /\ clear_of(allocation'[b]) = clear_of(allocation[b])
  BY <1>1 DEF UnitsOf, clear_of
<1>5. \A x : \A b \in Alloc : Hits(x, b)' <=> Hits(x, b)
  BY <1>1, <1>4 DEF Hits
<1>6. use[a] = "unused"
  BY <1>1 DEF Contents, Uses
<1>7. UseTypes' /\ HeldInside'
  BY <1>1, <1>4 DEF Contents, UseTypes, HeldInside
<1>8. Uses'
  <2>1. ASSUME NEW b \in Alloc
        PROVE  /\ use'[b] # "unused" => allocation'[b].state = "held"
               /\ need'[b] < next_signal_value'
               /\ allocation'[b].state = "held" => InTime(b)'
    <3>1. /\ use[b] # "unused" => allocation[b].state = "held"
          /\ need[b] < next_signal_value /\ need[b] \in Nat
          /\ allocation[b].state = "held" => InTime(b)
      BY DEF Contents, Uses, UseTypes
    <3>2. ASSUME allocation[b].state = "held", NEW v, NEW x, Pending(v, x)', Hits(x, b)
          PROVE  use[b] # "used" /\ (use[b] = "submitted" => v <= need[b])
      <4>1. CASE Pending(v, x)
        BY <3>1, <3>2, <4>1 DEF InTime
      <4>2. CASE x = y
        <5>1. b = a
          BY <1>1, <1>2, <3>2, <4>2, ClearHitsOne
        <5> QED
          BY <1>6, <5>1
      <4> QED
        BY <1>3, <3>2, <4>1, <4>2
    <3>3. allocation[b].state = "held" => InTime(b)'
      BY <1>1, <1>5, <3>2 DEF InTime
    <3> QED
      BY <1>0, <1>1, <1>3, <3>1, <3>3
  <2>2. ASSUME NEW u \in Threads
        PROVE  /\ thread'[u].at = "fill" => use'[thread'[u].on] = "unused"
               /\ thread'[u].at # "idle" => use'[thread'[u].on] # "submitted"
    BY <1>1 DEF Contents, Uses, Idle
  <2> QED
    BY <2>1, <2>2 DEF Uses
<1>9. Zeros'
  <2> SUFFICES ASSUME NEW b \in Alloc, allocation'[b].state = "held", allocation'[b].zeroed,
                      use'[b] # "used", Settled(b)'
      PROVE  (\E v : Pending(v, clear_of(allocation[b])))' \/ Reads(b, "zero")'
    BY DEF Zeros
  <2>1. CASE b = a
    <3>1. y = clear_of(allocation'[b]) /\ Pending(next_signal_value, y) \in BOOLEAN
      BY <1>1, <1>2, <1>4, <2>1 DEF Pending, ToCome
    <3>2. PICK v : v = next_signal_value
      OBVIOUS
    <3>3. Pending(v, y)'
      BY <1>3, <3>2
    <3> QED
      BY <3>1, <3>3
  <2>2. CASE b # a
    <3>1. Settled(b)
      BY <1>1, <2>2 DEF Settled, Idle
    <3>2. (\E v : Pending(v, clear_of(allocation[b]))) \/ Reads(b, "zero")
      BY <1>1, <2>2, <3>1 DEF Contents, Zeros
    <3>3. CASE Reads(b, "zero")
      BY <1>1, <1>4, <3>3 DEF Reads
    <3>4. CASE \E v : Pending(v, clear_of(allocation[b]))
      <4>1. PICK v, x : x = clear_of(allocation[b]) /\ Pending(v, x)
        BY <3>4
      <4>2. x = clear_of(allocation'[b]) /\ Pending(v, x)'
        BY <1>3, <1>4, <4>1
      <4> QED
        BY <4>2
    <3> QED
      BY <3>2, <3>3, <3>4
  <2> QED
    BY <2>1, <2>2
<1>10. Datas'
  BY <1>1, <1>4 DEF Contents, Datas, Reads
<1> QED
  BY <1>7, <1>8, <1>9, <1>10 DEF Contents

\* What a freed allocation's memory is filled with then is no other's.
LEMMA ForgetReads ==
  ASSUME Inv, Contents, NEW t \in Threads, NEW a, NEW m, Forgets(t, a, m),
         NEW b \in Alloc, b # a, allocation[b].state = "held", NEW what, Reads(b, what)
  PROVE  Reads(b, what)'
<1>1. /\ thread[t].at = "give" /\ thread[t].on = a /\ allocation[a].memory = m
      /\ a \in Alloc /\ m \in Memory /\ allocation[a].state = "held"
      /\ allocation'[b] = allocation[b]
      /\ content' = [content EXCEPT ![m] =
           [u \in DOMAIN @ |-> IF u \in Units(Region(t).offset, Region(t).size) THEN "junk" ELSE @[u]]]
  BY DEF Forgets
<1>2. /\ content \in [Memory -> [0..(ChunkSize - 1) -> {"junk", "zero", "data"}]]
      /\ UnitsOf(b) \subseteq 0..(ChunkSize - 1)
      /\ allocation[b].memory \in Memory
  BY DEF Contents, UseTypes, HeldInside, Inv, HeldMemory
<1>3. UnitsOf(b)' = UnitsOf(b)
  BY <1>1 DEF UnitsOf
<1>4. CASE allocation[b].memory # m
  <2>1. content'[allocation[b].memory] = content[allocation[b].memory]
    BY <1>1, <1>2, <1>4
  <2> QED
    BY <1>1, <1>3, <2>1 DEF Reads
<1>5. CASE allocation[b].memory = m
  <2>1. ~Alone(t)
    BY <1>1, <1>5, AloneInMemory
  <2>2. Region(t).offset = allocation[a].offset /\ Region(t).size = allocation[a].size
    BY <1>1, <2>1, RegionFacts DEF Alone
  <2>3. Units(Region(t).offset, Region(t).size) \cap UnitsOf(b) = {}
    <3>1. UnitsOf(a) \cap UnitsOf(b) = {}
      BY <1>1, <1>5, HeldApart
    <3> QED
      BY <2>2, <3>1 DEF UnitsOf
  <2> DEFINE junk == Units(Region(t).offset, Region(t).size)
  <2> HIDE DEF junk
  <2>4. content'[m] = [u \in DOMAIN content[m] |-> IF u \in junk THEN "junk" ELSE content[m][u]]
    BY <1>1, <1>2 DEF junk
  <2>5. \A u \in UnitsOf(b) : u \notin junk /\ u \in DOMAIN content[m]
    BY <1>1, <1>2, <2>3 DEF junk
  <2>6. \A u \in UnitsOf(b) : content'[m][u] = content[m][u]
    BY <2>4, <2>5
  <2> QED
    BY <1>1, <1>3, <1>5, <2>6 DEF Reads
<1> QED
  BY <1>4, <1>5

\* An allocation is forgotten.
LEMMA ForgetContents ==
  ASSUME Inv, Issued, Contents, NEW t \in Threads, NEW a, NEW m, Forgets(t, a, m)
  PROVE  Contents'
<1>1. /\ thread[t].at = "give" /\ thread[t].on = a /\ allocation[a].memory = m
      /\ a \in Alloc /\ m \in Memory /\ allocation[a].state = "held"
      /\ \A b \in Alloc : allocation'[b] = IF b = a THEN NoAllocation ELSE allocation[b]
      /\ \A u \in Threads : thread'[u] = IF u = t THEN Idle ELSE thread[u]
      /\ content' = [content EXCEPT ![m] =
           [u \in DOMAIN @ |-> IF u \in Units(Region(t).offset, Region(t).size) THEN "junk" ELSE @[u]]]
      /\ use' = [use EXCEPT ![a] = "unused"] /\ need' = [need EXCEPT ![a] = 0]
      /\ UNCHANGED <<transfers, inflight, next_signal_value, semaphore>>
  BY DEF Forgets, QueueStays
<1>2. \A v, x : Pending(v, x)' <=> Pending(v, x)
  BY <1>1, PendingUntouched
<1>3. next_signal_value \in Nat /\ next_signal_value > 0
  BY MemoryTransfersAssumption DEF Issued, QueueInv, QueueTypes, SubmissionsInOrder
<1>4. \A b \in Alloc \ {a} : UnitsOf(b)' = UnitsOf(b) /\ allocation'[b] = allocation[b]
  BY <1>1 DEF UnitsOf
<1>5. \A b \in Alloc : /\ use'[b] = (IF b = a THEN "unused" ELSE use[b])
                       /\ need'[b] = (IF b = a THEN 0 ELSE need[b])
  BY <1>1 DEF Contents, UseTypes
<1>6. allocation'[a].state = "none"
  BY <1>1 DEF NoAllocation
<1>7. UseTypes' /\ HeldInside'
  <2>1. /\ use \in [Alloc -> {"unused", "submitted", "used"}] /\ need \in [Alloc -> Nat]
        /\ content \in [Memory -> [0..(ChunkSize - 1) -> {"junk", "zero", "data"}]]
    BY DEF Contents, UseTypes
  <2>2. use' \in [Alloc -> {"unused", "submitted", "used"}] /\ need' \in [Alloc -> Nat]
    BY <1>1, <2>1
  <2> DEFINE junk == Units(Region(t).offset, Region(t).size)
  <2> HIDE DEF junk
  <2>3. content' = [content EXCEPT ![m] = [u \in DOMAIN content[m] |-> IF u \in junk THEN "junk" ELSE content[m][u]]]
    BY <1>1, <2>1 DEF junk
  <2>4. [u \in DOMAIN content[m] |-> IF u \in junk THEN "junk" ELSE content[m][u]]
          \in [0..(ChunkSize - 1) -> {"junk", "zero", "data"}]
    BY <1>1, <2>1
  <2>5. content' \in [Memory -> [0..(ChunkSize - 1) -> {"junk", "zero", "data"}]]
    BY <2>1, <2>3, <2>4
  <2> QED
    BY <1>4, <1>6, <2>2, <2>5 DEF UseTypes, Contents, HeldInside
<1>8. Uses'
  <2>1. ASSUME NEW b \in Alloc
        PROVE  /\ use'[b] # "unused" => allocation'[b].state = "held"
               /\ need'[b] < next_signal_value'
               /\ allocation'[b].state = "held" => InTime(b)'
    <3>1. CASE b = a
      BY <1>1, <1>3, <1>5, <1>6, <3>1
    <3>2. CASE b # a
      <4>1. InTime(b) => InTime(b)'
        BY <1>2, <1>4, <1>5, <3>2 DEF InTime, Hits
      <4> QED
        BY <1>1, <1>4, <1>5, <3>2, <4>1 DEF Contents, Uses
    <3> QED
      BY <3>1, <3>2
  <2>2. ASSUME NEW u \in Threads
        PROVE  /\ thread'[u].at = "fill" => use'[thread'[u].on] = "unused"
               /\ thread'[u].at # "idle" => use'[thread'[u].on] # "submitted"
    <3>1. CASE u = t
      BY <1>1, <3>1 DEF Idle
    <3>2. CASE u # t /\ thread[u].at # "idle"
      <4>1. thread'[u] = thread[u] /\ thread[u].on \in Alloc \ {a}
        BY <1>1, <3>2 DEF Inv, BusyThreads
      <4> QED
        BY <1>5, <4>1 DEF Contents, Uses
    <3>3. CASE u # t /\ thread[u].at = "idle"
      BY <1>1, <3>3
    <3> QED
      BY <3>1, <3>2, <3>3
  <2> QED
    BY <2>1, <2>2 DEF Uses
<1>9. Zeros'
  <2> SUFFICES ASSUME NEW b \in Alloc, allocation'[b].state = "held", allocation'[b].zeroed,
                      use'[b] # "used", Settled(b)'
      PROVE  (\E v : Pending(v, clear_of(allocation[b])))' \/ Reads(b, "zero")'
    BY DEF Zeros
  <2>1. b # a /\ allocation'[b] = allocation[b] /\ use[b] # "used"
    BY <1>4, <1>5, <1>6
  <2>2. Settled(b)
    BY <1>1, <2>1 DEF Settled
  <2>3. (\E v : Pending(v, clear_of(allocation[b]))) \/ Reads(b, "zero")
    BY <2>1, <2>2 DEF Contents, Zeros
  <2>4. CASE Reads(b, "zero")
    BY <2>1, <2>4, ForgetReads
  <2>5. CASE \E v : Pending(v, clear_of(allocation[b]))
    <3>1. PICK v, x : x = clear_of(allocation[b]) /\ Pending(v, x)
      BY <2>5
    <3>2. x = clear_of(allocation'[b]) /\ Pending(v, x)'
      BY <1>2, <2>1, <3>1
    <3> QED
      BY <3>2
  <2> QED
    BY <2>3, <2>4, <2>5
<1>10. Datas'
  <2> SUFFICES ASSUME NEW b \in Alloc, use'[b] = "used" PROVE Reads(b, "data")'
    BY DEF Datas
  <2>1. b # a /\ use[b] = "used"
    BY <1>5
  <2>2. Reads(b, "data") /\ allocation[b].state = "held"
    BY <2>1 DEF Contents, Datas, Uses
  <2> QED
    BY <2>1, <2>2, ForgetReads
<1> QED
  BY <1>7, <1>8, <1>9, <1>10 DEF Contents

\* Free, vkd3d_memory_transfer_queue_wait_allocation and the destruction of a chunk.
LEMMA FreeingContents ==
  ASSUME Contents, next_signal_value \in Nat, UNCHANGED <<content, use, need, allocation, next_signal_value>>,
         \A v, x : Pending(v, x)' => Pending(v, x), NEW t \in Threads,
         \A u \in Threads \ {t} : thread'[u] = thread[u],
         thread'[t].at # "fill", use[thread'[t].on] # "submitted",
         thread[t].at # "idle" => thread'[t].at # "idle" /\ thread'[t].on = thread[t].on,
         \A a \in Alloc : Settled(a)' /\ allocation[a].state = "held" => Keeps(a)
  PROVE  Contents'
<1>1. ASSUME NEW u \in Threads
      PROVE  /\ thread'[u].at = "fill" => use[thread'[u].on] = "unused"
             /\ thread'[u].at # "idle" => use[thread'[u].on] # "submitted"
  <2>1. CASE u = t
    BY <2>1
  <2>2. CASE u # t
    BY <2>2 DEF Contents, Uses
  <2> QED
    BY <2>1, <2>2
<1>2. \A a \in Alloc : Settled(a)' => Settled(a)
  BY DEF Settled
<1> QED
  BY <1>1, <1>2, ContentsStay

\* No clear is removed.
LEMMA AllKept ==
  ASSUME \A v, x : Pending(v, x)' <=> Pending(v, x), allocation' = allocation
  PROVE  \A a \in Alloc : Keeps(a)
<1> SUFFICES ASSUME NEW a \in Alloc, \E v : Pending(v, clear_of(allocation[a]))
    PROVE  (\E v : Pending(v, clear_of(allocation[a])))'
  BY DEF Keeps
<1>1. PICK v, x : x = clear_of(allocation[a]) /\ Pending(v, x)
  OBVIOUS
<1>2. x = clear_of(allocation'[a]) /\ Pending(v, x)'
  BY <1>1
<1> QED
  BY <1>2

\* Who takes a clear out of the queue takes out the one of an allocation that is freed.
LEMMA UnqueueKeeps ==
  ASSUME Inv, Issued, NEW t \in Threads, Unqueue(t), NEW b \in Alloc, Settled(b)',
         allocation[b].state = "held", thread'[t].at # "idle", thread'[t].on = thread[t].on
  PROVE  Keeps(b)
<1> DEFINE a == thread[t].on
<1>1. thread[t].at = "unqueue" /\ allocation' = allocation
  BY DEF Unqueue, allocator
<1>2. b # a /\ a \in Alloc /\ allocation[a].state = "held"
  BY <1>1 DEF Settled, Inv, BusyThreads
<1>3. PICK y : y = clear_of(Region(t))
  OBVIOUS
<1>4. UNCHANGED <<transfers, inflight, next_signal_value>>
      \/ \A v, x : Pending(v, x)' <=> Pending(v, x) /\ ~(v = next_signal_value /\ x = y)
  <2>1. QueueInv /\ QueuedOnce /\ UNCHANGED <<inflight, next_signal_value>>
    BY DEF Issued, Unqueue, gpu
  <2> QED
    BY <1>3, <2>1, UnqueuePending
<1>5. \A v, x : x # y => (Pending(v, x)' <=> Pending(v, x))
  BY <1>4, PendingUntouched
<1>6. clear_of(allocation[b]) # y
  <2> SUFFICES ASSUME clear_of(allocation[b]) = y PROVE FALSE
    OBVIOUS
  <2>1. y.memory = Region(t).memory /\ Region(t).memory = allocation[a].memory
    BY <1>1, <1>3, RegionIsClear, RegionFacts
  <2>2. allocation[b].memory = allocation[a].memory
    BY <2>1 DEF clear_of
  <2>3. ~Alone(t)
    BY <1>1, <1>2, <2>2, AloneInMemory
  <2>4. y = clear_of(allocation[a])
    BY <1>1, <1>3, <2>3, RegionFacts DEF Alone
  <2>5. Hits(y, b)
    BY OwnClearHits
  <2> QED
    BY <1>2, <2>4, <2>5, ClearHitsOne
<1> SUFFICES ASSUME \E v : Pending(v, clear_of(allocation[b]))
    PROVE  (\E v : Pending(v, clear_of(allocation[b])))'
  BY DEF Keeps
<1>7. PICK v, x : x = clear_of(allocation[b]) /\ Pending(v, x)
  OBVIOUS
<1>8. x = clear_of(allocation'[b]) /\ Pending(v, x)'
  BY <1>1, <1>5, <1>6, <1>7
<1> QED
  BY <1>8

\* A command list is submitted after all clears that are queued.
LEMMA ExecuteContents ==
  ASSUME Inv, Issued, Contents, NEW t \in Threads, NEW a \in Alloc, Execute(t, a)
  PROVE  Contents'
<1>1. /\ thread[t].at = "idle" /\ allocation[a].state = "held" /\ use[a] = "unused"
      /\ \A u \in Threads : thread[u].at # "idle" => thread[u].on # a
      /\ flush_locked(transfers, num_bytes_pending)
      /\ use' = [use EXCEPT ![a] = "submitted"]
      /\ need' = [need EXCEPT ![a] = next_signal_value' - 1]
      /\ UNCHANGED <<allocator_mutex, memory, allocation, thread, content, semaphore>>
  BY DEF Execute, allocator, add_wait_to_all_queues
<1>2. Submitting(transfers)
  BY <1>1, FlushSubmits
<1>3. /\ next_signal_value' \in Nat /\ next_signal_value <= next_signal_value'
      /\ \A v, x : Pending(v, x)' <=> Pending(v, x)
  BY <1>2, SubmittingIssued
<1>4. QueueInv /\ next_signal_value \in Nat /\ next_signal_value > 0
  BY MemoryTransfersAssumption DEF Issued, QueueInv, QueueTypes, SubmissionsInOrder
<1>5. \A v, x : Pending(v, x) => v \in Nat /\ v <= next_signal_value' - 1
  <2> SUFFICES ASSUME NEW v, NEW x, Pending(v, x) PROVE v \in Nat /\ v <= next_signal_value' - 1
    OBVIOUS
  <2>1. v \in Nat /\ v <= next_signal_value
    BY <1>4, PendingFacts
  <2>2. CASE transfers = <<>> /\ Unsubmitted
    <3>1. InFlight(v, x)
      BY <2>2 DEF Pending, ToCome
    <3>2. v < next_signal_value
      BY <1>4, <3>1, InFlightFacts
    <3> QED
      BY <1>4, <2>1, <2>2, <3>2 DEF Unsubmitted
  <2>3. CASE Submits(transfers)
    BY <1>4, <2>1, <2>3 DEF Submits
  <2> QED
    BY <1>1, <2>2, <2>3, FlushCases
<1>6. \A b \in Alloc : /\ use'[b] = (IF b = a THEN "submitted" ELSE use[b])
                       /\ need'[b] = (IF b = a THEN next_signal_value' - 1 ELSE need[b])
  BY <1>1 DEF Contents, UseTypes
<1>7. next_signal_value' - 1 \in Nat
  <2>1. \A p, q \in Nat : p > 0 /\ p <= q => q - 1 \in Nat
    OBVIOUS
  <2> QED
    BY <1>3, <1>4, <2>1
<1>8. \A b : UnitsOf(b)' = UnitsOf(b) /\ clear_of(allocation'[b]) = clear_of(allocation[b])
  BY <1>1 DEF UnitsOf
<1>9. UseTypes' /\ HeldInside'
  BY <1>1, <1>7, <1>8 DEF Contents, UseTypes, HeldInside
<1>10. Uses'
  <2>1. ASSUME NEW b \in Alloc
        PROVE  /\ use'[b] # "unused" => allocation'[b].state = "held"
               /\ need'[b] < next_signal_value'
               /\ allocation'[b].state = "held" => InTime(b)'
    <3>1. CASE b = a
      <4>1. InTime(a)'
        BY <1>3, <1>5, <1>6 DEF InTime
      <4>2. use'[a] = "submitted" /\ need'[a] = next_signal_value' - 1
        BY <1>6
      <4>3. need'[a] < next_signal_value'
        <5>1. \A n \in Nat : n - 1 < n
          OBVIOUS
        <5>2. next_signal_value' - 1 < next_signal_value'
          BY <1>3, <5>1
        <5> QED
          BY <4>2, <5>2
      <4>4. allocation'[a].state = "held"
        BY <1>1
      <4> QED
        BY <3>1, <4>1, <4>3, <4>4
    <3>2. CASE b # a
      <4>1. InTime(b) => InTime(b)'
        BY <1>1, <1>3, <1>6, <1>8, <3>2 DEF InTime, Hits
      <4>2. need[b] \in Nat
        BY DEF Contents, UseTypes
      <4> QED
        BY <1>1, <1>3, <1>4, <1>6, <3>2, <4>1, <4>2 DEF Contents, Uses
    <3> QED
      BY <3>1, <3>2
  <2>2. ASSUME NEW u \in Threads
        PROVE  /\ thread'[u].at = "fill" => use'[thread'[u].on] = "unused"
               /\ thread'[u].at # "idle" => use'[thread'[u].on] # "submitted"
    <3>1. thread[u].at # "idle" => thread[u].on \in Alloc \ {a}
      BY <1>1 DEF Inv, BusyThreads
    <3> QED
      BY <1>1, <1>6, <3>1 DEF Contents, Uses
  <2> QED
    BY <2>1, <2>2 DEF Uses
<1>11. Zeros'
  <2> SUFFICES ASSUME NEW b \in Alloc, allocation'[b].state = "held", allocation'[b].zeroed,
                      use'[b] # "used", Settled(b)'
      PROVE  (\E v : Pending(v, clear_of(allocation[b])))' \/ Reads(b, "zero")'
    BY DEF Zeros
  <2>1. use[b] # "used" /\ Settled(b)
    BY <1>1, <1>6 DEF Settled
  <2>2. (\E v : Pending(v, clear_of(allocation[b]))) \/ Reads(b, "zero")
    BY <1>1, <2>1 DEF Contents, Zeros
  <2>3. Keeps(b)
    BY <1>1, <1>3, AllKept
  <2>4. Reads(b, "zero") => Reads(b, "zero")'
    BY <1>1, <1>8 DEF Reads
  <2> QED
    BY <2>2, <2>3, <2>4 DEF Keeps
<1>12. Datas'
  BY <1>1, <1>6, <1>8 DEF Contents, Datas, Reads
<1> QED
  BY <1>9, <1>10, <1>11, <1>12 DEF Contents

\* A command list runs when the clears of its memory are done.
LEMMA RunContents ==
  ASSUME Inv, Issued, Contents, NEW a \in Alloc, Run(a)
  PROVE  Contents'
<1> DEFINE m == allocation[a].memory
           units == UnitsOf(a)
<1>1. /\ use[a] = "submitted" /\ semaphore >= need[a]
      /\ use' = [use EXCEPT ![a] = "used"] /\ need' = [need EXCEPT ![a] = 0]
      /\ content' = [content EXCEPT ![m] = [u \in DOMAIN @ |-> IF u \in units THEN "data" ELSE @[u]]]
      /\ UNCHANGED <<memory, allocation, thread, transfers, inflight, next_signal_value, semaphore>>
  BY DEF Run, queue, gpu, UnitsOf
<1>2. \A v, x : Pending(v, x)' <=> Pending(v, x)
  BY <1>1, PendingUntouched
<1>3. /\ QueueInv /\ next_signal_value \in Nat /\ next_signal_value > 0 /\ semaphore \in Nat
      /\ need[a] \in Nat
  BY MemoryTransfersAssumption
  DEF Issued, QueueInv, QueueTypes, SubmissionsInOrder, Contents, UseTypes
<1>4. allocation[a].state = "held" /\ InTime(a) /\ m \in Memory /\ units \subseteq 0..(ChunkSize - 1)
  BY <1>1 DEF Contents, Uses, HeldInside, Inv, HeldMemory
<1>5. \A b \in Alloc : /\ use'[b] = (IF b = a THEN "used" ELSE use[b])
                       /\ need'[b] = (IF b = a THEN 0 ELSE need[b])
  BY <1>1 DEF Contents, UseTypes
<1>6. \A b : UnitsOf(b)' = UnitsOf(b) /\ clear_of(allocation'[b]) = clear_of(allocation[b])
  BY <1>1 DEF UnitsOf
<1>7. content \in [Memory -> [0..(ChunkSize - 1) -> {"junk", "zero", "data"}]]
  BY DEF Contents, UseTypes
<1> HIDE DEF m, units
<1>8. \A x \in Memory : content'[x] = IF x = m THEN [u \in 0..(ChunkSize - 1) |->
                                         IF u \in units THEN "data" ELSE content[m][u]]
                                      ELSE content[x]
  BY <1>1, <1>4, <1>7
<1>9. ASSUME NEW b \in Alloc, b # a, allocation[b].state = "held", NEW what, Reads(b, what)
      PROVE  Reads(b, what)'
  <2>1. UnitsOf(b) \subseteq 0..(ChunkSize - 1) /\ allocation[b].memory \in Memory
    BY <1>9 DEF Contents, HeldInside, Inv, HeldMemory
  <2>2. CASE allocation[b].memory # m
    BY <1>1, <1>6, <1>8, <1>9, <2>1, <2>2 DEF Reads
  <2>3. CASE allocation[b].memory = m
    <3>1. UnitsOf(b) \cap units = {}
      BY <1>4, <1>9, <2>3, HeldApart DEF m, units
    <3>2. \A u \in UnitsOf(b) : content'[m][u] = content[m][u]
      BY <1>4, <1>8, <2>1, <3>1
    <3> QED
      BY <1>1, <1>6, <1>9, <2>3, <3>2 DEF Reads
  <2> QED
    BY <2>2, <2>3
<1>10. UseTypes' /\ HeldInside'
  <2>1. use' \in [Alloc -> {"unused", "submitted", "used"}] /\ need' \in [Alloc -> Nat]
    BY <1>1 DEF Contents, UseTypes
  <2>2. content' \in [Memory -> [0..(ChunkSize - 1) -> {"junk", "zero", "data"}]]
    BY <1>1, <1>4, <1>7
  <2> QED
    BY <1>1, <1>6, <2>1, <2>2 DEF Contents, UseTypes, HeldInside
<1>11. Uses'
  <2>1. ASSUME NEW b \in Alloc
        PROVE  /\ use'[b] # "unused" => allocation'[b].state = "held"
               /\ need'[b] < next_signal_value'
               /\ allocation'[b].state = "held" => InTime(b)'
    <3>1. CASE b = a
      <4>1. \A v, x : Pending(v, x) => ~Hits(x, a)
        <5> SUFFICES ASSUME NEW v, NEW x, Pending(v, x), Hits(x, a) PROVE FALSE
          OBVIOUS
        <5>1. v <= need[a] /\ v \in Nat /\ semaphore < v
          BY <1>1, <1>3, <1>4, PendingFacts DEF InTime
        <5> QED
          BY <1>1, <1>3, <5>1
      <4>2. InTime(a)'
        BY <1>1, <1>2, <1>6, <4>1 DEF InTime, Hits
      <4> QED
        BY <1>1, <1>3, <1>4, <1>5, <3>1, <4>2
    <3>2. CASE b # a
      <4>1. InTime(b) => InTime(b)'
        BY <1>1, <1>2, <1>5, <1>6, <3>2 DEF InTime, Hits
      <4> QED
        BY <1>1, <1>5, <3>2, <4>1 DEF Contents, Uses
    <3> QED
      BY <3>1, <3>2
  <2>2. ASSUME NEW u \in Threads
        PROVE  /\ thread'[u].at = "fill" => use'[thread'[u].on] = "unused"
               /\ thread'[u].at # "idle" => use'[thread'[u].on] # "submitted"
    <3>1. thread[u].at # "idle" => thread[u].on \in Alloc
      BY DEF Inv, BusyThreads
    <3>2. thread[u].at = "fill" => use[thread[u].on] = "unused"
      BY DEF Contents, Uses
    <3>3. thread[u].at # "idle" => use[thread[u].on] # "submitted"
      BY DEF Contents, Uses
    <3> QED
      BY <1>1, <1>5, <3>1, <3>2, <3>3
  <2> QED
    BY <2>1, <2>2 DEF Uses
<1>12. Zeros'
  <2> SUFFICES ASSUME NEW b \in Alloc, allocation'[b].state = "held", allocation'[b].zeroed,
                      use'[b] # "used", Settled(b)'
      PROVE  (\E v : Pending(v, clear_of(allocation[b])))' \/ Reads(b, "zero")'
    BY DEF Zeros
  <2>1. b # a /\ use[b] # "used" /\ Settled(b) /\ allocation[b].state = "held"
    BY <1>1, <1>5 DEF Settled
  <2>2. (\E v : Pending(v, clear_of(allocation[b]))) \/ Reads(b, "zero")
    BY <1>1, <2>1 DEF Contents, Zeros
  <2>3. Keeps(b)
    BY <1>1, <1>2, AllKept
  <2>4. Reads(b, "zero") => Reads(b, "zero")'
    BY <1>9, <2>1
  <2> QED
    BY <2>2, <2>3, <2>4 DEF Keeps
<1>13. Datas'
  <2> SUFFICES ASSUME NEW b \in Alloc, use'[b] = "used" PROVE Reads(b, "data")'
    BY DEF Datas
  <2>1. CASE b = a
    <3>1. \A u \in units : content'[m][u] = "data"
      BY <1>4, <1>8
    <3> QED
      BY <1>1, <1>6, <2>1, <3>1 DEF Reads, m, units
  <2>2. CASE b # a
    <3>1. Reads(b, "data") /\ allocation[b].state = "held"
      BY <1>5, <2>2 DEF Contents, Datas, Uses
    <3> QED
      BY <1>9, <2>2, <3>1
  <2> QED
    BY <2>1, <2>2
<1> QED
  BY <1>10, <1>11, <1>12, <1>13 DEF Contents

\* What the GPU clears when it finishes a submission.
LEMMA CompleteWrites ==
  ASSUME Inv, Issued, Contents, Complete, NEW m \in Memory, NEW u \in 0..(ChunkSize - 1)
  PROVE  /\ content'[m] \in [0..(ChunkSize - 1) -> {"junk", "zero", "data"}]
         /\ (\E x : /\ Pending(semaphore + 1, x) /\ semaphore + 1 # next_signal_value
                    /\ x.memory = m /\ u \in Units(x.offset, x.size)) => content'[m][u] = "zero"
         /\ ~(\E x : /\ Pending(semaphore + 1, x) /\ semaphore + 1 # next_signal_value
                     /\ x.memory = m /\ u \in Units(x.offset, x.size)) => content'[m][u] = content[m][u]
<1> DEFINE done == Head(inflight).transfers
           cleared == UNION {Units(x.offset, x.size) :
                               x \in {y \in ToSet(done) : y.op = "clear" /\ y.memory = m}}
           Due(x) == Pending(semaphore + 1, x) /\ semaphore + 1 # next_signal_value
<1>1. content' = [k \in Memory |-> [w \in DOMAIN content[k] |->
                    IF w \in UNION {Units(x.offset, x.size) :
                               x \in {y \in ToSet(done) : y.op = "clear" /\ y.memory = k}}
                    THEN "zero" ELSE content[k][w]]]
  BY DEF Complete
<1>2. content[m] \in [0..(ChunkSize - 1) -> {"junk", "zero", "data"}]
  BY DEF Contents, UseTypes
<1>3. content'[m] = [w \in 0..(ChunkSize - 1) |-> IF w \in cleared THEN "zero" ELSE content[m][w]]
  BY <1>1, <1>2
<1>4. QueueInv /\ inflight \in Seq(Batch) /\ inflight # <<>>
  BY DEF Issued, QueueInv, QueueTypes, Complete
<1>5. done \in Seq(Transfer)
  <2>1. Head(inflight) \in Batch
    BY <1>4
  <2> QED
    BY <2>1 DEF Batch
<1>6. \A x : x \in Clear /\ (\E j \in DOMAIN done : x = done[j]) <=> Due(x)
  BY <1>4, CompletePending
<1>7. \A x : x \in ToSet(done) <=> \E j \in DOMAIN done : x = done[j]
  BY DEF ToSet
<1>8. \A x \in ToSet(done) : x.op = "clear" <=> x \in Clear
  BY <1>5, <1>7 DEF Transfer, Clear, SubresourceWrite
<1> HIDE DEF done, Due
<1>9. u \in cleared <=> \E x : Due(x) /\ x.memory = m /\ u \in Units(x.offset, x.size)
  <2>1. u \in cleared <=> \E x \in ToSet(done) : x.op = "clear" /\ x.memory = m
                                                 /\ u \in Units(x.offset, x.size)
    OBVIOUS
  <2>2. \A x : x \in ToSet(done) /\ x.op = "clear" <=> Due(x)
    BY <1>6, <1>7, <1>8
  <2> HIDE DEF cleared
  <2> QED
    BY <2>1, <2>2
<1> HIDE DEF cleared
<1>10. /\ content'[m] \in [0..(ChunkSize - 1) -> {"junk", "zero", "data"}]
       /\ u \in cleared => content'[m][u] = "zero"
       /\ u \notin cleared => content'[m][u] = content[m][u]
  BY <1>2, <1>3
<1> QED
  BY <1>9, <1>10 DEF Due

\* What the GPU clears reads as zero.
LEMMA CompleteContents ==
  ASSUME Inv, Issued, Contents, Complete
  PROVE  Contents'
<1> DEFINE Due(x) == Pending(semaphore + 1, x) /\ semaphore + 1 # next_signal_value
           Cleared(m, u) == \E x : Due(x) /\ x.memory = m /\ u \in Units(x.offset, x.size)
<1>1. /\ UNCHANGED <<memory, allocation, thread, next_signal_value, use, need>>
      /\ DOMAIN content' = Memory
  BY DEF Complete, queue, work
<1>2. QueueInv /\ semaphore \in Nat /\ next_signal_value \in Nat
  BY DEF Issued, QueueInv, QueueTypes
<1>3. \A v, x : Pending(v, x)' <=> Pending(v, x) /\ v # semaphore + 1
  BY <1>2, CompletePending
<1>4. \A m \in Memory : \A u \in 0..(ChunkSize - 1) :
        /\ content'[m] \in [0..(ChunkSize - 1) -> {"junk", "zero", "data"}]
        /\ Cleared(m, u) => content'[m][u] = "zero"
        /\ ~Cleared(m, u) => content'[m][u] = content[m][u]
  BY CompleteWrites
<1>5. \A b : UnitsOf(b)' = UnitsOf(b) /\ clear_of(allocation'[b]) = clear_of(allocation[b])
  BY <1>1 DEF UnitsOf
<1>6. UseTypes' /\ HeldInside'
  <2>1. 0 \in 0..(ChunkSize - 1)
    BY MemoryTransfersAssumption
  <2>2. \A m \in Memory : content'[m] \in [0..(ChunkSize - 1) -> {"junk", "zero", "data"}]
    BY <1>4, <2>1
  <2>3. content' = [m \in Memory |-> content'[m]]
    BY <1>1 DEF Complete
  <2>4. content' \in [Memory -> [0..(ChunkSize - 1) -> {"junk", "zero", "data"}]]
    BY <2>2, <2>3
  <2> QED
    BY <1>1, <1>5, <2>4 DEF Contents, UseTypes, HeldInside
<1> HIDE DEF Due
<1>7. Uses'
  <2>1. ASSUME NEW b \in Alloc
        PROVE  /\ use'[b] # "unused" => allocation'[b].state = "held"
               /\ need'[b] < next_signal_value'
               /\ allocation'[b].state = "held" => InTime(b)'
    <3>1. InTime(b) => InTime(b)'
      BY <1>1, <1>3, <1>5 DEF InTime, Hits
    <3> QED
      BY <1>1, <3>1 DEF Contents, Uses
  <2>2. ASSUME NEW u \in Threads
        PROVE  /\ thread'[u].at = "fill" => use'[thread'[u].on] = "unused"
               /\ thread'[u].at # "idle" => use'[thread'[u].on] # "submitted"
    BY <1>1 DEF Contents, Uses
  <2> QED
    BY <2>1, <2>2 DEF Uses
<1>8. ASSUME NEW b \in Alloc, allocation[b].state = "held"
      PROVE  /\ UnitsOf(b) \subseteq 0..(ChunkSize - 1) /\ allocation[b].memory \in Memory
             /\ \A u \in UnitsOf(b) : /\ Cleared(allocation[b].memory, u)
                                           => content'[allocation[b].memory][u] = "zero"
                                      /\ ~Cleared(allocation[b].memory, u)
                                           => content'[allocation[b].memory][u] = content[allocation[b].memory][u]
  <2>1. UnitsOf(b) \subseteq 0..(ChunkSize - 1) /\ allocation[b].memory \in Memory
    BY <1>8 DEF Contents, HeldInside, Inv, HeldMemory
  <2> HIDE DEF Cleared
  <2> QED
    BY <1>4, <2>1
<1>9. Zeros'
  <2> SUFFICES ASSUME NEW b \in Alloc, allocation'[b].state = "held", allocation'[b].zeroed,
                      use'[b] # "used", Settled(b)'
      PROVE  (\E v : Pending(v, clear_of(allocation[b])))' \/ Reads(b, "zero")'
    BY DEF Zeros
  <2>1. Settled(b) /\ allocation[b].state = "held"
    BY <1>1 DEF Settled
  <2>2. (\E v : Pending(v, clear_of(allocation[b]))) \/ Reads(b, "zero")
    BY <1>1, <2>1 DEF Contents, Zeros
  <2>3. CASE Reads(b, "zero")
    <3>1. \A u \in UnitsOf(b) : content'[allocation[b].memory][u] = "zero"
      BY <1>8, <2>1, <2>3 DEF Reads
    <3> QED
      BY <1>1, <1>5, <3>1 DEF Reads
  <2>4. CASE \E v : Pending(v, clear_of(allocation[b]))
    <3>1. PICK v, x : x = clear_of(allocation[b]) /\ Pending(v, x)
      BY <2>4
    <3>2. CASE v # semaphore + 1
      <4>1. x = clear_of(allocation'[b]) /\ Pending(v, x)'
        BY <1>3, <1>5, <3>1, <3>2
      <4> QED
        BY <4>1
    <3>3. CASE v = semaphore + 1 /\ v # next_signal_value
      <4>1. Due(x)
        BY <3>1, <3>3 DEF Due
      <4>2. x.memory = allocation[b].memory /\ Units(x.offset, x.size) = UnitsOf(b)
        BY <3>1 DEF clear_of, UnitsOf
      <4>3. \A u \in UnitsOf(b) : Cleared(allocation[b].memory, u)
        BY <4>1, <4>2
      <4>4. \A u \in UnitsOf(b) : content'[allocation[b].memory][u] = "zero"
        BY <1>8, <2>1, <4>3
      <4> QED
        BY <1>1, <1>5, <4>4 DEF Reads
    <3>4. v # semaphore + 1 \/ v # next_signal_value
      <4> SUFFICES ASSUME next_signal_value = semaphore + 1 PROVE FALSE
        OBVIOUS
      <4>1. Len(inflight) = next_signal_value - 1 - semaphore /\ inflight # <<>>
            /\ inflight \in Seq(Batch)
        BY <1>2 DEF QueueInv, QueueTypes, SubmissionsInOrder, Complete
      <4>2. Len(inflight) = 0
        BY <1>2, <4>1
      <4> QED
        BY <4>1, <4>2
    <3> QED
      BY <3>2, <3>3, <3>4
  <2> QED
    BY <2>2, <2>3, <2>4
<1>10. Datas'
  <2> SUFFICES ASSUME NEW b \in Alloc, use'[b] = "used" PROVE Reads(b, "data")'
    BY DEF Datas
  <2>1. use[b] = "used" /\ allocation[b].state = "held" /\ Reads(b, "data") /\ InTime(b)
    BY <1>1 DEF Contents, Datas, Uses
  <2>2. \A u \in UnitsOf(b) : ~Cleared(allocation[b].memory, u)
    <3> SUFFICES ASSUME NEW u \in UnitsOf(b), NEW x, Due(x), x.memory = allocation[b].memory,
                        u \in Units(x.offset, x.size)
        PROVE  FALSE
      OBVIOUS
    <3>1. Hits(x, b)
      BY DEF Hits
    <3>2. PICK v : Pending(v, x)
      BY DEF Due
    <3> QED
      BY <2>1, <3>1, <3>2 DEF InTime
  <2>3. \A u \in UnitsOf(b) : content'[allocation[b].memory][u] = "data"
    BY <1>8, <2>1, <2>2 DEF Reads
  <2> QED
    BY <1>1, <1>5, <2>3 DEF Reads
<1> QED
  BY <1>6, <1>7, <1>9, <1>10 DEF Contents

\* No clear comes late.
LEMMA ContentsInTime ==
  ASSUME Inv, Issued, Contents
  PROVE  ClearsAreInTime
<1>1. QueueInv /\ semaphore \in Nat
  BY DEF Issued, QueueInv, QueueTypes
<1> SUFFICES ASSUME NEW a \in Alloc
    PROVE  /\ use[a] = "submitted" /\ semaphore >= need[a] /\ allocation[a].zeroed => Reads(a, "zero")
           /\ use[a] = "used" => Reads(a, "data")
  BY DEF ClearsAreInTime, Reads, UnitsOf
<1>2. ASSUME use[a] = "submitted", semaphore >= need[a], allocation[a].zeroed
      PROVE  Reads(a, "zero")
  <2>1. allocation[a].state = "held" /\ InTime(a) /\ need[a] \in Nat
    BY <1>2 DEF Contents, Uses, UseTypes
  <2>2. Settled(a)
    BY <1>2 DEF Contents, Uses, Settled
  <2>3. ASSUME NEW v, NEW x, x = clear_of(allocation[a]), Pending(v, x) PROVE FALSE
    <3>1. Hits(x, a)
      BY <2>1, <2>3, OwnClearHits
    <3>2. v <= need[a] /\ v \in Nat /\ semaphore < v
      BY <1>1, <1>2, <2>1, <2>3, <3>1, PendingFacts DEF InTime
    <3> QED
      BY <1>1, <1>2, <2>1, <3>2
  <2>4. ~\E v : Pending(v, clear_of(allocation[a]))
    BY <2>3
  <2> QED
    BY <1>2, <2>1, <2>2, <2>4 DEF Contents, Zeros
<1>3. use[a] = "used" => Reads(a, "data")
  BY DEF Contents, Datas
<1> QED
  BY <1>2, <1>3

-----------------------------------------------------------------------------
(***************************************************************************)
(* References to the textures that are written.                            *)
(***************************************************************************)

Entry == [resource : Resource \cup {NoResource}, value : Nat]
EntriesOf(list, r) == {i \in DOMAIN list : list[i].resource = r}
Count(list, r) == Cardinality(EntriesOf(list, r))

\* Adding a number to the elements of a set does not change how many there are.
LEMMA Shifted ==
  ASSUME NEW n \in Nat, NEW B \in SUBSET Nat, IsFiniteSet(B)
  PROVE  IsFiniteSet({i + n : i \in B}) /\ Cardinality({i + n : i \in B}) = Cardinality(B)
<1> DEFINE C == {i + n : i \in B}
           f == [i \in B |-> i + n]
<1>1. f \in [B -> C]
  OBVIOUS
<1>2. \A a, b \in B : f[a] = f[b] => a = b
  OBVIOUS
<1>3. \A c \in C : \E b \in B : f[b] = c
  OBVIOUS
<1> HIDE DEF f
<1>4. f \in Bijection(B, C)
  BY <1>1, <1>2, <1>3 DEF Bijection, Injection, Surjection, IsInjective
<1>5. ExistsBijection(B, C)
  BY <1>4 DEF ExistsBijection
<1> HIDE DEF C
<1>6. IsFiniteSet(C) /\ Cardinality(C) = Cardinality(B)
  BY <1>5, FS_Bijection
<1> QED
  BY <1>6 DEF C

\* Entries can be counted.
LEMMA CountFacts ==
  ASSUME NEW S, NEW list \in Seq(S), NEW r
  PROVE  /\ IsFiniteSet(EntriesOf(list, r)) /\ Count(list, r) \in Nat
         /\ EntriesOf(list, r) \subseteq 1..Len(list) /\ Len(list) \in Nat
         /\ Count(list, r) = 0 <=> \A i \in DOMAIN list : list[i].resource # r
<1>1. Len(list) \in Nat /\ DOMAIN list = 1..Len(list) /\ 1 \in Int /\ Len(list) \in Int
  OBVIOUS
<1>2. EntriesOf(list, r) \in SUBSET (1..Len(list))
  BY <1>1 DEF EntriesOf
<1>3. IsFiniteSet(1..Len(list))
  BY <1>1, FS_Interval
<1>4. IsFiniteSet(EntriesOf(list, r))
  BY <1>2, <1>3, FS_Subset
<1>5. Count(list, r) \in Nat /\ (Count(list, r) = 0 <=> EntriesOf(list, r) = {})
  BY <1>4, FS_CardinalityType, FS_EmptySet DEF Count
<1>6. EntriesOf(list, r) = {} <=> \A i \in DOMAIN list : list[i].resource # r
  BY DEF EntriesOf
<1> QED
  BY <1>1, <1>2, <1>4, <1>5, <1>6

\* One list behind another.
LEMMA Joined ==
  ASSUME NEW S, NEW s \in Seq(S), NEW q \in Seq(S)
  PROVE  /\ s \o q \in Seq(S) /\ DOMAIN (s \o q) = 1..(Len(s) + Len(q))
         /\ Len(s) \in Nat /\ Len(q) \in Nat /\ DOMAIN s = 1..Len(s) /\ DOMAIN q = 1..Len(q)
         /\ \A i \in 1..Len(s) : (s \o q)[i] = s[i]
         /\ \A i \in 1..Len(q) : (s \o q)[i + Len(s)] = q[i]
OBVIOUS

\* The entries of both are counted.
LEMMA CountJoined ==
  ASSUME NEW S, NEW s \in Seq(S), NEW q \in Seq(S), NEW r
  PROVE  Count(s \o q, r) = Count(s, r) + Count(q, r)
<1> DEFINE n == Len(s)
           k == Len(q)
           all == s \o q
           A == EntriesOf(s, r)
           B == EntriesOf(q, r)
           C == {i + n : i \in B}
<1>1. /\ all \in Seq(S) /\ DOMAIN all = 1..(n + k) /\ n \in Nat /\ k \in Nat
      /\ DOMAIN s = 1..n /\ DOMAIN q = 1..k
      /\ \A i \in 1..n : all[i] = s[i]
      /\ \A i \in 1..k : all[i + n] = q[i]
  BY Joined
<1>2. IsFiniteSet(A) /\ IsFiniteSet(B) /\ A \subseteq 1..n /\ B \subseteq 1..k
  BY CountFacts
<1> HIDE DEF n, k, all, A, B
<1>3. IsFiniteSet(C) /\ Cardinality(C) = Cardinality(B)
  <2>1. B \in SUBSET Nat /\ n \in Nat
    BY <1>1, <1>2
  <2> QED
    BY <1>2, <2>1, Shifted
<1>4. A \cap C = {}
  BY <1>1, <1>2
<1>5. EntriesOf(all, r) = A \cup C
  <2>1. ASSUME NEW i, i \in EntriesOf(all, r) PROVE i \in A \cup C
    <3>1. i \in 1..(n + k) /\ all[i].resource = r
      BY <1>1, <2>1 DEF EntriesOf
    <3>2. CASE i \in 1..n
      BY <1>1, <3>1, <3>2 DEF EntriesOf, A
    <3>3. CASE i \notin 1..n
      <4>1. i - n \in 1..k /\ i = (i - n) + n
        BY <1>1, <3>1, <3>3
      <4>2. q[i - n].resource = r
        BY <1>1, <3>1, <4>1
      <4>3. i - n \in B
        BY <1>1, <4>1, <4>2 DEF EntriesOf, B
      <4> QED
        BY <4>1, <4>3
    <3> QED
      BY <3>2, <3>3
  <2>2. ASSUME NEW i \in A PROVE i \in EntriesOf(all, r)
    BY <1>1, <2>2 DEF EntriesOf, A
  <2>3. ASSUME NEW i \in B PROVE i + n \in EntriesOf(all, r)
    <3>1. i \in 1..k /\ q[i].resource = r
      BY <1>1 DEF EntriesOf, B
    <3>2. i + n \in 1..(n + k)
      BY <1>1, <3>1
    <3> QED
      BY <1>1, <3>1, <3>2 DEF EntriesOf
  <2> QED
    BY <2>1, <2>2, <2>3
<1> HIDE DEF C
<1>6. Cardinality(A \cup C) = Cardinality(A) + Cardinality(C) - Cardinality(A \cap C)
  BY <1>2, <1>3, FS_Union
<1>7. Cardinality(A) \in Nat /\ Cardinality(C) \in Nat /\ Cardinality({}) = 0
  BY <1>2, <1>3, FS_CardinalityType, FS_EmptySet
<1>8. Cardinality(EntriesOf(all, r)) = Cardinality(A) + Cardinality(B)
  <2>1. Cardinality(A \cap C) = 0
    BY <1>4, <1>7
  <2>2. Cardinality(A \cup C) = Cardinality(A) + Cardinality(C)
    BY <1>6, <1>7, <2>1
  <2> QED
    BY <1>3, <1>5, <2>2
<1> QED
  BY <1>8 DEF Count, all, A, B

\* A list of one entry.
LEMMA CountOne ==
  ASSUME NEW S, NEW e \in S, NEW r
  PROVE  <<e>> \in Seq(S) /\ Count(<<e>>, r) = IF e.resource = r THEN 1 ELSE 0
<1>1. <<e>> \in Seq(S) /\ DOMAIN <<e>> = {1} /\ <<e>>[1] = e
  OBVIOUS
<1> DEFINE s == <<e>>
<1> HIDE DEF s
<1>2. EntriesOf(s, r) = IF e.resource = r THEN {1} ELSE {}
  BY <1>1 DEF EntriesOf, s
<1>3. Cardinality({1}) = 1 /\ Cardinality({}) = 0
  BY FS_Singleton, FS_EmptySet
<1> QED
  BY <1>1, <1>2, <1>3 DEF Count, s

\* The first entry is taken.
LEMMA CountTail ==
  ASSUME NEW S, NEW q \in Seq(S), q # <<>>, NEW r
  PROVE  Count(q, r) = (IF Head(q).resource = r THEN 1 ELSE 0) + Count(Tail(q), r)
<1>1. Head(q) \in S /\ Tail(q) \in Seq(S) /\ q = <<Head(q)>> \o Tail(q)
  OBVIOUS
<1> DEFINE s == <<Head(q)>>
<1>2. s \in Seq(S) /\ Count(s, r) = IF Head(q).resource = r THEN 1 ELSE 0
  BY <1>1, CountOne
<1> HIDE DEF s
<1>3. Count(s \o Tail(q), r) = Count(s, r) + Count(Tail(q), r)
  BY <1>1, <1>2, CountJoined
<1> QED
  BY <1>1, <1>2, <1>3 DEF s

\* An entry is added.
LEMMA CountAppend ==
  ASSUME NEW S, NEW q \in Seq(S), NEW e \in S, NEW r
  PROVE  Count(Append(q, e), r) = Count(q, r) + (IF e.resource = r THEN 1 ELSE 0)
<1>1. Append(q, e) = q \o <<e>>
  OBVIOUS
<1> DEFINE s == <<e>>
<1>2. s \in Seq(S) /\ Count(s, r) = IF e.resource = r THEN 1 ELSE 0
  BY CountOne
<1> HIDE DEF s
<1>3. Count(q \o s, r) = Count(q, r) + Count(s, r)
  BY <1>2, CountJoined
<1> QED
  BY <1>1, <1>2, <1>3 DEF s

\* The texture writes of a submission get an entry each.
LEMMA TrackedEntries ==
  ASSUME QueueInv, NEW q \in Seq(Transfer), Submits(q)
  PROVE  \E new \in Seq(Entry) :
           /\ tracked' = tracked \o new
           /\ refs' = [r \in Resource |-> refs[r] + Count(new, r)]
           /\ \A j \in DOMAIN new : /\ new[j].value = next_signal_value
                                    /\ \E i \in DOMAIN q : /\ new[j].resource = q[i].resource
                                                           /\ q[i].resource \in Resource
           /\ \A i \in DOMAIN q : q[i] \in SubresourceWrite =>
                \E j \in DOMAIN new : new[j].resource = q[i].resource
<1> DEFINE W == Writes(q)
           n == Cardinality(W)
<1>1. PICK written \in [1..n -> W] : ListsWrites(written, q) /\ track_resources(written, q)
  BY DEF Submits
<1> DEFINE new == [j \in DOMAIN written |->
                     [resource |-> q[written[j]].resource, value |-> next_signal_value]]
<1>2. n \in Nat
  <2>1. Len(q) \in Int /\ 1 \in Int /\ DOMAIN q = 1..Len(q) /\ W \in SUBSET (1..Len(q))
    BY DEF Writes
  <2>2. IsFiniteSet(W)
    BY <2>1, FS_Interval, FS_Subset
  <2> QED
    BY <2>2, FS_CardinalityType
<1>3. \A i \in DOMAIN q : q[i] \in Transfer
  OBVIOUS
<1>4. \A i \in W : i \in DOMAIN q /\ q[i] \in SubresourceWrite /\ q[i].resource \in Resource
  BY <1>3 DEF Writes, Transfer, Clear, SubresourceWrite
<1>5. \A i \in DOMAIN q : q[i] \in SubresourceWrite => i \in W
  BY DEF Writes, SubresourceWrite
<1>6. W = {written[j] : j \in DOMAIN written}
  BY <1>1 DEF ListsWrites
<1>7. /\ refs' = [r \in Resource |-> refs[r] + Cardinality({j \in DOMAIN written : q[written[j]].resource = r})]
      /\ tracked' = tracked \o new
  BY <1>1 DEF track_resources
<1> HIDE DEF n, W
<1>8. DOMAIN written = 1..n /\ \A j \in 1..n : written[j] \in W
  BY <1>1
<1>9. next_signal_value \in Nat
  BY DEF QueueInv, QueueTypes
<1>10. \A j \in 1..n : /\ new[j] = [resource |-> q[written[j]].resource, value |-> next_signal_value]
                       /\ new[j].resource = q[written[j]].resource /\ new[j].value = next_signal_value
                       /\ new[j] \in Entry
  BY <1>4, <1>8, <1>9 DEF Entry
<1>11. new \in [1..n -> Entry] /\ DOMAIN new = 1..n
  BY <1>8, <1>10
<1> HIDE DEF new
<1>12. new \in Seq(Entry)
  BY <1>2, <1>11
<1>13. \A r : {j \in DOMAIN written : q[written[j]].resource = r} = EntriesOf(new, r)
  BY <1>8, <1>10, <1>11 DEF EntriesOf
<1>14. \A r : Cardinality({j \in DOMAIN written : q[written[j]].resource = r}) = Count(new, r)
  BY <1>13 DEF Count
<1>15. refs' = [r \in Resource |-> refs[r] + Count(new, r)]
  BY <1>7, <1>14
<1>16. \A j \in DOMAIN new : /\ new[j].value = next_signal_value
                             /\ \E i \in DOMAIN q : /\ new[j].resource = q[i].resource
                                                    /\ q[i].resource \in Resource
  BY <1>4, <1>8, <1>10, <1>11
<1>17. ASSUME NEW i \in DOMAIN q, q[i] \in SubresourceWrite
       PROVE  \E j \in DOMAIN new : new[j].resource = q[i].resource
  <2>1. PICK j \in DOMAIN written : written[j] = i
    BY <1>5, <1>6, <1>17
  <2> QED
    BY <1>8, <1>10, <1>11, <2>1
<1> QED
  BY <1>7, <1>12, <1>15, <1>16, <1>17

TrackTypes ==
  /\ refs \in [Resource -> Int] /\ released \subseteq Resource
  /\ tracked \in Seq(Entry) /\ tracking \in Seq(Entry) /\ tracker \in {"running", "ended"}

RefsCounted ==
  \A r \in Resource :
    refs[r] = Count(tracked, r) + Count(tracking, r) + (IF r \in released THEN 0 ELSE 1)

\* The tracker has an entry of the resource and the value.
Tracked(v, r) ==
  \/ \E i \in DOMAIN tracked : tracked[i].resource = r /\ tracked[i].value = v
  \/ \E i \in DOMAIN tracking : tracking[i].resource = r /\ tracking[i].value = v
WritesTracked ==
  \A v, x : InFlight(v, x) /\ x \in SubresourceWrite => Tracked(v, x.resource)

EntriesInTime ==
  /\ \A i \in DOMAIN tracked : tracked[i].value < next_signal_value
  /\ \A i \in DOMAIN tracking : tracking[i].value < next_signal_value

\* Nothing is queued that writes to a texture without references.
NoneQueued == \A i \in DOMAIN transfers : transfers[i].resource \notin released

\* The entry that ends the tracker comes after all others.
Ends(list) == \E i \in DOMAIN list : list[i].resource = NoResource
Ending ==
  /\ Ends(tracked) \/ Ends(tracking) \/ tracker = "ended" => released = Resource
  /\ \A i \in DOMAIN tracked : tracked[i].resource = NoResource => i = Len(tracked)
  /\ \A i \in DOMAIN tracking : tracking[i].resource = NoResource => i = Len(tracking) /\ tracked = <<>>
  /\ tracker = "ended" => tracked = <<>> /\ tracking = <<>>

Tracking == TrackTypes /\ RefsCounted /\ WritesTracked /\ EntriesInTime /\ NoneQueued /\ Ending

\* A submission adds the entries of its writes.
LEMMA SubmitTracks ==
  ASSUME QueueInv, Tracking, NEW q \in Seq(Transfer), Submits(q), UNCHANGED <<released, tracking, tracker>>,
         \A i \in DOMAIN q : q[i].resource \notin released
  PROVE  Tracking'
<1>1. /\ refs \in [Resource -> Int] /\ released \subseteq Resource
      /\ tracked \in Seq(Entry) /\ tracking \in Seq(Entry) /\ next_signal_value \in Nat
      /\ next_signal_value' = next_signal_value + 1 /\ transfers' = <<>>
  BY DEF Tracking, TrackTypes, QueueInv, QueueTypes, Submits
<1>2. PICK new \in Seq(Entry) :
           /\ tracked' = tracked \o new
           /\ refs' = [r \in Resource |-> refs[r] + Count(new, r)]
           /\ \A j \in DOMAIN new : /\ new[j].value = next_signal_value
                                    /\ \E i \in DOMAIN q : /\ new[j].resource = q[i].resource
                                                           /\ q[i].resource \in Resource
           /\ \A i \in DOMAIN q : q[i] \in SubresourceWrite =>
                \E j \in DOMAIN new : new[j].resource = q[i].resource
  BY TrackedEntries
<1>3. \A r : /\ Count(tracked', r) = Count(tracked, r) + Count(new, r)
             /\ Count(tracked, r) \in Nat /\ Count(new, r) \in Nat /\ Count(tracking, r) \in Nat
  BY <1>1, <1>2, CountJoined, CountFacts
<1>4. /\ tracked' \in Seq(Entry) /\ DOMAIN tracked' = 1..(Len(tracked) + Len(new))
      /\ Len(tracked) \in Nat /\ Len(new) \in Nat
      /\ DOMAIN tracked = 1..Len(tracked) /\ DOMAIN new = 1..Len(new)
      /\ \A i \in 1..Len(tracked) : tracked'[i] = tracked[i]
      /\ \A i \in 1..Len(new) : tracked'[i + Len(tracked)] = new[i]
  BY <1>1, <1>2, Joined
<1>5. /\ \A i \in 1..(Len(tracked) + Len(new)) :
           i \in 1..Len(tracked) \/ \E k \in 1..Len(new) : i = k + Len(tracked)
      /\ \A i \in 1..Len(tracked) : i \in 1..(Len(tracked) + Len(new))
      /\ \A k \in 1..Len(new) : k + Len(tracked) \in 1..(Len(tracked) + Len(new))
  <2>1. ASSUME NEW n \in Nat, NEW k \in Nat
        PROVE  /\ \A i \in 1..(n + k) : i \in 1..n \/ \E j \in 1..k : i = j + n
               /\ \A i \in 1..n : i \in 1..(n + k)
               /\ \A i \in 1..k : i + n \in 1..(n + k)
    <3>1. ASSUME NEW i \in 1..(n + k), i \notin 1..n PROVE \E j \in 1..k : i = j + n
      <4>1. i - n \in 1..k /\ i = (i - n) + n
        BY <3>1
      <4> QED
        BY <4>1
    <3> QED
      BY <3>1
  <2> DEFINE n == Len(tracked)
             k == Len(new)
  <2>2. n \in Nat /\ k \in Nat
    BY <1>4
  <2> HIDE DEF n, k
  <2>3. /\ \A i \in 1..(n + k) : i \in 1..n \/ \E j \in 1..k : i = j + n
        /\ \A i \in 1..n : i \in 1..(n + k)
        /\ \A i \in 1..k : i + n \in 1..(n + k)
    BY <2>1, <2>2
  <2> QED
    BY <2>3 DEF n, k
<1>6. ASSUME NEW i \in DOMAIN tracked'
      PROVE  \/ i \in DOMAIN tracked /\ tracked'[i] = tracked[i]
             \/ /\ tracked'[i].value = next_signal_value
                /\ tracked'[i].resource \in Resource /\ tracked'[i].resource \notin released
  <2>1. CASE i \in 1..Len(tracked)
    BY <1>4, <2>1
  <2>2. CASE \E k \in 1..Len(new) : i = k + Len(tracked)
    <3>1. PICK k \in 1..Len(new) : i = k + Len(tracked)
      BY <2>2
    <3>2. tracked'[i] = new[k]
      BY <1>4, <3>1
    <3> QED
      BY <1>2, <1>4, <3>1, <3>2
  <2> QED
    BY <1>4, <1>5, <2>1, <2>2
<1>7. TrackTypes'
  <2>1. \A r \in Resource : refs[r] + Count(new, r) \in Int
    BY <1>1, <1>3
  <2>2. refs' \in [Resource -> Int]
    BY <1>2, <2>1
  <2> QED
    BY <1>1, <1>4, <2>2 DEF Tracking, TrackTypes
<1>8. RefsCounted'
  <2> SUFFICES ASSUME NEW r \in Resource
      PROVE  refs'[r] = Count(tracked', r) + Count(tracking, r) + (IF r \in released THEN 0 ELSE 1)
    BY DEF RefsCounted, Count, EntriesOf
  <2>1. refs[r] = Count(tracked, r) + Count(tracking, r) + (IF r \in released THEN 0 ELSE 1)
    BY DEF Tracking, RefsCounted
  <2>2. refs'[r] = refs[r] + Count(new, r)
    BY <1>2
  <2>3. (IF r \in released THEN 0 ELSE 1) \in Nat
    OBVIOUS
  <2> QED
    BY <1>3, <2>1, <2>2, <2>3
<1>9. WritesTracked'
  <2> SUFFICES ASSUME NEW v, NEW x, InFlight(v, x)', x \in SubresourceWrite
      PROVE  Tracked(v, x.resource)'
    BY DEF WritesTracked
  <2>1. CASE InFlight(v, x)
    <3>1. Tracked(v, x.resource)
      BY <2>1 DEF Tracking, WritesTracked
    <3> QED
      BY <1>4, <1>5, <3>1 DEF Tracked
  <2>2. CASE v = next_signal_value /\ \E i \in DOMAIN q : x = q[i]
    <3>1. PICK j \in DOMAIN new : new[j].resource = x.resource /\ new[j].value = v
      BY <1>2, <2>2
    <3>2. j + Len(tracked) \in DOMAIN tracked' /\ tracked'[j + Len(tracked)] = new[j]
      BY <1>4, <1>5
    <3> QED
      BY <3>1, <3>2 DEF Tracked
  <2> QED
    BY <2>1, <2>2, SubmitsInFlight
<1>10. EntriesInTime'
  <2>1. \A i \in DOMAIN tracked : tracked[i].value \in Nat
    <3>1. \A i \in DOMAIN tracked : tracked[i] \in Entry
      BY <1>1
    <3> QED
      BY <3>1 DEF Entry
  <2>2. \A i \in DOMAIN tracking : tracking[i].value \in Nat
    <3>1. \A i \in DOMAIN tracking : tracking[i] \in Entry
      BY <1>1
    <3> QED
      BY <3>1 DEF Entry
  <2>3. \A i \in DOMAIN tracked' : tracked'[i].value < next_signal_value'
    BY <1>1, <1>6, <2>1 DEF Tracking, EntriesInTime
  <2> QED
    BY <1>1, <2>2, <2>3 DEF Tracking, EntriesInTime
<1>11. NoneQueued'
  BY <1>1 DEF NoneQueued
<1>12. Ending'
  <2>1. CASE released = Resource
    <3>1. DOMAIN new = {}
      BY <1>2, <2>1
    <3>2. new = <<>>
      BY <1>2, <3>1
    <3>3. tracked' = tracked
      BY <1>1, <1>2, <3>2
    <3> QED
      BY <3>3 DEF Tracking, Ending, Ends
  <2>2. CASE released # Resource
    <3>1. ~Ends(tracked) /\ ~Ends(tracking) /\ tracker # "ended"
      BY <2>2 DEF Tracking, Ending
    <3>2. \A i \in DOMAIN tracked' : tracked'[i].resource # NoResource
      BY <1>6, <3>1, MemoryTransfersAssumption DEF Ends
    <3> QED
      BY <3>1, <3>2 DEF Ending, Ends
  <2> QED
    BY <2>1, <2>2
<1> QED
  BY <1>7, <1>8, <1>9, <1>10, <1>11, <1>12 DEF Tracking

\* What is queued writes to no released texture.
LEMMA QueuesTrack ==
  ASSUME QueueInv, Tracking, NEW q \in Seq(Transfer), Queues(q), UNCHANGED <<released, tracking, tracker>>,
         \A i \in DOMAIN q : q[i].resource \notin released
  PROVE  Tracking'
<1>1. CASE transfers' = q /\ Unsubmitted
  <2>1. UNCHANGED <<next_signal_value, inflight, refs, tracked>>
    BY <1>1 DEF Unsubmitted
  <2>2. \A v, x : InFlight(v, x)' <=> InFlight(v, x)
    BY <2>1 DEF InFlight
  <2>3. WritesTracked'
    BY <2>1, <2>2 DEF Tracking, WritesTracked, Tracked
  <2>4. NoneQueued'
    BY <1>1 DEF NoneQueued
  <2> QED
    BY <2>1, <2>3, <2>4
    DEF Tracking, TrackTypes, RefsCounted, Count, EntriesOf, EntriesInTime, Ending, Ends
<1> QED
  BY <1>1, SubmitTracks DEF Queues

\* Steps that touch neither the tracker nor what it is to track.
LEMMA TrackingStays ==
  ASSUME Tracking, UNCHANGED <<refs, released, tracked, tracking, tracker, next_signal_value>>,
         \A v, x : InFlight(v, x)' => InFlight(v, x),
         \A k \in DOMAIN transfers' : \E j \in DOMAIN transfers : transfers'[k] = transfers[j]
  PROVE  Tracking'
<1>1. WritesTracked'
  BY DEF Tracking, WritesTracked, Tracked
<1>2. NoneQueued'
  BY DEF Tracking, NoneQueued
<1> QED
  BY <1>1, <1>2 DEF Tracking, TrackTypes, RefsCounted, Count, EntriesOf, EntriesInTime, Ending, Ends

\* The application lets go of a texture.
LEMMA ReleaseTracks ==
  ASSUME Tracking, NEW t \in Threads, NEW r \in Resource, ReleaseResource(t, r)
  PROVE  Tracking'
<1>1. /\ r \notin released /\ ~IsQueued(r) /\ released' = released \cup {r}
      /\ refs' = [refs EXCEPT ![r] = @ - 1]
      /\ UNCHANGED <<tracked, tracking, tracker, next_signal_value, inflight, transfers>>
  BY DEF ReleaseResource, queue, gpu
<1>2. /\ refs \in [Resource -> Int] /\ released \subseteq Resource
      /\ tracked \in Seq(Entry) /\ tracking \in Seq(Entry)
  BY DEF Tracking, TrackTypes
<1>3. TrackTypes'
  BY <1>1, <1>2 DEF Tracking, TrackTypes
<1>4. RefsCounted'
  <2> SUFFICES ASSUME NEW k \in Resource
      PROVE  refs'[k] = Count(tracked, k) + Count(tracking, k) + (IF k \in released' THEN 0 ELSE 1)
    BY <1>1 DEF RefsCounted, Count, EntriesOf
  <2>1. /\ refs[k] = Count(tracked, k) + Count(tracking, k) + (IF k \in released THEN 0 ELSE 1)
        /\ Count(tracked, k) \in Nat /\ Count(tracking, k) \in Nat
    BY <1>2, CountFacts DEF Tracking, RefsCounted
  <2>2. CASE k = r
    <3>1. refs'[k] = refs[k] - 1
      BY <1>1, <1>2, <2>2
    <3> QED
      BY <1>1, <2>1, <2>2, <3>1
  <2>3. CASE k # r
    <3>1. refs'[k] = refs[k] /\ (k \in released' <=> k \in released)
      BY <1>1, <1>2, <2>3
    <3> QED
      BY <2>1, <3>1
  <2> QED
    BY <2>2, <2>3
<1>5. WritesTracked'
  <2>1. \A v, x : InFlight(v, x)' <=> InFlight(v, x)
    BY <1>1 DEF InFlight
  <2> QED
    BY <1>1, <2>1 DEF Tracking, WritesTracked, Tracked
<1>6. NoneQueued'
  BY <1>1 DEF Tracking, NoneQueued, IsQueued
<1>7. Ending' /\ EntriesInTime'
  BY <1>1, <1>2 DEF Tracking, Ending, Ends, EntriesInTime
<1> QED
  BY <1>3, <1>4, <1>5, <1>6, <1>7 DEF Tracking

\* The queue is told to end its tracker.
LEMMA CleanupTracks ==
  ASSUME QueueInv, Tracking, Cleanup
  PROVE  Tracking'
<1> DEFINE e == [resource |-> NoResource, value |-> 0]
<1>1. /\ released = Resource /\ tracker = "running" /\ tracked' = Append(tracked, e)
      /\ ~Ends(tracked) /\ ~Ends(tracking)
      /\ UNCHANGED <<refs, released, tracking, tracker, next_signal_value, inflight, transfers>>
  BY DEF Cleanup, queue, gpu, Ends
<1>2. /\ tracked \in Seq(Entry) /\ tracking \in Seq(Entry) /\ next_signal_value \in Nat
      /\ next_signal_value > 0
  BY MemoryTransfersAssumption DEF Tracking, TrackTypes, QueueInv, QueueTypes, SubmissionsInOrder
<1>3. e \in Entry /\ e.resource = NoResource /\ e.value = 0
  BY DEF Entry
<1> HIDE DEF e
<1>4. /\ tracked' \in Seq(Entry) /\ DOMAIN tracked' = 1..(Len(tracked) + 1) /\ Len(tracked) \in Nat
      /\ DOMAIN tracked = 1..Len(tracked) /\ Len(tracked') = Len(tracked) + 1
      /\ \A i \in 1..Len(tracked) : tracked'[i] = tracked[i]
      /\ tracked'[Len(tracked) + 1] = e
  BY <1>1, <1>2, <1>3, Appended
<1>5. \A i \in DOMAIN tracked' : i \in DOMAIN tracked \/ i = Len(tracked) + 1
  BY <1>4
<1>6. TrackTypes'
  BY <1>1, <1>4 DEF Tracking, TrackTypes
<1>7. RefsCounted'
  <2> SUFFICES ASSUME NEW r \in Resource
      PROVE  refs[r] = Count(tracked', r) + Count(tracking, r) + (IF r \in released THEN 0 ELSE 1)
    BY <1>1 DEF RefsCounted, Count, EntriesOf
  <2>1. Count(tracked', r) = Count(tracked, r) + 0
    <3>1. Count(Append(tracked, e), r) = Count(tracked, r) + (IF e.resource = r THEN 1 ELSE 0)
      BY <1>2, <1>3, CountAppend
    <3>2. e.resource # r
      BY <1>3, MemoryTransfersAssumption
    <3> QED
      BY <1>1, <3>1, <3>2
  <2>2. Count(tracked, r) \in Nat
    BY <1>2, CountFacts
  <2>3. refs[r] = Count(tracked, r) + Count(tracking, r) + (IF r \in released THEN 0 ELSE 1)
    BY DEF Tracking, RefsCounted
  <2> QED
    BY <2>1, <2>2, <2>3
<1>8. WritesTracked'
  <2> SUFFICES ASSUME NEW v, NEW x, InFlight(v, x), x \in SubresourceWrite PROVE Tracked(v, x.resource)'
    BY <1>1 DEF WritesTracked, InFlight
  <2>1. Tracked(v, x.resource)
    BY DEF Tracking, WritesTracked
  <2>2. DOMAIN tracked \subseteq DOMAIN tracked'
    BY <1>4
  <2> QED
    BY <1>1, <1>4, <2>1, <2>2 DEF Tracked
<1>9. EntriesInTime'
  BY <1>1, <1>2, <1>3, <1>4, <1>5 DEF Tracking, EntriesInTime
<1>10. NoneQueued'
  BY <1>1 DEF Tracking, NoneQueued
<1>11. Ending'
  <2>1. \A i \in DOMAIN tracked' : tracked'[i].resource = NoResource => i = Len(tracked')
    BY <1>1, <1>4, <1>5 DEF Ends
  <2>2. \A i \in DOMAIN tracking : tracking[i].resource # NoResource
    BY <1>1 DEF Ends
  <2> QED
    BY <1>1, <2>1, <2>2 DEF Ending, Ends
<1> QED
  BY <1>6, <1>7, <1>8, <1>9, <1>10, <1>11 DEF Tracking

\* The tracker takes the queue's entries.
LEMMA TrackTracks ==
  ASSUME Tracking, Track
  PROVE  Tracking'
<1>1. /\ tracker = "running" /\ tracking = <<>> /\ tracked # <<>>
      /\ tracking' = tracked /\ tracked' = <<>>
      /\ UNCHANGED <<refs, released, tracker, next_signal_value, inflight, transfers>>
  BY DEF Track, queue, gpu
<1>2. tracked \in Seq(Entry) /\ tracking \in Seq(Entry) /\ DOMAIN tracking = {}
  BY <1>1 DEF Tracking, TrackTypes
<1>3. tracked' \in Seq(Entry) /\ DOMAIN tracked' = {}
  BY <1>1
<1>4. TrackTypes'
  BY <1>1, <1>2, <1>3 DEF Tracking, TrackTypes
<1>5. RefsCounted'
  <2> SUFFICES ASSUME NEW r \in Resource
      PROVE  refs[r] = Count(tracked', r) + Count(tracking', r) + (IF r \in released THEN 0 ELSE 1)
    BY <1>1 DEF RefsCounted, Count, EntriesOf
  <2>1. Count(tracked, r) \in Nat /\ Count(tracking, r) = Count(tracked', r)
    BY <1>1, <1>2, CountFacts
  <2>2. Count(tracking, r) \in Nat
    BY <1>2, CountFacts
  <2>3. refs[r] = Count(tracked, r) + Count(tracking, r) + (IF r \in released THEN 0 ELSE 1)
    BY DEF Tracking, RefsCounted
  <2> QED
    BY <1>1, <2>1, <2>2, <2>3
<1>6. WritesTracked'
  <2> SUFFICES ASSUME NEW v, NEW x, InFlight(v, x), x \in SubresourceWrite PROVE Tracked(v, x.resource)'
    BY <1>1 DEF WritesTracked, InFlight
  <2>1. Tracked(v, x.resource)
    BY DEF Tracking, WritesTracked
  <2> QED
    BY <1>1, <1>2, <2>1 DEF Tracked
<1>7. EntriesInTime' /\ NoneQueued' /\ Ending'
  BY <1>1, <1>2, <1>3 DEF Tracking, EntriesInTime, NoneQueued, Ending, Ends
<1> QED
  BY <1>4, <1>5, <1>6, <1>7 DEF Tracking

\* The tracker drops a reference when the copy is done, or ends.
LEMMA UntrackTracks ==
  ASSUME QueueInv, Tracking, Untrack
  PROVE  /\ Tracking' /\ last_known_value' \in Nat /\ last_known_value' <= semaphore
<1> DEFINE entry == Head(tracking)
<1>1. /\ tracker = "running" /\ tracking # <<>> /\ tracking' = Tail(tracking)
      /\ UNCHANGED <<released, tracked, next_signal_value, inflight, transfers, semaphore>>
      /\ IF entry.resource = NoResource
         THEN tracker' = "ended" /\ UNCHANGED <<refs, last_known_value>>
         ELSE /\ semaphore >= entry.value
              /\ last_known_value' = IF last_known_value >= entry.value
                                     THEN last_known_value ELSE entry.value
              /\ refs' = [refs EXCEPT ![entry.resource] = @ - 1]
              /\ UNCHANGED tracker
  BY DEF Untrack, queue, gpu
<1>2. /\ tracked \in Seq(Entry) /\ tracking \in Seq(Entry) /\ refs \in [Resource -> Int]
      /\ released \subseteq Resource
      /\ semaphore \in Nat /\ last_known_value \in Nat /\ last_known_value <= semaphore
  BY DEF Tracking, TrackTypes, QueueInv, QueueTypes, SubmissionsInOrder
<1>3. /\ tracking' \in Seq(Entry) /\ Len(tracking') = Len(tracking) - 1 /\ Len(tracking) \in Nat
      /\ DOMAIN tracking' = 1..(Len(tracking) - 1)
      /\ Len(tracking) >= 1 /\ DOMAIN tracking = 1..Len(tracking) /\ entry = tracking[1] /\ entry \in Entry
      /\ \A i \in 1..(Len(tracking) - 1) : tracking'[i] = tracking[i + 1]
  BY <1>1, <1>2, Behind
<1>4. entry.value \in Nat /\ entry.resource \in Resource \cup {NoResource}
  BY <1>3 DEF Entry
<1>5. \A r : /\ Count(tracking, r) = (IF entry.resource = r THEN 1 ELSE 0) + Count(tracking', r)
             /\ Count(tracking', r) \in Nat /\ Count(tracked, r) \in Nat
  BY <1>1, <1>2, <1>3, CountTail, CountFacts
<1>6. \A i \in 1..(Len(tracking) - 1) : i + 1 \in 1..Len(tracking)
  BY <1>3
<1>7. \A i \in 1..Len(tracking) : i # 1 => i - 1 \in 1..(Len(tracking) - 1) /\ (i - 1) + 1 = i
  BY <1>3
<1> HIDE DEF entry
<1>8. last_known_value' \in Nat /\ last_known_value' <= semaphore
  BY <1>1, <1>2, <1>4
<1>9. TrackTypes'
  BY <1>1, <1>2, <1>3, <1>4 DEF Tracking, TrackTypes
<1>10. RefsCounted'
  <2> SUFFICES ASSUME NEW r \in Resource
      PROVE  refs'[r] = Count(tracked, r) + Count(tracking', r) + (IF r \in released THEN 0 ELSE 1)
    BY <1>1 DEF RefsCounted, Count, EntriesOf
  <2>1. refs[r] = Count(tracked, r) + Count(tracking, r) + (IF r \in released THEN 0 ELSE 1)
    BY DEF Tracking, RefsCounted
  <2>2. CASE entry.resource = r
    <3>1. r # NoResource
      BY MemoryTransfersAssumption
    <3>2. refs' = [refs EXCEPT ![r] = @ - 1]
      BY <1>1, <2>2, <3>1
    <3>3. refs'[r] = refs[r] - 1
      BY <1>2, <3>2
    <3> QED
      BY <1>5, <2>1, <2>2, <3>3
  <2>3. CASE entry.resource # r
    <3>1. refs'[r] = refs[r]
      BY <1>1, <1>2, <2>3
    <3> QED
      BY <1>5, <2>1, <2>3, <3>1
  <2> QED
    BY <2>2, <2>3
<1>11. WritesTracked'
  <2> SUFFICES ASSUME NEW v, NEW x, InFlight(v, x), x \in SubresourceWrite PROVE Tracked(v, x.resource)'
    BY <1>1 DEF WritesTracked, InFlight
  <2>1. Tracked(v, x.resource) /\ v \in Nat /\ semaphore < v
    BY InFlightFacts DEF Tracking, WritesTracked
  <2>2. x.resource # NoResource
    BY MemoryTransfersAssumption DEF SubresourceWrite
  <2>3. CASE \E i \in DOMAIN tracked : tracked[i].resource = x.resource /\ tracked[i].value = v
    BY <1>1, <2>3 DEF Tracked
  <2>4. CASE \E i \in DOMAIN tracking : tracking[i].resource = x.resource /\ tracking[i].value = v
    <3>1. PICK i \in DOMAIN tracking : tracking[i].resource = x.resource /\ tracking[i].value = v
      BY <2>4
    <3>2. i # 1
      <4> SUFFICES ASSUME i = 1 PROVE FALSE
        OBVIOUS
      <4>1. entry.resource # NoResource /\ entry.value = v
        BY <1>3, <2>2, <3>1
      <4>2. semaphore >= v
        BY <1>1, <4>1
      <4> QED
        BY <1>2, <2>1, <4>2
    <3>3. i - 1 \in DOMAIN tracking' /\ tracking'[i - 1] = tracking[i]
      BY <1>3, <1>7, <3>1, <3>2
    <3> QED
      BY <3>1, <3>3 DEF Tracked
  <2> QED
    BY <2>1, <2>3, <2>4 DEF Tracked
<1>12. EntriesInTime' /\ NoneQueued'
  BY <1>1, <1>3, <1>6 DEF Tracking, EntriesInTime, NoneQueued
<1>13. Ending'
  <2>1. Ends(tracking') => Ends(tracking)
    BY <1>3, <1>6 DEF Ends
  <2>2. ASSUME NEW i \in DOMAIN tracking', tracking'[i].resource = NoResource
        PROVE  i = Len(tracking') /\ tracked = <<>>
    <3>1. i + 1 \in DOMAIN tracking /\ tracking[i + 1].resource = NoResource
      BY <1>3, <1>6, <2>2
    <3>2. i + 1 = Len(tracking) /\ tracked = <<>>
      BY <3>1 DEF Tracking, Ending
    <3> QED
      BY <1>3, <3>2
  <2>3. CASE entry.resource = NoResource
    <3>1. 1 \in DOMAIN tracking /\ tracking[1].resource = NoResource
      BY <1>3, <2>3
    <3>2. 1 = Len(tracking) /\ tracked = <<>> /\ released = Resource
      BY <3>1 DEF Tracking, Ending, Ends
    <3>3. tracking' = <<>>
      <4>1. Len(tracking) = 1
        BY <3>2
      <4>2. Len(Tail(tracking)) = 0 /\ Tail(tracking) \in Seq(Entry)
        <5>1. Len(tracking') = 0
          BY <1>3, <4>1
        <5> QED
          BY <1>1, <1>3, <5>1
      <4>0. ASSUME NEW s \in Seq(Entry), Len(s) = 0 PROVE s = <<>>
        BY <4>0
      <4>3. Tail(tracking) = <<>>
        BY <4>0, <4>2
      <4> QED
        BY <1>1, <4>3
    <3> QED
      BY <1>1, <2>2, <2>3, <3>2, <3>3 DEF Ending, Ends
  <2>4. CASE entry.resource # NoResource
    <3>1. tracker' = "running" /\ tracked' = tracked /\ released' = released
      BY <1>1, <2>4
    <3>2. Ends(tracked') \/ Ends(tracking') => released' = Resource
      BY <2>1, <3>1 DEF Tracking, Ending
    <3>3. \A i \in DOMAIN tracked' : tracked'[i].resource = NoResource => i = Len(tracked')
      BY <3>1 DEF Tracking, Ending
    <3> QED
      BY <2>2, <3>1, <3>2, <3>3 DEF Ending, Ends
  <2> QED
    BY <2>3, <2>4
<1> QED
  BY <1>8, <1>9, <1>10, <1>11, <1>12, <1>13 DEF Tracking

-----------------------------------------------------------------------------
(***************************************************************************)
(* How many bytes are queued.                                              *)
(***************************************************************************)

\* The units that the queued clears overwrite.
UnitsOfClear(x) == {x.memory} \X Units(x.offset, x.size)
QueuedClears(queued) == {x \in Clear : \E i \in DOMAIN queued : x = queued[i]}
UnitsOfQueued(queued) == {p \in Memory \X Nat : \E x \in QueuedClears(queued) : p \in UnitsOfClear(x)}

BytesCounted ==
  /\ IsFiniteSet(UnitsOfQueued(transfers))
  /\ num_bytes_pending = Cardinality(UnitsOfQueued(transfers))
  /\ num_bytes_pending < MaxPending

\* As many units as its size.
LEMMA ClearUnits ==
  ASSUME NEW x \in Clear
  PROVE  /\ IsFiniteSet(UnitsOfClear(x)) /\ Cardinality(UnitsOfClear(x)) = x.size
         /\ UnitsOfClear(x) \subseteq Memory \X Nat
<1>1. x.offset \in Nat /\ x.size \in Nat /\ x.memory \in Memory
  BY DEF Clear
<1> DEFINE first == x.offset
           last == x.offset + x.size - 1
           units == first..last
<1>2. first \in Int /\ last \in Int /\ (IF first > last THEN 0 ELSE last - first + 1) = x.size
  BY <1>1
<1> HIDE DEF first, last
<1>3. IsFiniteSet(units) /\ Cardinality(units) = x.size
  BY <1>2, FS_Interval
<1>4. UnitsOfClear(x) = {x.memory} \X units
  BY DEF UnitsOfClear, Units, first, last
<1>5. units \subseteq Nat
  BY <1>1 DEF first, last
<1> HIDE DEF units
<1>6. IsFiniteSet({x.memory}) /\ Cardinality({x.memory}) = 1
  BY FS_Singleton
<1> DEFINE one == {x.memory}
<1> HIDE DEF one
<1>7. IsFiniteSet(one) /\ Cardinality(one) = 1
  BY <1>6 DEF one
<1>8. IsFiniteSet(one \X units) /\ Cardinality(one \X units) = Cardinality(one) * Cardinality(units)
  BY <1>3, <1>7, FS_Product
<1>9. UnitsOfClear(x) = one \X units
  BY <1>4 DEF one
<1>10. Cardinality(UnitsOfClear(x)) = x.size
  BY <1>1, <1>3, <1>7, <1>8, <1>9
<1> QED
  BY <1>1, <1>4, <1>5, <1>8, <1>9, <1>10

\* Queued clears overwrite different units.
LEMMA QueuedApart ==
  ASSUME Inv, QueueInv, Clears, NEW x, NEW y, Pending(next_signal_value, x),
         NEW b \in Alloc, allocation[b].state = "held", y = clear_of(allocation[b]), x # y
  PROVE  UnitsOfClear(x) \cap UnitsOfClear(y) = {}
<1>1. PICK a \in Alloc : BelongsTo(x, a)
  BY DEF Clears, QueuedBelong
<1>2. allocation[a].state = "held" /\ x = clear_of(allocation[a]) /\ a # b
  BY <1>1 DEF BelongsTo
<1>3. /\ x.memory = allocation[a].memory /\ Units(x.offset, x.size) = UnitsOf(a)
      /\ y.memory = allocation[b].memory /\ Units(y.offset, y.size) = UnitsOf(b)
  BY <1>2 DEF clear_of, UnitsOf
<1>4. CASE x.memory # y.memory
  BY <1>4 DEF UnitsOfClear
<1>5. CASE x.memory = y.memory
  <2>1. UnitsOf(a) \cap UnitsOf(b) = {}
    BY <1>2, <1>3, <1>5, HeldApart
  <2> QED
    BY <1>3, <2>1 DEF UnitsOfClear
<1> QED
  BY <1>4, <1>5

\* A clear more.
LEMMA BytesAppended ==
  ASSUME Inv, Issued, BytesCounted, NEW t \in Threads, NEW a, NEW m, Fills(t, a, m),
         NEW y, y = clear_of(allocation[a]), NEW q, q = Append(transfers, y)
  PROVE  /\ IsFiniteSet(UnitsOfQueued(q))
         /\ num_bytes_pending + y.size = Cardinality(UnitsOfQueued(q))
<1>1. /\ thread[t].at = "fill" /\ a = thread[t].on /\ a \in Alloc /\ allocation[a].state = "held"
      /\ y \in Clear
  BY DEF Fills
<1>2. QueueInv /\ Clears /\ transfers \in Seq(Transfer) /\ y \in Transfer
  BY <1>1 DEF Issued, QueueInv, QueueTypes, Transfer
<1>3. /\ DOMAIN transfers = 1..Len(transfers) /\ DOMAIN q = 1..(Len(transfers) + 1)
      /\ Len(transfers) \in Nat
      /\ \A i \in 1..Len(transfers) : q[i] = transfers[i]
      /\ q[Len(transfers) + 1] = y
  BY <1>2, Appended
<1>4. /\ \A n \in Nat : \A i \in 1..(n + 1) : i \in 1..n \/ i = n + 1
      /\ \A n \in Nat : \A i \in 1..n : i \in 1..(n + 1)
      /\ \A n \in Nat : n + 1 \in 1..(n + 1)
  OBVIOUS
<1>5. QueuedClears(q) = QueuedClears(transfers) \cup {y}
  <2>1. \A x : (\E i \in DOMAIN q : x = q[i]) <=> (\E i \in DOMAIN transfers : x = transfers[i]) \/ x = y
    BY <1>3, <1>4
  <2> QED
    BY <1>1, <2>1 DEF QueuedClears
<1>6. /\ IsFiniteSet(UnitsOfClear(y)) /\ Cardinality(UnitsOfClear(y)) = y.size
      /\ UnitsOfClear(y) \subseteq Memory \X Nat /\ y.size \in Nat
  BY <1>1, ClearUnits DEF Clear
<1> DEFINE A == UnitsOfQueued(transfers)
           B == UnitsOfClear(y)
<1>7. UnitsOfQueued(q) = A \cup B
  BY <1>5, <1>6 DEF UnitsOfQueued
<1>8. A \cap B = {}
  <2> SUFFICES ASSUME NEW x \in QueuedClears(transfers) PROVE UnitsOfClear(x) \cap B = {}
    BY DEF UnitsOfQueued
  <2>1. Pending(next_signal_value, x)
    BY <1>2, PendingNext DEF QueuedClears
  <2>2. x # y
    BY <1>1, <1>2, <2>1, FillIsNew
  <2> QED
    BY <1>1, <1>2, <2>1, <2>2, QueuedApart
<1>9. IsFiniteSet(A) /\ IsFiniteSet(B) /\ num_bytes_pending = Cardinality(A) /\ Cardinality(B) = y.size
  BY <1>6 DEF BytesCounted
<1> HIDE DEF A, B
<1>10. IsFiniteSet(A \cup B) /\ Cardinality(A \cup B) = Cardinality(A) + Cardinality(B) - Cardinality(A \cap B)
  BY <1>9, FS_Union
<1>11. Cardinality(A \cap B) = 0 /\ Cardinality(A) \in Nat
  BY <1>8, <1>9, FS_EmptySet, FS_CardinalityType
<1>12. Cardinality(A \cup B) = num_bytes_pending + y.size
  BY <1>6, <1>9, <1>10, <1>11
<1> QED
  BY <1>7, <1>10, <1>12

\* A clear less.
LEMMA BytesRemoved ==
  ASSUME Inv, Issued, BytesCounted, NEW y \in Clear, Pending(next_signal_value, y),
         \A v, x : Pending(v, x)' <=> Pending(v, x) /\ ~(v = next_signal_value /\ x = y),
         NEW a \in Alloc, allocation[a].state = "held", y = clear_of(allocation[a]),
         num_bytes_pending' = num_bytes_pending - y.size,
         next_signal_value' = next_signal_value, QueueInv'
  PROVE  BytesCounted'
<1>1. QueueInv /\ Clears /\ next_signal_value \in Nat
  BY DEF Issued, QueueInv, QueueTypes
<1>2. \A x : x \in QueuedClears(transfers) <=> Pending(next_signal_value, x)
  BY <1>1, PendingNext DEF QueuedClears
<1>3. \A x : x \in QueuedClears(transfers') <=> Pending(next_signal_value, x)'
  <2> SUFFICES ASSUME NEW x PROVE x \in QueuedClears(transfers') <=> Pending(next_signal_value, x)'
    OBVIOUS
  <2>1. ASSUME InFlight(next_signal_value, x)' PROVE FALSE
    <3>1. PICK i \in DOMAIN inflight' : inflight'[i].value = next_signal_value'
      BY <2>1 DEF InFlight
    <3>2. /\ inflight'[i].value = semaphore' + i
          /\ Len(inflight') = next_signal_value' - 1 - semaphore'
          /\ inflight' \in Seq(Batch) /\ semaphore' \in Nat /\ next_signal_value' \in Nat
      BY <3>1 DEF QueueInv, QueueTypes, SubmissionsInOrder
    <3>3. i \in 1..Len(inflight')
      BY <3>1, <3>2
    <3> QED
      BY <3>1, <3>2, <3>3
  <2> QED
    BY <2>1 DEF Pending, ToCome, QueuedClears
<1>4. QueuedClears(transfers') = QueuedClears(transfers) \ {y}
  BY <1>2, <1>3
<1> DEFINE A == UnitsOfQueued(transfers)
           B == UnitsOfClear(y)
<1>5. /\ IsFiniteSet(B) /\ Cardinality(B) = y.size
      /\ B \subseteq Memory \X Nat /\ y.size \in Nat
  BY ClearUnits DEF Clear
<1>6. \A x \in QueuedClears(transfers) : x # y => UnitsOfClear(x) \cap B = {}
  BY <1>1, <1>2, QueuedApart
<1>7. y \in QueuedClears(transfers)
  BY <1>2
<1>8. UnitsOfQueued(transfers') = A \ B
  BY <1>4, <1>6 DEF UnitsOfQueued
<1>9. A \cap B = B
  BY <1>5, <1>7 DEF UnitsOfQueued
<1>10. IsFiniteSet(A) /\ num_bytes_pending = Cardinality(A) /\ num_bytes_pending < MaxPending
  BY DEF BytesCounted
<1> HIDE DEF A, B
<1>11. IsFiniteSet(A \ B) /\ Cardinality(A \ B) = Cardinality(A) - Cardinality(A \cap B)
  BY <1>10, FS_Difference
<1>12. Cardinality(A) \in Nat /\ MaxPending \in Nat
  BY <1>10, FS_CardinalityType, MemoryTransfersAssumption
<1>13. Cardinality(A \ B) = num_bytes_pending'
  BY <1>5, <1>9, <1>10, <1>11
<1>14. num_bytes_pending' < MaxPending
  BY <1>5, <1>10, <1>12
<1> QED
  BY <1>8, <1>11, <1>13, <1>14 DEF BytesCounted

\* As long as the clears in it are the same, the queue's units are.
LEMMA BytesSame ==
  ASSUME NEW q, NEW p,
         \A x \in Clear : (\E i \in DOMAIN q : x = q[i]) <=> (\E i \in DOMAIN p : x = p[i])
  PROVE  UnitsOfQueued(q) = UnitsOfQueued(p)
<1>1. QueuedClears(q) = QueuedClears(p)
  BY DEF QueuedClears
<1> QED
  BY <1>1 DEF UnitsOfQueued

\* The queue's size is counted from its transfers.
LEMMA BytesStay ==
  ASSUME BytesCounted, UNCHANGED num_bytes_pending, UnitsOfQueued(transfers') = UnitsOfQueued(transfers)
  PROVE  BytesCounted'
<1>1. UnitsOfQueued(transfers)' = UnitsOfQueued(transfers')
  BY DEF UnitsOfQueued, QueuedClears
<1>2. /\ IsFiniteSet(UnitsOfQueued(transfers')) /\ num_bytes_pending' < MaxPending
      /\ num_bytes_pending' = Cardinality(UnitsOfQueued(transfers'))
  BY DEF BytesCounted
<1> QED
  BY <1>1, <1>2 DEF BytesCounted

\* What was submitted is not counted any more.
LEMMA NoBytes ==
  ASSUME transfers' = <<>>, num_bytes_pending' = 0
  PROVE  BytesCounted'
<1>1. UnitsOfQueued(transfers)' = {}
  BY DEF UnitsOfQueued, QueuedClears
<1>2. IsFiniteSet({}) /\ Cardinality({}) = 0
  BY FS_EmptySet
<1>3. 0 < MaxPending
  BY MemoryTransfersAssumption
<1> QED
  BY <1>1, <1>2, <1>3 DEF BytesCounted

\* vkd3d_memory_transfer_queue_flush_locked.
LEMMA FlushBytes ==
  ASSUME BytesCounted, flush_locked(transfers, num_bytes_pending)
  PROVE  BytesCounted'
<1> DEFINE q == transfers
           n == num_bytes_pending
<1>1. flush_locked(q, n)
  OBVIOUS
<1> HIDE DEF q, n
<1>2. \/ q = <<>> /\ transfers' = <<>> /\ num_bytes_pending' = n /\ Unsubmitted
      \/ Submits(q)
  BY <1>1, FlushCases
<1>3. CASE q = <<>> /\ transfers' = <<>> /\ num_bytes_pending' = n
  <2>1. transfers' = transfers /\ num_bytes_pending' = num_bytes_pending
    BY <1>3 DEF q, n
  <2> QED
    BY <2>1, BytesStay
<1>4. CASE Submits(q)
  BY <1>4, NoBytes DEF Submits
<1> QED
  BY <1>2, <1>3, <1>4

\* Another transfer stays below the limit, or all are submitted.
LEMMA ExecuteTransferBytes ==
  ASSUME QueueInv, BytesCounted, NEW x \in Transfer, execute_transfer_locked(x),
         NEW q, q = Append(transfers, x), NEW n, n = num_bytes_pending + x.size,
         IsFiniteSet(UnitsOfQueued(q)), n = Cardinality(UnitsOfQueued(q)),
         num_bytes_pending \in Int, x.size \in Nat
  PROVE  BytesCounted'
<1>1. MaxPending \in Nat
  BY MemoryTransfersAssumption
<1>2. CASE num_bytes_pending + x.size >= MaxPending
  <2>1. flush_locked(q, n)
    BY <1>2 DEF execute_transfer_locked
  <2>2. q # <<>>
    <3>1. transfers \in Seq(Transfer)
      BY DEF QueueInv, QueueTypes
    <3> QED
      BY <3>1, Appended
  <2>3. Submits(q)
    BY <2>1, <2>2, FlushCases
  <2> QED
    BY <2>3, NoBytes DEF Submits
<1>3. CASE ~(num_bytes_pending + x.size >= MaxPending)
  <2>1. transfers' = q /\ num_bytes_pending' = n
    BY <1>3 DEF execute_transfer_locked
  <2>2. n < MaxPending
    BY <1>1, <1>3
  <2>3. UnitsOfQueued(transfers)' = UnitsOfQueued(q)
    BY <2>1 DEF UnitsOfQueued, QueuedClears
  <2> QED
    BY <2>1, <2>2, <2>3 DEF BytesCounted
<1> QED
  BY <1>2, <1>3

\* The queue's size is a number.
LEMMA BytesAreInt ==
  ASSUME BytesCounted
  PROVE  num_bytes_pending \in 0..(MaxPending - 1)
<1>1. num_bytes_pending \in Nat /\ num_bytes_pending < MaxPending
  BY FS_CardinalityType DEF BytesCounted
<1> QED
  BY <1>1, MemoryTransfersAssumption

\* vkd3d_memory_transfer_queue_fill_allocation.
LEMMA FillBytes ==
  ASSUME Inv, Issued, BytesCounted, NEW t \in Threads, NEW a, NEW m, Fills(t, a, m)
  PROVE  BytesCounted'
<1>1. PICK y : y = clear_of(allocation[a])
  OBVIOUS
<1>2. PICK q : q = Append(transfers, y)
  OBVIOUS
<1>3. PICK n : n = num_bytes_pending + y.size
  OBVIOUS
<1>4. y \in Clear /\ execute_transfer_locked(y)
  BY <1>1 DEF Fills
<1>5. y \in Transfer /\ y.size \in Nat
  BY <1>4 DEF Transfer, Clear
<1>6. IsFiniteSet(UnitsOfQueued(q)) /\ n = Cardinality(UnitsOfQueued(q))
  BY <1>1, <1>2, <1>3, BytesAppended
<1>7. num_bytes_pending \in Int
  BY BytesAreInt
<1> QED
  BY <1>2, <1>3, <1>4, <1>5, <1>6, <1>7, ExecuteTransferBytes DEF Issued

\* vkd3d_memory_transfer_queue_write_subresource.
LEMMA WriteBytes ==
  ASSUME Inv, Issued, BytesCounted, NEW t \in Threads, NEW r \in Resource, Write(t, r)
  PROVE  BytesCounted'
<1>1. PICK y : y = write_of(r)
  OBVIOUS
<1>2. PICK q : q = Append(transfers, y)
  OBVIOUS
<1>3. PICK n : n = num_bytes_pending + y.size
  OBVIOUS
<1>4. y \in SubresourceWrite /\ y \notin Clear /\ execute_transfer_locked(y)
  BY <1>1, WriteSubmits
<1>5. y \in Transfer /\ y.size = 0 /\ y.size \in Nat
  BY <1>1, <1>4 DEF Transfer, SubresourceWrite
<1>6. transfers \in Seq(Transfer)
  BY DEF Issued, QueueInv, QueueTypes
<1>7. \A x \in Clear : (\E i \in DOMAIN q : x = q[i]) <=> (\E i \in DOMAIN transfers : x = transfers[i])
  <2>1. /\ DOMAIN transfers = 1..Len(transfers) /\ DOMAIN q = 1..(Len(transfers) + 1)
        /\ \A i \in 1..Len(transfers) : q[i] = transfers[i]
        /\ q[Len(transfers) + 1] = y
    BY <1>2, <1>5, <1>6, Appended
  <2>2. Len(transfers) \in Nat
    BY <1>6
  <2>3. \A i \in 1..Len(transfers) : i \in 1..(Len(transfers) + 1)
    BY <2>2
  <2>4. \A i \in 1..(Len(transfers) + 1) : i = Len(transfers) + 1 \/ i \in 1..Len(transfers)
    BY <2>2
  <2> QED
    BY <1>4, <2>1, <2>3, <2>4
<1>8. UnitsOfQueued(q) = UnitsOfQueued(transfers)
  BY <1>7, BytesSame
<1>9. num_bytes_pending \in Int
  BY BytesAreInt
<1>10. n = num_bytes_pending
  BY <1>3, <1>5, <1>9
<1>11. IsFiniteSet(UnitsOfQueued(q)) /\ n = Cardinality(UnitsOfQueued(q))
  BY <1>8, <1>10 DEF BytesCounted
<1> QED
  BY <1>2, <1>3, <1>4, <1>5, <1>9, <1>11, ExecuteTransferBytes DEF Issued

\* A clear is taken out of the queue, and its size off.
LEMMA UnqueueBytes ==
  ASSUME Inv, Issued, BytesCounted, NEW t \in Threads, Unqueue(t)
  PROVE  BytesCounted'
<1>1. PICK y : y = clear_of(Region(t))
  OBVIOUS
<1>2. thread[t].at # "idle" /\ next_signal_value' = next_signal_value
      /\ UNCHANGED <<command_buffer_index, inflight, semaphore, last_known_value>>
  BY DEF Unqueue, gpu
<1>3. y \in Clear /\ y.size = Region(t).size
  BY <1>1, <1>2, RegionIsClear
<1>4. CASE /\ Pending(next_signal_value, y) /\ transfers' \in Seq(Transfer)
           /\ \A v, x : Pending(v, x)' <=> Pending(v, x) /\ ~(v = next_signal_value /\ x = y)
           /\ num_bytes_pending' = num_bytes_pending - Region(t).size
  <2>1. PICK b \in Alloc : BelongsTo(y, b)
    BY <1>4 DEF Issued, Clears, QueuedBelong
  <2>2. allocation[b].state = "held" /\ y = clear_of(allocation[b])
    BY <2>1 DEF BelongsTo
  <2>3. QueueInv'
    <3>1. QueueInv /\ last_known_value \in Nat /\ last_known_value <= semaphore
      BY DEF Issued, QueueInv, QueueTypes, SubmissionsInOrder
    <3> QED
      BY <1>2, <1>4, <3>1, PollKeepsQueue
  <2>4. num_bytes_pending' = num_bytes_pending - y.size
    BY <1>3, <1>4
  <2> QED
    BY <1>2, <1>3, <1>4, <2>2, <2>3, <2>4, BytesRemoved
<1>5. CASE UNCHANGED <<transfers, num_bytes_pending>>
  BY <1>5, BytesStay
<1> QED
  BY <1>1, <1>4, <1>5, UnqueuePending DEF Issued

-----------------------------------------------------------------------------
(***************************************************************************)
(* What the code stores.                                                   *)
(***************************************************************************)

\* Slices and memory objects are no larger than a chunk, and who waits, does so for a value.
Sizes ==
  /\ \A m \in Memory : memory[m].size \in 0..ChunkSize /\ (memory[m].kind # "chunk" => memory[m].ranges = <<>>)
  /\ \A a \in Alloc : allocation[a].state = "none" => allocation[a].offset = 0 /\ allocation[a].size = 0
  /\ \A t \in Threads : thread[t].wait \in Nat

\* Steps that change no size.
LEMMA SizesStay ==
  ASSUME Sizes, \A m \in Memory : memory'[m].size = memory[m].size /\ memory'[m].kind = memory[m].kind
                                  /\ memory'[m].ranges = memory[m].ranges,
         \A a \in Alloc : allocation'[a].state = allocation[a].state
                          /\ allocation'[a].offset = allocation[a].offset /\ allocation'[a].size = allocation[a].size,
         \A t \in Threads : thread'[t].wait \in Nat
  PROVE  Sizes'
BY DEF Sizes

\* vkd3d_allocate_memory.
LEMMA AllocateSizes ==
  ASSUME Sizes, Types, NEW t \in Threads, NEW a \in Alloc, NEW m \in Memory, Allocates(t, a, m),
         memory'[m].size \in 0..ChunkSize, memory'[m].kind # "chunk" => memory'[m].ranges = <<>>,
         thread'[t].wait \in Nat
  PROVE  Sizes'
<1>1. \A x \in Memory : memory'[x].size \in 0..ChunkSize /\ (memory'[x].kind # "chunk" => memory'[x].ranges = <<>>)
  BY DEF Sizes, Allocates
<1>2. \A b \in Alloc : allocation'[b].state = "none" => allocation'[b].offset = 0 /\ allocation'[b].size = 0
  BY DEF Sizes, Allocates
<1>3. \A u \in Threads : thread'[u].wait \in Nat
  BY DEF Sizes, Allocates
<1> QED
  BY <1>1, <1>2, <1>3 DEF Sizes

\* vkd3d_free_memory.
LEMMA ForgetSizes ==
  ASSUME Sizes, NEW t \in Threads, NEW a, NEW m, Forgets(t, a, m)
  PROVE  Sizes'
<1>1. \A x \in Memory : memory'[x].size \in 0..ChunkSize /\ (memory'[x].kind # "chunk" => memory'[x].ranges = <<>>)
  <2> SUFFICES ASSUME NEW x \in Memory
      PROVE  memory'[x].size \in 0..ChunkSize /\ (memory'[x].kind # "chunk" => memory'[x].ranges = <<>>)
    OBVIOUS
  <2>1. CASE x # m
    BY <2>1 DEF Sizes, Forgets
  <2>2. CASE x = m /\ memory'[m] = NoObject
    BY <2>2, MemoryTransfersAssumption DEF NoObject
  <2>3. CASE x = m /\ memory'[m].kind = "chunk" /\ memory'[m].size = memory[m].size
    BY <2>3 DEF Sizes
  <2> QED
    BY <2>1, <2>2, <2>3 DEF Forgets
<1>2. \A b \in Alloc : allocation'[b].state = "none" => allocation'[b].offset = 0 /\ allocation'[b].size = 0
  BY DEF Sizes, Forgets, NoAllocation
<1>3. \A u \in Threads : thread'[u].wait \in Nat
  BY DEF Sizes, Forgets, Idle
<1> QED
  BY <1>1, <1>2, <1>3 DEF Sizes

\* A chunk's last slice is given back.
LEMMA TakeWholeSizes ==
  ASSUME Sizes, NEW t \in Threads, NEW a, NEW m, TakesWhole(t, a, m), thread'[t].wait = thread[t].wait
  PROVE  Sizes'
<1>1. \A x \in Memory : memory'[x].size \in 0..ChunkSize /\ (memory'[x].kind # "chunk" => memory'[x].ranges = <<>>)
  BY DEF Sizes, TakesWhole
<1>2. \A u \in Threads : thread'[u].wait \in Nat
  BY DEF Sizes, TakesWhole
<1> QED
  BY <1>1, <1>2 DEF Sizes, TakesWhole

-----------------------------------------------------------------------------
(***************************************************************************)
(* All of it is inductive.                                                 *)
(***************************************************************************)
TransfersInv == Inv /\ Issued /\ Contents /\ Tracking /\ BytesCounted /\ Sizes

\* Steps that leave the queue and the tracker alone.
LEMMA QueueUntouched ==
  ASSUME Issued, Tracking, BytesCounted, QueueStays, UNCHANGED tracking_vars
  PROVE  /\ QueueInv' /\ QueuedOnce' /\ Tracking' /\ BytesCounted'
         /\ \A v, x : Pending(v, x)' <=> Pending(v, x)
         /\ next_signal_value \in Nat /\ next_signal_value' = next_signal_value
<1>1. QueueInv' /\ QueuedOnce' /\ \A v, x : Pending(v, x)' <=> Pending(v, x)
  BY StaysIssued
<1>2. UNCHANGED <<transfers, num_bytes_pending, inflight, next_signal_value, refs, released, tracked,
                  tracking, tracker>>
  BY DEF QueueStays, tracking_vars
<1>3. \A v, x : InFlight(v, x)' => InFlight(v, x)
  BY <1>2 DEF InFlight
<1>4. \A k \in DOMAIN transfers' : \E j \in DOMAIN transfers : transfers'[k] = transfers[j]
  BY <1>2
<1>5. Tracking'
  BY <1>2, <1>3, <1>4, TrackingStays
<1>6. BytesCounted'
  BY <1>2, BytesStay
<1>7. next_signal_value \in Nat
  BY DEF Issued, QueueInv, QueueTypes
<1> QED
  BY <1>1, <1>2, <1>5, <1>6, <1>7

\* A thread that starts to fill its allocation waits for nothing.
LEMMA StartWaits ==
  ASSUME Types, Sizes, NEW t \in Threads, NEW a \in Alloc, NEW request \in Requests,
         IF request.zeroed THEN start(t, a, "fill") ELSE UNCHANGED thread
  PROVE  thread'[t].wait \in Nat
<1> DEFINE new == [at |-> "fill", on |-> a, wait |-> 0]
<1>1. CASE request.zeroed
  <2>1. thread' = [thread EXCEPT ![t] = new] /\ new.wait = 0
    BY <1>1 DEF start
  <2> HIDE DEF new
  <2>2. thread'[t] = new
    BY <2>1 DEF Types
  <2> QED
    BY <2>1, <2>2
<1>2. CASE ~request.zeroed
  BY <1>2 DEF Sizes
<1> QED
  BY <1>1, <1>2

\* vkd3d_suballocate_memory.
LEMMA SuballocateInv ==
  ASSUME TransfersInv, Inv', NEW t \in Threads, NEW a \in Alloc, NEW request \in Requests,
         Suballocate(t, a, request)
  PROVE  TransfersInv'
<1>1. Types /\ Inv /\ Issued /\ QueueInv /\ Clears /\ Contents /\ Tracking /\ BytesCounted /\ Sizes
  BY DEF TransfersInv, Inv, Issued
<1>2. PICK m \in Memory : /\ Allocates(t, a, m) /\ allocator_mutex = Nobody /\ memory'[m].kind = "chunk"
                          /\ memory[m].kind = "none" => memory'[m].size = ChunkSize
                          /\ memory[m].kind = "chunk" => memory'[m].size = memory[m].size
  BY <1>1, SuballocateEffect
<1>3. QueueStays /\ UNCHANGED tracking_vars
  BY <1>2 DEF Allocates, Suballocate
<1>4. QueueInv' /\ QueuedOnce' /\ Tracking' /\ BytesCounted' /\ next_signal_value \in Nat
  BY <1>1, <1>3, QueueUntouched
<1>5. Clears'
  BY <1>1, <1>2, AllocateClears
<1>6. UnitsOf(a)' \subseteq 0..(ChunkSize - 1)
  <2>1. allocator_mutex' = Nobody /\ allocation'[a].state = "held" /\ allocation'[a].memory = m
    BY <1>2 DEF Allocates
  <2>2. a \in Owners(m)'
    BY <2>1, MemoryTransfersAssumption DEF Owners, Whole
  <2>3. ChunkExact(m)'
    BY DEF Inv, ChunksExact
  <2> QED
    BY <1>2, <2>2, <2>3 DEF ChunkExact
<1>7. Contents'
  BY <1>1, <1>2, <1>4, <1>6, AllocateContents
<1>8. Sizes'
  <2>1. memory'[m].size \in 0..ChunkSize
    <3>1. memory[m].kind \in {"none", "chunk"}
      BY <1>2 DEF Allocates
    <3> QED
      BY <1>1, <1>2, <3>1, MemoryTransfersAssumption DEF Sizes
  <2>2. thread'[t].wait \in Nat
    BY <1>1, StartWaits DEF Suballocate
  <2> QED
    BY <1>1, <1>2, <2>1, <2>2, AllocateSizes
<1> QED
  BY <1>4, <1>5, <1>7, <1>8 DEF TransfersInv, Issued

\* vkd3d_memory_allocation_init.
LEMMA AllocateDedicatedInv ==
  ASSUME TransfersInv, Inv', NEW t \in Threads, NEW a \in Alloc, NEW request \in Requests,
         AllocateDedicated(t, a, request)
  PROVE  TransfersInv'
<1>1. Types /\ Inv /\ Issued /\ QueueInv /\ Clears /\ Contents /\ Tracking /\ BytesCounted /\ Sizes
  BY DEF TransfersInv, Inv, Issued
<1>2. PICK m \in Memory : /\ Allocates(t, a, m) /\ memory'[m].ranges = <<>> /\ memory'[m].size \in 0..ChunkSize
                          /\ allocation'[a].offset = 0 /\ allocation'[a].size <= ChunkSize
  BY <1>1, AllocateDedicatedEffect
<1>3. QueueStays /\ UNCHANGED tracking_vars
  BY <1>2 DEF Allocates, AllocateDedicated
<1>4. QueueInv' /\ QueuedOnce' /\ Tracking' /\ BytesCounted' /\ next_signal_value \in Nat
  BY <1>1, <1>3, QueueUntouched
<1>5. Clears'
  BY <1>1, <1>2, AllocateClears
<1>6. UnitsOf(a)' \subseteq 0..(ChunkSize - 1)
  <2>1. allocation'[a].size \in Nat
    BY DEF Inv, Types, Allocation
  <2> QED
    BY <1>2, <2>1, MemoryTransfersAssumption DEF UnitsOf, Units
<1>7. Contents'
  BY <1>1, <1>2, <1>4, <1>6, AllocateContents
<1>8. thread'[t].wait \in Nat
  BY <1>1, StartWaits DEF AllocateDedicated
<1>9. Sizes'
  BY <1>1, <1>2, <1>8, AllocateSizes
<1> QED
  BY <1>4, <1>5, <1>7, <1>9 DEF TransfersInv, Issued

\* vkd3d_memory_transfer_queue_fill_allocation.
LEMMA FillInv ==
  ASSUME TransfersInv, Inv', NEW t \in Threads, Fill(t)
  PROVE  TransfersInv'
<1>1. Inv /\ Issued /\ QueueInv /\ Contents /\ Tracking /\ BytesCounted /\ Sizes
  BY DEF TransfersInv, Issued
<1>2. PICK a, m : Fills(t, a, m)
  BY <1>1, FillEffect
<1>3. Issued' /\ Contents' /\ BytesCounted'
  BY <1>1, <1>2, FillIssued, FillContents, FillBytes
<1>4. Tracking'
  <2>1. PICK y : y = clear_of(allocation[a])
    OBVIOUS
  <2>2. PICK q : q = Append(transfers, y)
    OBVIOUS
  <2>3. y \in Clear /\ execute_transfer_locked(y) /\ UNCHANGED <<released, tracking, tracker>>
    BY <1>2, <2>1 DEF Fills
  <2>4. Queues(q)
    BY <2>2, <2>3, ExecuteTransferQueues
  <2>5. y \in Transfer /\ transfers \in Seq(Transfer) /\ y.resource = NoResource
    BY <1>1, <2>3 DEF Transfer, Clear, QueueInv, QueueTypes
  <2>6. /\ q \in Seq(Transfer) /\ DOMAIN transfers = 1..Len(transfers)
        /\ DOMAIN q = 1..(Len(transfers) + 1) /\ \A i \in 1..Len(transfers) : q[i] = transfers[i]
        /\ q[Len(transfers) + 1] = y
    BY <2>2, <2>5, Appended
  <2>7. \A i \in 1..(Len(transfers) + 1) : i = Len(transfers) + 1 \/ i \in 1..Len(transfers)
    BY <2>5
  <2>8. NoResource \notin released /\ \A i \in DOMAIN transfers : transfers[i].resource \notin released
    BY <1>1, MemoryTransfersAssumption DEF Tracking, TrackTypes, NoneQueued
  <2>9. \A i \in DOMAIN q : q[i].resource \notin released
    BY <2>5, <2>6, <2>7, <2>8
  <2> QED
    BY <1>1, <2>3, <2>4, <2>6, <2>9, QueuesTrack
<1>5. Sizes'
  <2>1. /\ \A x \in Memory : memory'[x].size = memory[x].size /\ memory'[x].kind = memory[x].kind
                             /\ memory'[x].ranges = memory[x].ranges
        /\ \A b \in Alloc : allocation'[b].state = allocation[b].state
                            /\ allocation'[b].offset = allocation[b].offset
                            /\ allocation'[b].size = allocation[b].size
        /\ \A u \in Threads : thread'[u] = IF u = t THEN Idle ELSE thread[u]
    BY <1>2 DEF Fills
  <2>2. \A u \in Threads : thread'[u].wait \in Nat
    BY <1>1, <2>1 DEF Sizes, Idle
  <2> QED
    BY <1>1, <2>1, <2>2, SizesStay
<1> QED
  BY <1>3, <1>4, <1>5 DEF TransfersInv

\* Where a thread goes on, it waits for what it did.
LEMMA ProceedFacts ==
  ASSUME Types, NEW t \in Threads, NEW place, proceed(t, place)
  PROVE  /\ thread'[t].at = place /\ thread'[t].on = thread[t].on /\ thread'[t].wait = thread[t].wait
         /\ \A u \in Threads \ {t} : thread'[u] = thread[u]
<1> DEFINE new == [thread[t] EXCEPT !.at = place]
<1>1. thread' = [thread EXCEPT ![t] = new]
  BY DEF proceed
<1>2. new.at = place /\ new.on = thread[t].on /\ new.wait = thread[t].wait
  <2>1. thread[t] \in [at : Places, on : Alloc \cup {NoAlloc}, wait : Int]
    BY DEF Types
  <2> QED
    BY <2>1
<1> HIDE DEF new
<1>3. thread'[t] = new /\ \A u \in Threads \ {t} : thread'[u] = thread[u]
  BY <1>1 DEF Types
<1> QED
  BY <1>2, <1>3

\* The application frees an allocation.
LEMMA FreeInv ==
  ASSUME TransfersInv, Inv', NEW t \in Threads, NEW a \in Alloc, Free(t, a)
  PROVE  TransfersInv'
<1>1. Types /\ Inv /\ Issued /\ QueueInv /\ Clears /\ Contents /\ Tracking /\ BytesCounted /\ Sizes
  BY DEF TransfersInv, Inv, Issued
<1>2. /\ QueueStays /\ UNCHANGED tracking_vars
      /\ UNCHANGED <<allocator_mutex, memory, allocation, content, use, need, next_signal_value>>
      /\ thread[t].at = "idle" /\ use[a] # "submitted"
  BY DEF Free, QueueStays, allocator, queue, gpu, work
<1>3. /\ QueueInv' /\ QueuedOnce' /\ Tracking' /\ BytesCounted' /\ next_signal_value \in Nat
      /\ \A v, x : Pending(v, x)' <=> Pending(v, x)
  BY <1>1, <1>2, QueueUntouched
<1>4. Clears'
  BY <1>1, FreeClears
<1>5. /\ thread'[t].at \in {"give", "poll"} /\ thread'[t].on = a /\ thread'[t].wait = 0
      /\ \A u \in Threads \ {t} : thread'[u] = thread[u]
  <2> DEFINE place == IF allocation[a].clear = 0 THEN "give" ELSE "poll"
             new == [at |-> place, on |-> a, wait |-> 0]
  <2>1. thread' = [thread EXCEPT ![t] = new]
    BY DEF Free, start
  <2>2. new.at \in {"give", "poll"} /\ new.on = a /\ new.wait = 0
    OBVIOUS
  <2> HIDE DEF new
  <2>3. thread'[t] = new /\ \A u \in Threads \ {t} : thread'[u] = thread[u]
    BY <1>1, <2>1 DEF Types
  <2> QED
    BY <2>2, <2>3
<1>6. \A b \in Alloc : Keeps(b)
  BY <1>2, <1>3, AllKept
<1>7. Contents'
  BY <1>1, <1>2, <1>3, <1>5, <1>6, FreeingContents
<1>8. Sizes'
  <2>1. \A u \in Threads : thread'[u].wait \in Nat
    BY <1>1, <1>5 DEF Sizes
  <2> QED
    BY <1>1, <1>2, <2>1, SizesStay
<1> QED
  BY <1>3, <1>4, <1>7, <1>8 DEF TransfersInv, Issued

\* vkd3d_memory_transfer_queue_wait_allocation, but for the removal of the clear.
LEMMA WaitInv ==
  ASSUME TransfersInv, Inv', NEW t \in Threads, Poll(t) \/ Waited(t)
  PROVE  TransfersInv'
<1>1. Types /\ Inv /\ Issued /\ QueueInv /\ Clears /\ Contents /\ Tracking /\ BytesCounted /\ Sizes
  BY DEF TransfersInv, Inv, Issued
<1>2. Clears' /\ last_known_value' \in Nat /\ last_known_value' <= semaphore
  BY <1>1, PollClears, WaitedClears
<1>3. /\ UNCHANGED <<allocator_mutex, memory, allocation, content, use, need>>
      /\ UNCHANGED <<transfers, num_bytes_pending, next_signal_value, command_buffer_index>>
      /\ UNCHANGED <<inflight, semaphore>> /\ UNCHANGED <<refs, released, tracked, tracking, tracker>>
  <2>1. CASE Poll(t)
    BY <2>1 DEF Poll, allocator, queue, gpu, tracking_vars, work
  <2>2. CASE Waited(t)
    BY <2>2 DEF Waited, allocator, queue, gpu, tracking_vars, work
  <2> QED
    BY <2>1, <2>2
<1>4. PICK place \in {"give", "unqueue"} : proceed(t, place) /\ thread[t].at \in {"poll", "wait"}
  <2>1. CASE Poll(t)
    <3>1. CASE last_known_value' >= Region(t).clear
      BY <2>1, <3>1 DEF Poll
    <3>2. CASE ~(last_known_value' >= Region(t).clear)
      BY <2>1, <3>2 DEF Poll
    <3> QED
      BY <3>1, <3>2
  <2>2. CASE Waited(t)
    BY <2>2 DEF Waited
  <2> QED
    BY <2>1, <2>2
<1>5. /\ thread'[t].at = place /\ thread'[t].on = thread[t].on /\ thread'[t].wait = thread[t].wait
      /\ \A u \in Threads \ {t} : thread'[u] = thread[u]
  BY <1>1, <1>4, ProceedFacts
<1>6. QueueInv'
  <2>1. transfers' \in Seq(Transfer)
    BY <1>1, <1>3 DEF QueueInv, QueueTypes
  <2> QED
    BY <1>1, <1>2, <1>3, <2>1, PollKeepsQueue
<1>7. QueuedOnce'
  BY <1>1, <1>3 DEF Issued, QueuedOnce, Once
<1>8. \A v, x : Pending(v, x)' <=> Pending(v, x)
  BY <1>3, PendingUntouched
<1>9. \A b \in Alloc : Keeps(b)
  BY <1>3, <1>8, AllKept
<1>10. next_signal_value \in Nat /\ use[thread'[t].on] # "submitted"
  BY <1>1, <1>4, <1>5 DEF QueueInv, QueueTypes, Contents, Uses
<1>11. Contents'
  BY <1>1, <1>3, <1>4, <1>5, <1>8, <1>9, <1>10, FreeingContents
<1>12. Tracking'
  <2>1. \A v, x : InFlight(v, x)' => InFlight(v, x)
    BY <1>3 DEF InFlight
  <2>2. \A k \in DOMAIN transfers' : \E j \in DOMAIN transfers : transfers'[k] = transfers[j]
    BY <1>3
  <2> QED
    BY <1>1, <1>3, <2>1, <2>2, TrackingStays
<1>13. BytesCounted'
  BY <1>1, <1>3, BytesStay
<1>14. Sizes'
  <2>1. \A u \in Threads : thread'[u].wait \in Nat
    BY <1>1, <1>5 DEF Sizes
  <2> QED
    BY <1>1, <1>3, <2>1, SizesStay
<1> QED
  BY <1>2, <1>6, <1>7, <1>11, <1>12, <1>13, <1>14 DEF TransfersInv, Issued

\* The clear is taken out of the queue, or waited for.
LEMMA UnqueueInv ==
  ASSUME TransfersInv, Inv', NEW t \in Threads, Unqueue(t)
  PROVE  TransfersInv'
<1>1. Types /\ Inv /\ Issued /\ QueueInv /\ Clears /\ Contents /\ Tracking /\ BytesCounted /\ Sizes
      /\ QueuedOnce
  BY DEF TransfersInv, Inv, Issued
<1>2. Clears' /\ QueuedOnce' /\ transfers' \in Seq(Transfer)
  BY <1>1, UnqueueClears
<1>3. /\ thread[t].at = "unqueue"
      /\ UNCHANGED <<allocator_mutex, memory, allocation, content, use, need>>
      /\ UNCHANGED <<next_signal_value, command_buffer_index, last_known_value>>
      /\ UNCHANGED <<inflight, semaphore>> /\ UNCHANGED <<refs, released, tracked, tracking, tracker>>
  BY DEF Unqueue, allocator, queue, gpu, tracking_vars, work
<1>4. last_known_value \in Nat /\ last_known_value <= semaphore /\ next_signal_value \in Nat
  BY <1>1 DEF QueueInv, QueueTypes, SubmissionsInOrder
<1>5. QueueInv'
  BY <1>1, <1>2, <1>3, <1>4, PollKeepsQueue
<1>6. PICK y : y = clear_of(Region(t))
  OBVIOUS
<1>7. \/ /\ \A v, x : Pending(v, x)' <=> Pending(v, x) /\ ~(v = next_signal_value /\ x = y)
         /\ \A k \in DOMAIN transfers' : \E j \in DOMAIN transfers : transfers'[k] = transfers[j]
         /\ proceed(t, "give")
      \/ /\ UNCHANGED <<transfers, num_bytes_pending>>
         /\ IF memory[Region(t).memory].kind = "chunk" /\ ~Whole(t)
            THEN proceed(t, "give")
            ELSE thread' = [thread EXCEPT ![t] =
                   [@ EXCEPT !.at = "wait", !.wait = last_signalled(Region(t).clear)]]
  BY <1>1, <1>6, UnqueuePending
<1>8. /\ \A v, x : Pending(v, x)' => Pending(v, x)
      /\ \A k \in DOMAIN transfers' : \E j \in DOMAIN transfers : transfers'[k] = transfers[j]
  <2>1. CASE UNCHANGED <<transfers, num_bytes_pending>>
    BY <1>3, <2>1, PendingUntouched
  <2> QED
    BY <1>7, <2>1
<1>9. /\ thread'[t].at \in {"give", "wait"} /\ thread'[t].on = thread[t].on
      /\ thread'[t].at = "give" => thread'[t].wait = thread[t].wait
      /\ \A u \in Threads \ {t} : thread'[u] = thread[u]
  <2>1. CASE proceed(t, "give")
    BY <1>1, <2>1, ProceedFacts
  <2>2. CASE thread' = [thread EXCEPT ![t] =
                   [@ EXCEPT !.at = "wait", !.wait = last_signalled(Region(t).clear)]]
    <3> DEFINE value == last_signalled(Region(t).clear)
               new == [thread[t] EXCEPT !.at = "wait", !.wait = value]
    <3>1. thread' = [thread EXCEPT ![t] = new]
      BY <2>2
    <3>2. thread[t] \in [at : Places, on : Alloc \cup {NoAlloc}, wait : Int]
      BY <1>1 DEF Types
    <3> HIDE DEF value
    <3>3. new.at = "wait" /\ new.on = thread[t].on
      BY <3>2
    <3> HIDE DEF new
    <3>4. thread'[t] = new /\ \A u \in Threads \ {t} : thread'[u] = thread[u]
      BY <1>1, <3>1 DEF Types
    <3> QED
      BY <3>3, <3>4
  <2> QED
    BY <1>7, <2>1, <2>2
<1>10. use[thread'[t].on] # "submitted"
  BY <1>1, <1>3, <1>9 DEF Contents, Uses
<1>11. \A b \in Alloc : Settled(b)' /\ allocation[b].state = "held" => Keeps(b)
  BY <1>1, <1>9, UnqueueKeeps
<1>12. Contents'
  BY <1>1, <1>3, <1>4, <1>8, <1>9, <1>10, <1>11, FreeingContents
<1>13. Tracking'
  <2>1. \A v, x : InFlight(v, x)' => InFlight(v, x)
    BY <1>3 DEF InFlight
  <2> QED
    BY <1>1, <1>3, <1>8, <2>1, TrackingStays
<1>14. BytesCounted'
  BY <1>1, UnqueueBytes
<1>15. Sizes'
  <2>1. thread'[t].wait \in Nat
    BY <1>1, <1>2, <1>9 DEF Sizes, Clears, Waits, Waiting
  <2>2. \A u \in Threads : thread'[u].wait \in Nat
    BY <1>1, <1>9, <2>1 DEF Sizes
  <2> QED
    BY <1>1, <1>3, <2>2, SizesStay
<1> QED
  BY <1>2, <1>5, <1>12, <1>13, <1>14, <1>15 DEF TransfersInv, Issued

\* An allocation is forgotten.
LEMMA ForgetInv ==
  ASSUME TransfersInv, Inv', NEW t \in Threads, NEW a, NEW m, Forgets(t, a, m), UNCHANGED tracking_vars
  PROVE  TransfersInv'
<1>1. Inv /\ Issued /\ QueueInv /\ Clears /\ Contents /\ Tracking /\ BytesCounted /\ Sizes
  BY DEF TransfersInv, Issued
<1>2. QueueStays
  BY DEF Forgets
<1>3. QueueInv' /\ QueuedOnce' /\ Tracking' /\ BytesCounted'
  BY <1>1, <1>2, QueueUntouched
<1> QED
  BY <1>1, <1>3, ForgetClears, ForgetContents, ForgetSizes DEF TransfersInv, Issued

\* A chunk's last slice is given back.
LEMMA TakeWholeInv ==
  ASSUME TransfersInv, Inv', NEW t \in Threads, NEW a, NEW m, TakesWhole(t, a, m), UNCHANGED tracking_vars,
         thread'[t].wait = thread[t].wait
  PROVE  TransfersInv'
<1>1. Inv /\ Issued /\ QueueInv /\ Clears /\ Contents /\ Tracking /\ BytesCounted /\ Sizes
  BY DEF TransfersInv, Issued
<1>2. /\ QueueStays /\ UNCHANGED <<content, use, need, allocation>> /\ thread[t].at = "give"
      /\ thread'[t].on = a /\ thread[t].on = a /\ thread'[t].at \in {"give", "poll"}
      /\ \A u \in Threads \ {t} : thread'[u] = thread[u]
  BY DEF TakesWhole
<1>3. /\ QueueInv' /\ QueuedOnce' /\ Tracking' /\ BytesCounted' /\ next_signal_value \in Nat
      /\ \A v, x : Pending(v, x)' <=> Pending(v, x)
      /\ next_signal_value' = next_signal_value
  BY <1>1, <1>2, QueueUntouched
<1>4. \A b \in Alloc : Keeps(b)
  BY <1>2, <1>3, AllKept
<1>5. use[thread'[t].on] # "submitted"
  BY <1>1, <1>2 DEF Contents, Uses
<1>6. Contents'
  BY <1>1, <1>2, <1>3, <1>4, <1>5, FreeingContents
<1> QED
  BY <1>1, <1>3, <1>6, TakeWholeClears, TakeWholeSizes DEF TransfersInv, Issued

\* vkd3d_free_memory's last steps.
LEMMA GiveInv ==
  ASSUME TransfersInv, Inv', NEW t \in Threads, GiveMemory(t) \/ GiveRange(t)
  PROVE  TransfersInv'
<1> DEFINE a == thread[t].on
           m == allocation[a].memory
<1>1. Inv /\ Types /\ UNCHANGED tracking_vars
  BY DEF TransfersInv, Inv, GiveMemory, GiveRange
<1>2. Forgets(t, a, m) \/ (GiveRange(t) /\ TakesWhole(t, a, m))
  BY <1>1, GiveMemoryEffect, GiveRangeEffect
<1>3. CASE GiveRange(t) /\ TakesWhole(t, a, m)
  <2>1. PICK place : proceed(t, place)
    <3>1. allocator_mutex = Nobody /\ allocator_mutex' = t /\ t # Nobody
      BY <1>3, MemoryTransfersAssumption DEF TakesWhole
    <3> QED
      BY <1>3, <3>1 DEF GiveRange
  <2>2. thread'[t].wait = thread[t].wait
    BY <1>1, <2>1, ProceedFacts
  <2> QED
    BY <1>1, <1>3, <2>2, TakeWholeInv
<1>4. CASE Forgets(t, a, m)
  BY <1>1, <1>4, ForgetInv
<1> QED
  BY <1>2, <1>3, <1>4

\* What is queued, and not submitted, writes to textures the application has.
LEMMA FlushTracks ==
  ASSUME QueueInv, Tracking, flush_locked(transfers, num_bytes_pending),
         UNCHANGED <<released, tracking, tracker>>
  PROVE  Tracking'
<1> DEFINE q == transfers
           n == num_bytes_pending
<1>1. q \in Seq(Transfer) /\ \A i \in DOMAIN q : q[i].resource \notin released
  BY DEF QueueInv, QueueTypes, Tracking, NoneQueued
<1>2. flush_locked(q, n)
  OBVIOUS
<1> HIDE DEF q, n
<1>3. Queues(q)
  BY <1>2, FlushQueues
<1> QED
  BY <1>1, <1>3, QueuesTrack

\* d3d12_command_queue_ExecuteCommandLists.
LEMMA ExecuteInv ==
  ASSUME TransfersInv, Inv', NEW t \in Threads, NEW a \in Alloc, Execute(t, a)
  PROVE  TransfersInv'
<1>1. Inv /\ Issued /\ QueueInv /\ Contents /\ Tracking /\ BytesCounted /\ Sizes
  BY DEF TransfersInv, Issued
<1>2. /\ flush_locked(transfers, num_bytes_pending)
      /\ UNCHANGED <<allocator_mutex, memory, allocation, thread, content, semaphore>>
      /\ UNCHANGED <<released, tracking, tracker>>
  BY DEF Execute, allocator
<1>3. Issued'
  BY <1>1, <1>2, FlushSubmits, SubmittingIssued
<1>4. Sizes'
  BY <1>1, <1>2 DEF Sizes
<1> QED
  BY <1>1, <1>2, <1>3, <1>4, ExecuteContents, FlushTracks, FlushBytes DEF TransfersInv

\* Transfers are added to the queue, or submitted.
LEMMA SubmittingContents ==
  ASSUME Inv, Issued, Contents, NEW q, Submitting(q), UNCHANGED <<use, need>>
  PROVE  Contents'
<1>1. /\ next_signal_value' \in Nat /\ next_signal_value <= next_signal_value'
      /\ \A v, x : Pending(v, x)' <=> Pending(v, x)
  BY SubmittingIssued
<1>2. UNCHANGED <<content, use, need, allocation>> /\ UNCHANGED thread
  BY DEF Submitting
<1>3. next_signal_value \in Nat
  BY DEF Issued, QueueInv, QueueTypes
<1>4. \A b \in Alloc : Keeps(b)
  BY <1>1, <1>2, AllKept
<1>5. \A u \in Threads : /\ thread'[u].at = "fill" => use[thread'[u].on] = "unused"
                         /\ thread'[u].at # "idle" => use[thread'[u].on] # "submitted"
  BY <1>2 DEF Contents, Uses
<1>6. \A b \in Alloc : Settled(b)' => Settled(b)
  BY <1>2 DEF Settled
<1> QED
  BY <1>1, <1>2, <1>3, <1>4, <1>5, <1>6, ContentsStay

\* vkd3d_memory_transfer_queue_flush.
LEMMA FlushInv ==
  ASSUME TransfersInv, Inv', NEW t \in Threads, Flush(t)
  PROVE  TransfersInv'
<1>1. Inv /\ Issued /\ QueueInv /\ Contents /\ Tracking /\ BytesCounted /\ Sizes
  BY DEF TransfersInv, Issued
<1>2. /\ flush_locked(transfers, num_bytes_pending)
      /\ UNCHANGED <<allocator_mutex, memory, allocation, thread, content, semaphore>>
      /\ UNCHANGED <<released, tracking, tracker>> /\ UNCHANGED <<use, need>>
  BY DEF Flush, allocator, work
<1>3. Submitting(transfers)
  BY <1>1, <1>2, FlushSubmits
<1>4. Issued' /\ Contents'
  <2> DEFINE q == transfers
  <2>1. Submitting(q)
    BY <1>3
  <2> HIDE DEF q
  <2> QED
    BY <1>1, <1>2, <2>1, SubmittingIssued, SubmittingContents
<1>5. Sizes'
  BY <1>1, <1>2 DEF Sizes
<1> QED
  BY <1>1, <1>2, <1>4, <1>5, FlushTracks, FlushBytes DEF TransfersInv

\* vkd3d_memory_transfer_queue_write_subresource.
LEMMA WriteInv ==
  ASSUME TransfersInv, Inv', NEW t \in Threads, NEW r \in Resource, Write(t, r)
  PROVE  TransfersInv'
<1>1. Inv /\ Issued /\ QueueInv /\ Contents /\ Tracking /\ BytesCounted /\ Sizes
  BY DEF TransfersInv, Issued
<1>2. /\ UNCHANGED <<allocator_mutex, memory, allocation, thread, content, semaphore>>
      /\ UNCHANGED <<released, tracking, tracker>> /\ UNCHANGED <<use, need>> /\ r \notin released
  BY DEF Write, allocator
<1>3. PICK y : y = write_of(r)
  OBVIOUS
<1>4. PICK q : q = Append(transfers, y)
  OBVIOUS
<1>5. y \in SubresourceWrite /\ y.resource = r /\ Submitting(q)
  BY <1>1, <1>3, <1>4, WriteSubmits
<1>6. Issued' /\ Contents'
  BY <1>1, <1>2, <1>5, SubmittingIssued, SubmittingContents
<1>7. Tracking'
  <2>1. y \in Transfer /\ transfers \in Seq(Transfer) /\ q \in Seq(Transfer) /\ Queues(q)
    BY <1>1, <1>5 DEF Transfer, QueueInv, QueueTypes, Submitting
  <2>2. /\ DOMAIN transfers = 1..Len(transfers)
        /\ DOMAIN q = 1..(Len(transfers) + 1) /\ \A i \in 1..Len(transfers) : q[i] = transfers[i]
        /\ q[Len(transfers) + 1] = y
    BY <1>4, <2>1, Appended
  <2>3. \A i \in 1..(Len(transfers) + 1) : i = Len(transfers) + 1 \/ i \in 1..Len(transfers)
    BY <2>1
  <2>4. \A i \in DOMAIN transfers : transfers[i].resource \notin released
    BY <1>1 DEF Tracking, NoneQueued
  <2>5. \A i \in DOMAIN q : q[i].resource \notin released
    BY <1>2, <1>5, <2>2, <2>3, <2>4
  <2> QED
    BY <1>1, <1>2, <2>1, <2>5, QueuesTrack
<1>8. Sizes'
  BY <1>1, <1>2 DEF Sizes
<1> QED
  BY <1>1, <1>6, <1>7, <1>8, WriteBytes DEF TransfersInv

\* Steps of the application and the tracker that touch no memory.
LEMMA OtherInv ==
  ASSUME TransfersInv, UNCHANGED <<allocator_mutex, memory, allocation, thread, transfers,
                                   next_signal_value, command_buffer_index, inflight, semaphore>>,
         UNCHANGED <<content, use, need, num_bytes_pending>>,
         last_known_value' \in Nat, last_known_value' <= semaphore, Tracking', Inv'
  PROVE  TransfersInv'
<1>1. Inv /\ Issued /\ Contents /\ BytesCounted /\ Sizes
  BY DEF TransfersInv
<1>2. Issued' /\ \A v, x : Pending(v, x)' <=> Pending(v, x)
  BY <1>1, OthersIssued
<1>3. Contents'
  <2>1. next_signal_value \in Nat
    BY <1>1 DEF Issued, QueueInv, QueueTypes
  <2>2. \A b \in Alloc : Keeps(b)
    BY <1>2, AllKept
  <2>3. \A u \in Threads : /\ thread'[u].at = "fill" => use[thread'[u].on] = "unused"
                           /\ thread'[u].at # "idle" => use[thread'[u].on] # "submitted"
    BY <1>1 DEF Contents, Uses
  <2>4. \A b \in Alloc : Settled(b)' => Settled(b)
    BY DEF Settled
  <2> QED
    BY <1>1, <1>2, <2>1, <2>2, <2>3, <2>4, ContentsStay
<1>4. BytesCounted'
  BY <1>1, BytesStay
<1>5. Sizes'
  BY <1>1 DEF Sizes
<1> QED
  BY <1>2, <1>3, <1>4, <1>5 DEF TransfersInv

\* The application lets go of a texture, and the tracker of its references.
LEMMA TrackerInv ==
  ASSUME TransfersInv, Inv', \/ \E t \in Threads, r \in Resource : ReleaseResource(t, r)
                             \/ Cleanup \/ Track \/ Untrack
  PROVE  TransfersInv'
<1>1. QueueInv /\ Tracking /\ last_known_value \in Nat /\ last_known_value <= semaphore
  BY DEF TransfersInv, Issued, QueueInv, QueueTypes, SubmissionsInOrder
<1>2. CASE \E t \in Threads, r \in Resource : ReleaseResource(t, r)
  BY <1>1, <1>2, ReleaseTracks, OtherInv DEF ReleaseResource, allocator, queue, gpu, work
<1>3. CASE Cleanup
  BY <1>1, <1>3, CleanupTracks, OtherInv DEF Cleanup, allocator, queue, gpu, work
<1>4. CASE Track
  BY <1>1, <1>4, TrackTracks, OtherInv DEF Track, allocator, queue, gpu, work
<1>5. CASE Untrack
  BY <1>1, <1>5, UntrackTracks, OtherInv DEF Untrack, allocator, queue, gpu, work
<1> QED
  BY <1>2, <1>3, <1>4, <1>5

\* A command list runs.
LEMMA RunInv ==
  ASSUME TransfersInv, Inv', NEW a \in Alloc, Run(a)
  PROVE  TransfersInv'
<1>1. Inv /\ Issued /\ QueueInv /\ Contents /\ Tracking /\ BytesCounted /\ Sizes
  BY DEF TransfersInv, Issued
<1>2. /\ UNCHANGED <<allocator_mutex, memory, allocation, thread, transfers, next_signal_value,
                     command_buffer_index, inflight, semaphore>>
      /\ QueueStays /\ UNCHANGED tracking_vars /\ last_known_value' = last_known_value
  BY DEF Run, QueueStays, queue, gpu
<1>3. last_known_value' \in Nat /\ last_known_value' <= semaphore
  BY <1>1, <1>2 DEF QueueInv, QueueTypes, SubmissionsInOrder
<1>4. Issued' /\ Tracking' /\ BytesCounted'
  BY <1>1, <1>2, <1>3, OthersIssued, QueueUntouched
<1>5. Sizes'
  BY <1>1, <1>2 DEF Sizes
<1> QED
  BY <1>1, <1>4, <1>5, RunContents DEF TransfersInv

\* The GPU finishes a submission.
LEMMA CompleteInv ==
  ASSUME TransfersInv, Inv', Complete
  PROVE  TransfersInv'
<1>1. Inv /\ Issued /\ QueueInv /\ Contents /\ Tracking /\ BytesCounted /\ Sizes
  BY DEF TransfersInv, Issued
<1>2. /\ UNCHANGED <<allocator_mutex, memory, allocation, thread, transfers, num_bytes_pending,
                     next_signal_value>>
      /\ UNCHANGED <<refs, released, tracked, tracking, tracker>>
  BY DEF Complete, queue, tracking_vars
<1>3. Issued' /\ Contents'
  BY <1>1, CompleteIssued, CompleteContents
<1>4. Tracking'
  <2>1. \A v, x : InFlight(v, x)' => InFlight(v, x)
    BY <1>1, CompletePending
  <2>2. \A k \in DOMAIN transfers' : \E j \in DOMAIN transfers : transfers'[k] = transfers[j]
    BY <1>2
  <2> QED
    BY <1>1, <1>2, <2>1, <2>2, TrackingStays
<1>5. BytesCounted'
  BY <1>1, <1>2, BytesStay
<1>6. Sizes'
  BY <1>1, <1>2 DEF Sizes
<1> QED
  BY <1>3, <1>4, <1>5, <1>6 DEF TransfersInv

\* Everything holds when the device is created.
LEMMA TransfersInit ==
  ASSUME Init
  PROVE  TransfersInv
<1>1. Inv
  BY InitInv
<1>2. CommandBuffers \in Nat \ {0} /\ ChunkSize \in Nat \ {0}
  BY MemoryTransfersAssumption
<1>3. /\ transfers = <<>> /\ inflight = <<>> /\ semaphore = CommandBuffers
      /\ last_known_value = CommandBuffers /\ next_signal_value = CommandBuffers + 1
      /\ command_buffer_index = 0 /\ num_bytes_pending = 0
  BY DEF Init
<1>4. QueueInv
  <2>1. Len(inflight) = 0 /\ DOMAIN inflight = {} /\ inflight \in Seq(Batch) /\ transfers \in Seq(Transfer)
    BY <1>3
  <2>2. Buffer(next_signal_value) = 0
    <3>1. next_signal_value - 1 - CommandBuffers = 0 /\ 0 % CommandBuffers = 0
      BY <1>2, <1>3
    <3> QED
      BY <3>1 DEF Buffer
  <2>3. QueueTypes
    BY <1>2, <1>3, <2>1 DEF QueueTypes
  <2>4. SubmissionsInOrder
    BY <1>2, <1>3, <2>1, <2>2 DEF SubmissionsInOrder
  <2> QED
    BY <2>3, <2>4 DEF QueueInv
<1>5. \A v, x : ~InFlight(v, x) /\ ~Pending(v, x)
  BY <1>3 DEF InFlight, Pending, ToCome
<1>6. QueuedOnce
  BY <1>3 DEF QueuedOnce, Once
<1>7. /\ \A m \in Memory : memory[m] = NoObject
      /\ \A a \in Alloc : allocation[a] = NoAllocation /\ use[a] = "unused" /\ need[a] = 0
      /\ \A t \in Threads : thread[t] = Idle
  BY DEF Init
<1>8. Clears
  BY <1>2, <1>3, <1>5, <1>7
     DEF Clears, QueuedBelong, PendingKnown, ClearsAreIssued, Waits, Waiting, NoObject, NoAllocation, Idle
<1>9. Contents
  <2>1. UseTypes
    BY DEF UseTypes, Init
  <2>2. HeldInside /\ Zeros /\ Datas
    BY <1>7 DEF HeldInside, Zeros, Datas, NoAllocation
  <2>3. Uses
    BY <1>2, <1>3, <1>7 DEF Uses, NoAllocation, Idle
  <2> QED
    BY <2>1, <2>2, <2>3 DEF Contents
<1>10. Tracking
  <2>1. /\ tracked = <<>> /\ tracking = <<>> /\ tracker = "running" /\ released = {}
        /\ refs = [r \in Resource |-> 1]
    BY DEF Init
  <2>2. <<>> \in Seq(Entry) /\ DOMAIN <<>> = {}
    OBVIOUS
  <2>3. \A r : Count(<<>>, r) = 0
    BY <2>2, CountFacts
  <2>4. RefsCounted
    BY <2>1, <2>3 DEF RefsCounted
  <2>5. TrackTypes
    BY <2>1, <2>2 DEF TrackTypes
  <2>6. WritesTracked /\ EntriesInTime /\ NoneQueued
    BY <1>3, <1>5, <2>1 DEF WritesTracked, EntriesInTime, NoneQueued
  <2>7. Ending
    BY <2>1 DEF Ending, Ends
  <2> QED
    BY <2>4, <2>5, <2>6, <2>7 DEF Tracking
<1>11. BytesCounted
  <2>1. UnitsOfQueued(transfers) = {}
    BY <1>3 DEF UnitsOfQueued, QueuedClears
  <2>2. IsFiniteSet({}) /\ Cardinality({}) = 0 /\ 0 < MaxPending
    BY FS_EmptySet, MemoryTransfersAssumption
  <2> QED
    BY <1>3, <2>1, <2>2 DEF BytesCounted
<1>12. Sizes
  BY <1>2, <1>7 DEF Sizes, NoObject, NoAllocation, Idle
<1> QED
  BY <1>1, <1>4, <1>6, <1>8, <1>9, <1>10, <1>11, <1>12 DEF TransfersInv, Issued

\* Every step keeps it.
LEMMA TransfersNext ==
  ASSUME TransfersInv, [Next]_vars
  PROVE  TransfersInv'
<1>1. Inv'
  BY NextInv DEF TransfersInv
<1>2. ASSUME NEW t \in Threads, NEW a \in Alloc, NEW request \in Requests,
             Suballocate(t, a, request) \/ AllocateDedicated(t, a, request)
      PROVE  TransfersInv'
  BY <1>1, <1>2, SuballocateInv, AllocateDedicatedInv
<1>3. ASSUME NEW t \in Threads, NEW a \in Alloc, Free(t, a) \/ Execute(t, a)
      PROVE  TransfersInv'
  BY <1>1, <1>3, FreeInv, ExecuteInv
<1>4. ASSUME NEW t \in Threads, Fill(t) \/ FreeStep(t) \/ Flush(t)
      PROVE  TransfersInv'
  BY <1>1, <1>4, FillInv, WaitInv, UnqueueInv, GiveInv, FlushInv DEF FreeStep
<1>5. ASSUME NEW t \in Threads, NEW r \in Resource, Write(t, r)
      PROVE  TransfersInv'
  BY <1>1, <1>5, WriteInv
<1>6. ASSUME NEW a \in Alloc, Run(a)
      PROVE  TransfersInv'
  BY <1>1, <1>6, RunInv
<1>7. CASE Complete
  BY <1>1, <1>7, CompleteInv
<1>8. CASE \/ \E t \in Threads, r \in Resource : ReleaseResource(t, r)
           \/ Cleanup \/ Track \/ Untrack
  BY <1>1, <1>8, TrackerInv
<1>9. CASE UNCHANGED vars
  <2>1. /\ UNCHANGED <<allocator_mutex, memory, allocation, thread, transfers, next_signal_value,
                       command_buffer_index, inflight, semaphore>>
        /\ UNCHANGED <<content, use, need, num_bytes_pending>> /\ UNCHANGED last_known_value
        /\ UNCHANGED <<refs, released, tracked, tracking, tracker>>
    BY <1>9 DEF vars, allocator, queue, gpu, tracking_vars, work
  <2>2. last_known_value \in Nat /\ last_known_value <= semaphore /\ Tracking
    BY DEF TransfersInv, Issued, QueueInv, QueueTypes, SubmissionsInOrder
  <2>3. \A v, x : InFlight(v, x)' => InFlight(v, x)
    BY <2>1 DEF InFlight
  <2>4. \A k \in DOMAIN transfers' : \E j \in DOMAIN transfers : transfers'[k] = transfers[j]
    BY <2>1
  <2>5. Tracking'
    BY <2>1, <2>2, <2>3, <2>4, TrackingStays
  <2> QED
    BY <1>1, <2>1, <2>2, <2>5, OtherInv
<1> QED
  BY <1>2, <1>3, <1>4, <1>5, <1>6, <1>7, <1>8, <1>9 DEF Next

-----------------------------------------------------------------------------
(***************************************************************************)
(* What follows from it.                                                   *)
(***************************************************************************)

\* A resource that a list has an entry of is referenced.
LEMMA TrackedIsReferenced ==
  ASSUME Tracking, NEW r \in Resource, NEW v, Tracked(v, r)
  PROVE  refs[r] > 0
<1>1. tracked \in Seq(Entry) /\ tracking \in Seq(Entry)
  BY DEF Tracking, TrackTypes
<1>2. /\ Count(tracked, r) \in Nat /\ Count(tracking, r) \in Nat
      /\ (Count(tracked, r) = 0 <=> \A i \in DOMAIN tracked : tracked[i].resource # r)
      /\ (Count(tracking, r) = 0 <=> \A i \in DOMAIN tracking : tracking[i].resource # r)
  BY <1>1, CountFacts
<1>3. Count(tracked, r) # 0 \/ Count(tracking, r) # 0
  BY <1>2 DEF Tracked
<1>4. refs[r] = Count(tracked, r) + Count(tracking, r) + (IF r \in released THEN 0 ELSE 1)
  BY DEF Tracking, RefsCounted
<1> QED
  BY <1>2, <1>3, <1>4

\* A resource the application has is referenced.
LEMMA UnreleasedIsReferenced ==
  ASSUME Tracking, NEW r \in Resource
  PROVE  refs[r] \in Nat /\ (r \notin released => refs[r] > 0)
<1>1. tracked \in Seq(Entry) /\ tracking \in Seq(Entry)
  BY DEF Tracking, TrackTypes
<1>2. Count(tracked, r) \in Nat /\ Count(tracking, r) \in Nat
  BY <1>1, CountFacts
<1>3. refs[r] = Count(tracked, r) + Count(tracking, r) + (IF r \in released THEN 0 ELSE 1)
  BY DEF Tracking, RefsCounted
<1> QED
  BY <1>2, <1>3

\* Clears hit memory of allocations, and writes textures with references.
LEMMA TransfersLive ==
  ASSUME TransfersInv
  PROVE  TransfersHitLiveObjects
<1>1. QueueInv /\ Clears /\ Tracking
  BY DEF TransfersInv, Issued
<1>2. /\ transfers \in Seq(Transfer) /\ inflight \in Seq(Batch) /\ semaphore \in Nat
      /\ next_signal_value \in Nat /\ CommandBuffers \in Nat \ {0}
  BY <1>1, MemoryTransfersAssumption DEF QueueInv, QueueTypes
<1>3. \A x \in Transfer : /\ x.op = "write" => x \in SubresourceWrite /\ x.resource \in Resource
                          /\ x.op # "write" => x \in Clear
  BY DEF Transfer, Clear, SubresourceWrite
<1>4. ASSUME NEW i \in DOMAIN transfers
      PROVE  IF transfers[i].op = "write" THEN refs[transfers[i].resource] > 0
             ELSE \E a \in Alloc : /\ allocation[a].state = "held"
                                   /\ transfers[i] = clear_of(allocation[a])
  <2>1. PICK x \in Transfer : x = transfers[i]
    BY <1>2
  <2>2. CASE x.op = "write"
    <3>1. x.resource \in Resource /\ x.resource \notin released
      BY <1>1, <1>3, <2>1, <2>2 DEF Tracking, NoneQueued
    <3> QED
      BY <1>1, <2>1, <2>2, <3>1, UnreleasedIsReferenced
  <2>3. CASE x.op # "write"
    <3>1. Pending(next_signal_value, x)
      BY <1>1, <1>3, <2>1, <2>3, PendingNext
    <3>2. PICK a \in Alloc : BelongsTo(x, a)
      BY <1>1, <3>1 DEF Clears, QueuedBelong
    <3> QED
      BY <2>1, <2>3, <3>2 DEF BelongsTo
  <2> QED
    BY <2>2, <2>3
<1>5. ASSUME NEW i \in DOMAIN inflight, NEW x \in ToSet(inflight[i].transfers)
      PROVE  IF x.op = "write" THEN refs[x.resource] > 0 ELSE memory[x.memory].kind # "none"
  <2>1. PICK j \in DOMAIN inflight[i].transfers : x = inflight[i].transfers[j]
    BY DEF ToSet
  <2>2. PICK v : v = inflight[i].value
    OBVIOUS
  <2>3. InFlight(v, x)
    BY <2>1, <2>2 DEF InFlight
  <2>4. x \in Transfer
    BY <1>1, <2>3, InFlightFacts
  <2>5. CASE x.op = "write"
    <3>1. x \in SubresourceWrite /\ x.resource \in Resource
      BY <1>3, <2>4, <2>5
    <3>2. Tracked(v, x.resource)
      BY <1>1, <2>3, <3>1 DEF Tracking, WritesTracked
    <3>3. refs[x.resource] > 0
      BY <1>1, <3>1, <3>2, TrackedIsReferenced
    <3> QED
      BY <2>5, <3>3
  <2>6. CASE x.op # "write"
    <3>1. Pending(v, x)
      BY <1>3, <2>3, <2>4, <2>6 DEF Pending, ToCome
    <3> QED
      BY <1>1, <2>6, <3>1 DEF Clears, PendingKnown, Known
  <2> QED
    BY <2>5, <2>6
<1>6. ASSUME NEW i \in DOMAIN inflight, NEW j \in DOMAIN inflight, i < j
      PROVE  inflight[i].buffer # inflight[j].buffer
  <2>1. /\ inflight[i].buffer = Buffer(semaphore + i) /\ inflight[j].buffer = Buffer(semaphore + j)
        /\ Len(inflight) <= CommandBuffers
    BY <1>1 DEF QueueInv, SubmissionsInOrder
  <2>2. i \in 1..Len(inflight) /\ j \in 1..Len(inflight) /\ Len(inflight) \in Nat
    BY <1>2
  <2>3. i \in Int /\ j \in Int /\ j < i + CommandBuffers
    BY <1>2, <2>1, <2>2
  <2>4. PICK v \in Int : v = semaphore + i
    BY <1>2, <2>3
  <2>5. PICK w \in Int : w = semaphore + j
    BY <1>2, <2>3
  <2>6. inflight[i].buffer = Buffer(v) /\ inflight[j].buffer = Buffer(w)
    BY <2>1, <2>4, <2>5
  <2>7. v < w /\ w < v + CommandBuffers
    BY <1>2, <1>6, <2>3, <2>4, <2>5
  <2>8. PICK p \in Int : p = v - 1 - CommandBuffers
    BY <1>2
  <2>9. PICK q \in Int : q = w - 1 - CommandBuffers
    BY <1>2
  <2>10. inflight[i].buffer = p % CommandBuffers /\ inflight[j].buffer = q % CommandBuffers
    BY <2>6, <2>8, <2>9 DEF Buffer
  <2>11. p < q /\ q < p + CommandBuffers
    BY <1>2, <2>7, <2>8, <2>9
  <2> QED
    BY <1>2, <2>10, <2>11, BuffersDiffer
<1>7. \A i, j \in DOMAIN inflight : inflight[i].buffer = inflight[j].buffer => i = j
  <2> SUFFICES ASSUME NEW i \in DOMAIN inflight, NEW j \in DOMAIN inflight, i # j
      PROVE  inflight[i].buffer # inflight[j].buffer
    OBVIOUS
  <2>1. i \in Int /\ j \in Int
    BY <1>2
  <2>2. i < j \/ j < i
    BY <2>1
  <2> QED
    BY <1>6, <2>2
<1> QED
  BY <1>4, <1>5, <1>7 DEF TransfersHitLiveObjects

\* Every value that is waited for was given to a submission, and references are dropped.
LEMMA WaitsEnd ==
  ASSUME TransfersInv
  PROVE  EveryWaitEnds
<1>1. QueueInv /\ Clears /\ Tracking
  BY DEF TransfersInv, Issued
<1>2. \A t \in Threads : thread[t].at = "wait" => thread[t].wait < next_signal_value
  BY <1>1 DEF Clears, Waits, Waiting
<1>3. \A x \in ToSet(tracked) \cup ToSet(tracking) : x.value < next_signal_value
  BY <1>1 DEF Tracking, EntriesInTime, ToSet
<1>4. \A r \in Resource :
        refs[r] = Count(tracked, r) + Count(tracking, r) + (IF r \in released THEN 0 ELSE 1)
  BY <1>1 DEF Tracking, RefsCounted
<1>5. tracker = "ended" => tracked = <<>> /\ tracking = <<>>
  BY <1>1 DEF Tracking, Ending
<1> QED
  BY <1>2, <1>3, <1>4, <1>5 DEF EveryWaitEnds, Count, EntriesOf

\* The free list of a chunk has ranges inside it.
LEMMA RangesInside ==
  ASSUME Inv, Sizes, NEW m \in Memory, NEW i \in DOMAIN memory[m].ranges
  PROVE  memory[m].ranges[i] \in [offset : 0..(ChunkSize - 1), length : 1..ChunkSize]
<1> DEFINE ranges == memory[m].ranges
<1>1. memory[m].kind = "chunk"
  <2> SUFFICES ASSUME memory[m].kind # "chunk" PROVE FALSE
    OBVIOUS
  <2>1. memory[m].ranges = <<>>
    BY DEF Sizes
  <2> QED
    BY <2>1
<1>2. Exact(ranges, FreeOf(m))
  BY <1>1 DEF Inv, ChunksExact, ChunkExact
<1>3. PICK range \in FreeRange : range = ranges[i] /\ end(range) = range.offset + range.length
  BY <1>2, ListFacts DEF Exact
<1>4. range.offset \in Nat /\ range.length \in Nat \ {0}
  BY <1>3 DEF FreeRange
<1>5. \A u \in Nat : Covers(range, u) => u \in 0..(ChunkSize - 1)
  BY <1>2, <1>3 DEF Exact, FreeOf
<1> DEFINE last == range.offset + range.length - 1
<1>6. range.offset \in 0..(ChunkSize - 1)
  BY <1>3, <1>4, <1>5 DEF Covers
<1>7. last \in Nat /\ Covers(range, last)
  BY <1>3, <1>4 DEF Covers
<1>8. last \in 0..(ChunkSize - 1)
  BY <1>5, <1>7
<1>9. range.length \in 1..ChunkSize
  BY <1>4, <1>6, <1>8, MemoryTransfersAssumption
<1>10. range \in [offset : 0..(ChunkSize - 1), length : 1..ChunkSize]
  BY <1>3, <1>6, <1>9 DEF FreeRange
<1> QED
  BY <1>3, <1>10

\* An allocation lies inside its memory.
LEMMA AllocationsInside ==
  ASSUME Inv, Sizes, HeldInside, NEW a \in Alloc
  PROVE  allocation[a].offset \in 0..(ChunkSize - 1) /\ allocation[a].size \in 0..ChunkSize
<1>1. /\ allocation[a].state \in {"none", "held"}
      /\ allocation[a].offset \in Nat /\ allocation[a].size \in Nat
  <2>1. allocation[a] \in Allocation
    BY DEF Inv, Types
  <2> QED
    BY <2>1 DEF Allocation
<1>2. ChunkSize \in Nat \ {0}
  BY MemoryTransfersAssumption
<1>3. CASE allocation[a].state = "none"
  BY <1>2, <1>3 DEF Sizes
<1>4. CASE allocation[a].state = "held"
  <2> DEFINE first == allocation[a].offset
             size == allocation[a].size
             last == first + size - 1
  <2>1. size > 0 /\ first..last \subseteq 0..(ChunkSize - 1)
    BY <1>4 DEF Inv, HeldMemory, HeldInside, UnitsOf, Units
  <2> HIDE DEF size, first
  <2>2. first \in Nat /\ size \in Nat
    BY <1>1 DEF first, size
  <2>3. first \in first..last /\ last \in first..last
    BY <2>1, <2>2
  <2>4. first \in 0..(ChunkSize - 1) /\ last \in 0..(ChunkSize - 1)
    BY <2>1, <2>3
  <2>5. size \in 0..ChunkSize
    BY <1>2, <2>1, <2>2, <2>4
  <2> QED
    BY <2>4, <2>5 DEF first, size
<1> QED
  BY <1>1, <1>3, <1>4

\* Everything has its type.
LEMMA TransfersTyped ==
  ASSUME TransfersInv
  PROVE  TypeOK
<1>1. /\ Inv /\ Types /\ QueueInv /\ QueueTypes /\ SubmissionsInOrder /\ Clears /\ Contents /\ UseTypes
      /\ HeldInside /\ Tracking /\ BytesCounted /\ Sizes
  BY DEF TransfersInv, Issued, Inv, QueueInv, Contents
<1>2. ASSUME NEW m \in Memory
      PROVE  /\ memory[m].kind \in {"none", "chunk", "dedicated"}
             /\ memory[m].size \in 0..ChunkSize /\ memory[m].clear \in Nat
             /\ \A i \in DOMAIN memory[m].ranges :
                  memory[m].ranges[i] \in [offset : 0..(ChunkSize - 1), length : 1..ChunkSize]
  <2>1. memory[m] \in MemoryObject
    BY <1>1 DEF Types
  <2>2. memory[m].kind \in {"none", "chunk", "dedicated"} /\ memory[m].clear \in Nat
    BY <2>1 DEF MemoryObject
  <2> QED
    BY <1>1, <2>2, RangesInside DEF Sizes
<1>3. allocation \in [Alloc -> [state : {"none", "held"}, memory : Memory \cup {NoMemory},
                                offset : 0..(ChunkSize - 1), size : 0..ChunkSize,
                                zeroed : BOOLEAN, clear : Nat]]
  <2>1. \A a \in Alloc : /\ allocation[a] \in Allocation
                         /\ allocation[a].offset \in 0..(ChunkSize - 1) /\ allocation[a].size \in 0..ChunkSize
    BY <1>1, AllocationsInside DEF Types
  <2>2. \A a \in Alloc : allocation[a] \in [state : {"none", "held"}, memory : Memory \cup {NoMemory},
                                            offset : 0..(ChunkSize - 1), size : 0..ChunkSize,
                                            zeroed : BOOLEAN, clear : Nat]
    BY <2>1 DEF Allocation
  <2>3. allocation \in [Alloc -> Allocation]
    BY <1>1 DEF Types
  <2> QED
    BY <2>2, <2>3
<1>4. num_bytes_pending \in 0..(MaxPending - 1)
  BY <1>1, BytesAreInt
<1>5. /\ next_signal_value \in Nat /\ last_known_value \in Nat /\ semaphore \in Nat
      /\ last_known_value <= semaphore /\ Len(inflight) = next_signal_value - 1 - semaphore
      /\ inflight \in Seq(Batch)
  BY <1>1 DEF QueueTypes, SubmissionsInOrder
<1>6. semaphore < next_signal_value
  <2>1. Len(inflight) \in Nat
    BY <1>5
  <2> QED
    BY <1>5, <2>1
<1>7. command_buffer_index \in 0..(CommandBuffers - 1)
  <2>1. command_buffer_index = (next_signal_value - 1 - CommandBuffers) % CommandBuffers
    BY <1>1 DEF SubmissionsInOrder, Buffer
  <2>2. CommandBuffers \in Nat \ {0} /\ next_signal_value - 1 - CommandBuffers \in Int
    BY <1>5, MemoryTransfersAssumption
  <2> QED
    BY <2>1, <2>2, WithRest
<1>8. refs \in [Resource -> Nat] /\ released \subseteq Resource /\ tracker \in {"running", "ended"}
  <2>1. refs \in [Resource -> Int] /\ \A r \in Resource : refs[r] \in Nat
    BY <1>1, UnreleasedIsReferenced DEF Tracking, TrackTypes
  <2> QED
    BY <1>1, <2>1 DEF Tracking, TrackTypes
<1>9. thread \in [Threads -> [at : {"idle", "fill", "poll", "unqueue", "wait", "give"},
                              on : Alloc \cup {NoAlloc}, wait : Nat]]
  <2>1. thread \in [Threads -> [at : Places, on : Alloc \cup {NoAlloc}, wait : Int]]
        /\ \A t \in Threads : thread[t].wait \in Nat
    BY <1>1 DEF Types, Sizes
  <2>2. \A t \in Threads : thread[t] \in [at : Places, on : Alloc \cup {NoAlloc}, wait : Nat]
    BY <2>1
  <2> QED
    BY <2>1, <2>2 DEF Places
<1>10. /\ use \in [Alloc -> {"unused", "submitted", "used"}] /\ need \in [Alloc -> Nat]
       /\ content \in [Memory -> [0..(ChunkSize - 1) -> {"junk", "zero", "data"}]]
       /\ allocator_mutex \in Threads \cup {Nobody}
  BY <1>1 DEF UseTypes, Types
<1> QED
  BY <1>2, <1>3, <1>4, <1>5, <1>6, <1>7, <1>8, <1>9, <1>10 DEF TypeOK

\* All states of the allocator, the queue, the GPU's submissions and the tracker are of
\* their types: the free lists stay inside their chunks, fewer bytes than the limit are
\* pending, a reference count is never negative, and the semaphore and the values known of it
\* stay below next_signal_value.
THEOREM TypeCorrect == Spec => []TypeOK
<1>1. Init => TransfersInv
  BY TransfersInit
<1>2. TransfersInv /\ [Next]_vars => TransfersInv'
  BY TransfersNext
<1>3. TransfersInv => TypeOK
  BY TransfersTyped
<1> QED
  BY <1>1, <1>2, <1>3, PTL DEF Spec

\* vkd3d_memory_transfer_queue_wait_allocation takes a clear out of the queue or waits for it
\* before the memory goes, and vkd3d_memory_transfer_queue_flush_locked takes references and
\* command buffers in time: no transfer, queued or submitted, is of an object that is gone.
THEOREM TransfersAlwaysHitLiveObjects == Spec => []TransfersHitLiveObjects
<1>1. Init => TransfersInv
  BY TransfersInit
<1>2. TransfersInv /\ [Next]_vars => TransfersInv'
  BY TransfersNext
<1>3. TransfersInv => TransfersHitLiveObjects
  BY TransfersLive
<1> QED
  BY <1>1, <1>2, <1>3, PTL DEF Spec

\* vkd3d_memory_transfer_queue_fill_allocation queues a clear before the allocation can be
\* used, and ExecuteCommandLists flushes the queue and waits: memory that has to read as zero
\* does so for its first command list, and no clear, of its own or of an earlier owner of the
\* slice, overwrites what that wrote.
THEOREM ClearsAreAlwaysInTime == Spec => []ClearsAreInTime
<1>1. Init => TransfersInv
  BY TransfersInit
<1>2. TransfersInv /\ [Next]_vars => TransfersInv'
  BY TransfersNext
<1>3. TransfersInv => ClearsAreInTime
  BY ContentsInTime DEF TransfersInv
<1> QED
  BY <1>1, <1>2, <1>3, PTL DEF Spec

\* vkd3d_memory_transfer_queue_wait_allocation never waits for a value whose clear was taken
\* out of the queue, nor the tracker for one that no submission signals, and the tracker has
\* an entry for every reference that vkd3d_memory_transfer_queue_flush_locked took.
THEOREM EveryWaitAlwaysEnds == Spec => []EveryWaitEnds
<1>1. Init => TransfersInv
  BY TransfersInit
<1>2. TransfersInv /\ [Next]_vars => TransfersInv'
  BY TransfersNext
<1>3. TransfersInv => EveryWaitEnds
  BY WaitsEnd
<1> QED
  BY <1>1, <1>2, <1>3, PTL DEF Spec
=============================================================================
