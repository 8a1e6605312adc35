-------------------------- MODULE KernelMemoryProofs --------------------------
(***************************************************************************)
(* Machine-checked proofs about CorgiAlloc and about KernelMemory, which   *)
(* runs over it, for every memory map, page, bitmap and table size,        *)
(* reserve, counter width, kernel image and set of touched addresses.      *)
(*                                                                         *)
(* First the allocator alone: its arithmetic, its invariant, what its      *)
(* operations promise, and that it implements PagePool.  Then, in this     *)
(* order: the allocator under the kernel (KernelOwnership), the            *)
(* types (KernelInv, KernelTypeCorrect), the arithmetic of addresses and   *)
(* the paths they are walked along, the tree of tables and what a write    *)
(* does to it, the invariant of the translations (TranslationInv,          *)
(* KernelTranslations, KernelExhaustion), and the count of the pages the   *)
(* kernel holds (UsesInv, KernelPages).                                    *)
(***************************************************************************)
EXTENDS KernelMemory, FiniteSetTheorems, WellFoundedInduction, SequenceTheorems,
        TLAPS

-----------------------------------------------------------------------------
(* Arithmetic and minima *)

(* A wrapped counter is one of the values the integer type can hold.       *)
LEMMA WrapType ==
  ASSUME NEW x \in Int
  PROVE  Wrap(x) \in 0 .. CounterRange - 1
  BY SizesAssumption DEF Wrap

(* Division with remainder determines the remainder.                       *)
LEMMA RemainderUnique ==
  ASSUME NEW m \in Nat \ {0}, NEW q \in Int, NEW p \in Int,
         NEW r \in 0 .. m - 1, NEW s \in 0 .. m - 1, m * q + r = m * p + s
  PROVE  r = s
<1>1. m * (q - p) = s - r
  BY SMT
<1>2. CASE q - p > 0
  <2>1. m * (q - p) >= m
    BY <1>2, SMT
  <2> QED
    BY <2>1, <1>1, SMT
<1>3. CASE q - p < 0
  <2>1. m * (q - p) <= -m
    BY <1>3, SMT
  <2> QED
    BY <2>1, <1>1, SMT
<1>4. CASE q - p = 0
  BY <1>4, <1>1, SMT
<1> QED
  BY <1>2, <1>3, <1>4

(* Multiplication distributes over addition.                               *)
LEMMA Distributes ==
  ASSUME NEW m \in Int, NEW a \in Int, NEW b \in Int
  PROVE  m * (a + b) = m * a + m * b
  OBVIOUS

(* Counting in steps wraps to the same value as counting at once.          *)
LEMMA WrapAdd ==
  ASSUME NEW x \in Int, NEW n \in Int
  PROVE  Wrap(Wrap(x) + n) = Wrap(x + n)
<1> DEFINE m == CounterRange
           y == Wrap(x) + n
           z == x + n
<1>1. m \in Nat \ {0}
  BY SizesAssumption
<1>2. PICK q \in Int : /\ Wrap(x) \in Int
                       /\ x = m * q + Wrap(x)
  <2>1. /\ x \div m \in Int
        /\ x % m \in Int
        /\ x = m * (x \div m) + (x % m)
    BY <1>1, SMT
  <2> QED
    BY <2>1 DEF Wrap
<1>3. /\ y \in Int
      /\ z \in Int
  BY <1>2
<1> HIDE DEF y, z
<1>4. PICK r \in Int : /\ Wrap(y) \in 0 .. m - 1
                       /\ y = m * r + Wrap(y)
  <2>1. /\ y \div m \in Int
        /\ y % m \in 0 .. m - 1
        /\ y = m * (y \div m) + (y % m)
    BY <1>1, <1>3, SMT
  <2> QED
    BY <2>1 DEF Wrap
<1>5. PICK s \in Int : /\ Wrap(z) \in 0 .. m - 1
                       /\ z = m * s + Wrap(z)
  <2>1. /\ z \div m \in Int
        /\ z % m \in 0 .. m - 1
        /\ z = m * (z \div m) + (z % m)
    BY <1>1, <1>3, SMT
  <2> QED
    BY <2>1 DEF Wrap
<1>6. m * (q + r) = m * q + m * r
  BY <1>1, Distributes
<1>7. z = m * (q + r) + Wrap(y)
  <2>1. m * q \in Int /\ m * r \in Int
    BY <1>1
  <2>2. z = x + n /\ y = Wrap(x) + n
    BY DEF y, z
  <2> QED
    BY <1>2, <1>4, <1>6, <2>1, <2>2
<1>8. Wrap(y) = Wrap(z)
  <2>1. m * (q + r) + Wrap(y) = m * s + Wrap(z) /\ q + r \in Int
    BY <1>5, <1>7
  <2> QED
    BY <2>1, <1>1, <1>4, <1>5, RemainderUnique
<1> QED
  BY <1>8 DEF y, z

(* The least element of a nonempty set of naturals.                        *)
LEMMA MinNat ==
  ASSUME NEW S \in SUBSET Nat, S # {}
  PROVE  /\ Min(S) \in S
         /\ \A y \in S : Min(S) <= y
<1> DEFINE less == {ss \in Nat \X Nat : ss[1] < ss[2]}
<1>1. IsWellFoundedOn(less, Nat)
  BY NatLessThanWellFounded DEF OpToRel
<1>2. PICK x \in S : \A y \in S : ~ (<<y, x>> \in less)
  <2> HIDE DEF less
  <2> QED
    BY <1>1, WFMin
<1>3. \A y \in S : x <= y
  <2> SUFFICES ASSUME NEW y \in S
               PROVE  x <= y
    OBVIOUS
  <2>1. x \in Nat /\ y \in Nat
    OBVIOUS
  <2>2. ~ (y < x)
    BY <1>2, <2>1
  <2> HIDE DEF less
  <2> QED
    BY <2>1, <2>2
<1> QED
  BY <1>2, <1>3 DEF Min

-----------------------------------------------------------------------------
(* Allocator values *)

(* A well-formed allocator: typed, with every set bit and the cursor in    *)
(* range.                                                                  *)
Sound(a) ==
  /\ a \in Allocator
  /\ a.bits \subseteq Tracked(a)
  /\ a.pageBitmapIndex <= a.Size * BitsPerByte

(* The bitmap range is finite, and so is every set of its pages.           *)
LEMMA TrackedFacts ==
  ASSUME NEW a, a.Size \in Nat
  PROVE  /\ a.Size * BitsPerByte \in Nat
         /\ Tracked(a) \subseteq Nat
         /\ IsFiniteSet(Tracked(a))
         /\ \A p : p \in Tracked(a) <=> p \in Nat /\ p < a.Size * BitsPerByte
<1>1. a.Size * BitsPerByte \in Nat
  BY SizesAssumption
<1> DEFINE n == a.Size * BitsPerByte
<1>2. IsFiniteSet(0 .. n - 1)
  <2> HIDE DEF n
  <2> QED
    BY <1>1, FS_Interval DEF n
<1>3. \A p : p \in 0 .. n - 1 <=> p \in Nat /\ p < n
  <2> HIDE DEF n
  <2> QED
    BY <1>1 DEF n
<1> QED
  BY <1>1, <1>2, <1>3 DEF Tracked

(* Setting the clear ones among some pages counts each of them once.       *)
LEMMA CountSet ==
  ASSUME NEW bits, IsFiniteSet(bits), NEW T, IsFiniteSet(T), T \cap bits = {}
  PROVE  /\ IsFiniteSet(bits \cup T)
         /\ Cardinality(bits) \in Nat
         /\ Cardinality(T) \in Nat
         /\ Cardinality(bits \cup T) = Cardinality(bits) + Cardinality(T)
<1>1. Cardinality(bits \cap T) = 0
  BY FS_EmptySet
<1>2. Cardinality(bits) \in Nat /\ Cardinality(T) \in Nat
  BY FS_CardinalityType
<1>3. /\ IsFiniteSet(bits \cup T)
      /\ Cardinality(bits \cup T)
           = Cardinality(bits) + Cardinality(T) - Cardinality(bits \cap T)
  BY FS_Union
<1> QED
  BY <1>1, <1>2, <1>3

(* Clearing the set ones among some pages counts each of them once.        *)
LEMMA CountClear ==
  ASSUME NEW bits, IsFiniteSet(bits), NEW T \in SUBSET bits
  PROVE  /\ IsFiniteSet(bits \ T)
         /\ Cardinality(bits) \in Nat
         /\ Cardinality(T) \in Nat
         /\ Cardinality(bits \ T) = Cardinality(bits) - Cardinality(T)
<1>1. bits \cap T = T /\ IsFiniteSet(T)
  BY FS_Subset
<1> QED
  BY <1>1, FS_Difference, FS_CardinalityType

(* LockPages sets the clear bits of the run and moves as many pages from   *)
(* the free to the used counter.                                           *)
LEMMA LockPagesFacts ==
  ASSUME NEW a, Sound(a), NEW pages
  PROVE  LET b == LockPages(a, pages)
             locked == pages \cap Clear(a)
         IN  /\ Sound(b)
             /\ b.Size = a.Size
             /\ b.Buffer = a.Buffer
             /\ b.bits = a.bits \cup (pages \cap Tracked(a))
             /\ b.pageBitmapIndex = a.pageBitmapIndex
             /\ Cardinality(b.bits) = Cardinality(a.bits) + Cardinality(locked)
             /\ Cardinality(locked) \in Nat
             /\ b.freeMemory = Wrap(a.freeMemory - Cardinality(locked))
             /\ b.usedMemory = Wrap(a.usedMemory + Cardinality(locked))
             /\ b.reservedMemory = a.reservedMemory
<1> DEFINE b == LockPages(a, pages)
           locked == pages \cap Clear(a)
           n == Cardinality(locked)
<1>1. a \in Allocator /\ a.Size \in Nat
  BY DEF Sound, Allocator
<1>2. /\ n \in Nat
      /\ Cardinality(a.bits \cup locked) = Cardinality(a.bits) + n
  <2>1. /\ IsFiniteSet(locked)
        /\ IsFiniteSet(a.bits)
        /\ locked \cap a.bits = {}
    BY <1>1, TrackedFacts, FS_Subset DEF Clear, Sound
  <2> QED
    BY <2>1, CountSet
<1>3. /\ Wrap(a.freeMemory - n) \in 0 .. CounterRange - 1
      /\ Wrap(a.usedMemory + n) \in 0 .. CounterRange - 1
  <2>1. a.freeMemory \in Int /\ a.usedMemory \in Int
    BY <1>1 DEF Allocator
  <2> HIDE DEF n
  <2> QED
    BY <1>2, <2>1, WrapType
<1>4. b = [a EXCEPT !.bits = @ \cup locked,
                    !.freeMemory = Wrap(@ - n),
                    !.usedMemory = Wrap(@ + n)]
  BY DEF LockPages
<1> HIDE DEF n, b
<1>5. /\ b.Size = a.Size
      /\ b.Buffer = a.Buffer
      /\ b.bits = a.bits \cup locked
      /\ b.pageBitmapIndex = a.pageBitmapIndex
      /\ b.freeMemory = Wrap(a.freeMemory - n)
      /\ b.usedMemory = Wrap(a.usedMemory + n)
      /\ b.reservedMemory = a.reservedMemory
  BY <1>1, <1>4 DEF Allocator
<1>6. a.bits \cup locked = a.bits \cup (pages \cap Tracked(a))
  BY DEF Clear, Sound
<1>7. Sound(b)
  <2>1. b \in Allocator
    <3>1. b.bits \in SUBSET Nat
      BY <1>1, <1>5, TrackedFacts DEF Allocator, Clear
    <3> HIDE DEF locked
    <3> QED
      BY <1>1, <1>3, <1>4, <1>5, <3>1 DEF Allocator
  <2> QED
    BY <1>5, <1>6, <2>1 DEF Sound, Tracked
<1> QED
  BY <1>2, <1>5, <1>6, <1>7 DEF b, n

(* ReservePages does the same with the reserved counter.                   *)
LEMMA ReservePagesFacts ==
  ASSUME NEW a, Sound(a), NEW pages
  PROVE  LET b == ReservePages(a, pages)
             locked == pages \cap Clear(a)
         IN  /\ Sound(b)
             /\ b.Size = a.Size
             /\ b.Buffer = a.Buffer
             /\ b.bits = a.bits \cup (pages \cap Tracked(a))
             /\ b.pageBitmapIndex = a.pageBitmapIndex
             /\ Cardinality(b.bits) = Cardinality(a.bits) + Cardinality(locked)
             /\ Cardinality(locked) \in Nat
             /\ b.freeMemory = Wrap(a.freeMemory - Cardinality(locked))
             /\ b.reservedMemory = Wrap(a.reservedMemory + Cardinality(locked))
             /\ b.usedMemory = a.usedMemory
<1> DEFINE b == ReservePages(a, pages)
           locked == pages \cap Clear(a)
           n == Cardinality(locked)
<1>1. a \in Allocator /\ a.Size \in Nat
  BY DEF Sound, Allocator
<1>2. /\ n \in Nat
      /\ Cardinality(a.bits \cup locked) = Cardinality(a.bits) + n
  <2>1. /\ IsFiniteSet(locked)
        /\ IsFiniteSet(a.bits)
        /\ locked \cap a.bits = {}
    BY <1>1, TrackedFacts, FS_Subset DEF Clear, Sound
  <2> QED
    BY <2>1, CountSet
<1>3. /\ Wrap(a.freeMemory - n) \in 0 .. CounterRange - 1
      /\ Wrap(a.reservedMemory + n) \in 0 .. CounterRange - 1
  <2>1. a.freeMemory \in Int /\ a.reservedMemory \in Int
    BY <1>1 DEF Allocator
  <2> HIDE DEF n
  <2> QED
    BY <1>2, <2>1, WrapType
<1>4. b = [a EXCEPT !.bits = @ \cup locked,
                    !.freeMemory = Wrap(@ - n),
                    !.reservedMemory = Wrap(@ + n)]
  BY DEF ReservePages
<1> HIDE DEF n, b
<1>5. /\ b.Size = a.Size
      /\ b.Buffer = a.Buffer
      /\ b.bits = a.bits \cup locked
      /\ b.pageBitmapIndex = a.pageBitmapIndex
      /\ b.freeMemory = Wrap(a.freeMemory - n)
      /\ b.reservedMemory = Wrap(a.reservedMemory + n)
      /\ b.usedMemory = a.usedMemory
  BY <1>1, <1>4 DEF Allocator
<1>6. a.bits \cup locked = a.bits \cup (pages \cap Tracked(a))
  BY DEF Clear, Sound
<1>7. Sound(b)
  <2>1. b \in Allocator
    <3>1. b.bits \in SUBSET Nat
      BY <1>1, <1>5, TrackedFacts DEF Allocator, Clear
    <3> HIDE DEF locked
    <3> QED
      BY <1>1, <1>3, <1>4, <1>5, <3>1 DEF Allocator
  <2> QED
    BY <1>5, <1>6, <2>1 DEF Sound, Tracked
<1> QED
  BY <1>2, <1>5, <1>6, <1>7 DEF b, n

(* FreePages clears the set bits of the run, moves as many pages from the  *)
(* used to the free counter and takes the cursor back to the lowest.       *)
LEMMA FreePagesFacts ==
  ASSUME NEW a, Sound(a), NEW pages
  PROVE  LET b == FreePages(a, pages)
             freed == pages \cap a.bits
         IN  /\ Sound(b)
             /\ b.Size = a.Size
             /\ b.Buffer = a.Buffer
             /\ b.bits = a.bits \ pages
             /\ b.pageBitmapIndex <= a.pageBitmapIndex
             /\ \A p \in freed : b.pageBitmapIndex <= p
             /\ Cardinality(b.bits) = Cardinality(a.bits) - Cardinality(freed)
             /\ Cardinality(freed) \in Nat
             /\ b.freeMemory = Wrap(a.freeMemory + Cardinality(freed))
             /\ b.usedMemory = Wrap(a.usedMemory - Cardinality(freed))
             /\ b.reservedMemory = a.reservedMemory
<1> DEFINE b == FreePages(a, pages)
           freed == pages \cap a.bits
           n == Cardinality(freed)
           cursor == Min({a.pageBitmapIndex} \cup freed)
<1>1. /\ a \in Allocator
      /\ a.Size \in Nat
      /\ a.pageBitmapIndex \in Nat
      /\ freed \subseteq Nat
  BY TrackedFacts DEF Sound, Allocator
<1>2. /\ n \in Nat
      /\ Cardinality(a.bits \ freed) = Cardinality(a.bits) - n
  <2>1. /\ IsFiniteSet(a.bits)
        /\ freed \in SUBSET a.bits
    BY <1>1, TrackedFacts, FS_Subset DEF Sound
  <2> HIDE DEF freed
  <2> QED
    BY <2>1, CountClear
<1>3. /\ Wrap(a.freeMemory + n) \in 0 .. CounterRange - 1
      /\ Wrap(a.usedMemory - n) \in 0 .. CounterRange - 1
  <2>1. a.freeMemory \in Int /\ a.usedMemory \in Int
    BY <1>1 DEF Allocator
  <2> HIDE DEF n
  <2> QED
    BY <1>2, <2>1, WrapType
<1>4. /\ cursor \in Nat
      /\ cursor <= a.pageBitmapIndex
      /\ \A p \in freed : cursor <= p
  <2> DEFINE S == {a.pageBitmapIndex} \cup freed
  <2>1. S \in SUBSET Nat /\ S # {}
    BY <1>1
  <2>2. Min(S) \in S /\ \A y \in S : Min(S) <= y
    <3> HIDE DEF S
    <3> QED
      BY <2>1, MinNat
  <2> QED
    BY <2>1, <2>2
<1>5. b = [a EXCEPT !.bits = @ \ freed,
                    !.freeMemory = Wrap(@ + n),
                    !.usedMemory = Wrap(@ - n),
                    !.pageBitmapIndex = cursor]
  BY DEF FreePages
<1> HIDE DEF n, b, cursor
<1>6. /\ b.Size = a.Size
      /\ b.Buffer = a.Buffer
      /\ b.bits = a.bits \ freed
      /\ b.pageBitmapIndex = cursor
      /\ b.freeMemory = Wrap(a.freeMemory + n)
      /\ b.usedMemory = Wrap(a.usedMemory - n)
      /\ b.reservedMemory = a.reservedMemory
  BY <1>1, <1>5 DEF Allocator
<1>7. a.bits \ freed = a.bits \ pages
  OBVIOUS
<1>8. Sound(b)
  <2>1. b \in Allocator
    <3>1. b.bits \in SUBSET Nat
      BY <1>1, <1>6 DEF Allocator
    <3> HIDE DEF freed
    <3> QED
      BY <1>1, <1>3, <1>4, <1>5, <1>6, <3>1 DEF Allocator
  <2>2. cursor <= a.Size * BitsPerByte
    BY <1>1, <1>4, TrackedFacts DEF Sound
  <2> QED
    BY <1>6, <2>1, <2>2 DEF Sound, Tracked
<1> QED
  BY <1>2, <1>4, <1>6, <1>7, <1>8 DEF b, n

(* UnreservePages does the same with the reserved counter.                 *)
LEMMA UnreservePagesFacts ==
  ASSUME NEW a, Sound(a), NEW pages
  PROVE  LET b == UnreservePages(a, pages)
             freed == pages \cap a.bits
         IN  /\ Sound(b)
             /\ b.Size = a.Size
             /\ b.Buffer = a.Buffer
             /\ b.bits = a.bits \ pages
             /\ b.pageBitmapIndex <= a.pageBitmapIndex
             /\ \A p \in freed : b.pageBitmapIndex <= p
             /\ Cardinality(b.bits) = Cardinality(a.bits) - Cardinality(freed)
             /\ Cardinality(freed) \in Nat
             /\ b.freeMemory = Wrap(a.freeMemory + Cardinality(freed))
             /\ b.reservedMemory = Wrap(a.reservedMemory - Cardinality(freed))
             /\ b.usedMemory = a.usedMemory
<1> DEFINE b == UnreservePages(a, pages)
           freed == pages \cap a.bits
           n == Cardinality(freed)
           cursor == Min({a.pageBitmapIndex} \cup freed)
<1>1. /\ a \in Allocator
      /\ a.Size \in Nat
      /\ a.pageBitmapIndex \in Nat
      /\ freed \subseteq Nat
  BY TrackedFacts DEF Sound, Allocator
<1>2. /\ n \in Nat
      /\ Cardinality(a.bits \ freed) = Cardinality(a.bits) - n
  <2>1. /\ IsFiniteSet(a.bits)
        /\ freed \in SUBSET a.bits
    BY <1>1, TrackedFacts, FS_Subset DEF Sound
  <2> HIDE DEF freed
  <2> QED
    BY <2>1, CountClear
<1>3. /\ Wrap(a.freeMemory + n) \in 0 .. CounterRange - 1
      /\ Wrap(a.reservedMemory - n) \in 0 .. CounterRange - 1
  <2>1. a.freeMemory \in Int /\ a.reservedMemory \in Int
    BY <1>1 DEF Allocator
  <2> HIDE DEF n
  <2> QED
    BY <1>2, <2>1, WrapType
<1>4. /\ cursor \in Nat
      /\ cursor <= a.pageBitmapIndex
      /\ \A p \in freed : cursor <= p
  <2> DEFINE S == {a.pageBitmapIndex} \cup freed
  <2>1. S \in SUBSET Nat /\ S # {}
    BY <1>1
  <2>2. Min(S) \in S /\ \A y \in S : Min(S) <= y
    <3> HIDE DEF S
    <3> QED
      BY <2>1, MinNat
  <2> QED
    BY <2>1, <2>2
<1>5. b = [a EXCEPT !.bits = @ \ freed,
                    !.freeMemory = Wrap(@ + n),
                    !.reservedMemory = Wrap(@ - n),
                    !.pageBitmapIndex = cursor]
  BY DEF UnreservePages
<1> HIDE DEF n, b, cursor
<1>6. /\ b.Size = a.Size
      /\ b.Buffer = a.Buffer
      /\ b.bits = a.bits \ freed
      /\ b.pageBitmapIndex = cursor
      /\ b.freeMemory = Wrap(a.freeMemory + n)
      /\ b.reservedMemory = Wrap(a.reservedMemory - n)
      /\ b.usedMemory = a.usedMemory
  BY <1>1, <1>5 DEF Allocator
<1>7. a.bits \ freed = a.bits \ pages
  OBVIOUS
<1>8. Sound(b)
  <2>1. b \in Allocator
    <3>1. b.bits \in SUBSET Nat
      BY <1>1, <1>6 DEF Allocator
    <3> HIDE DEF freed
    <3> QED
      BY <1>1, <1>3, <1>4, <1>5, <1>6, <3>1 DEF Allocator
  <2>2. cursor <= a.Size * BitsPerByte
    BY <1>1, <1>4, TrackedFacts DEF Sound
  <2> QED
    BY <1>6, <2>1, <2>2 DEF Sound, Tracked
<1> QED
  BY <1>2, <1>4, <1>6, <1>7, <1>8 DEF b, n

(* BorrowPage on an allocator with nothing free behind the cursor: the     *)
(* lowest clear page, locked, or nullptr when no bit is clear.             *)
LEMMA BorrowPageFacts ==
  ASSUME NEW a, Sound(a), \A p \in Clear(a) : p >= a.pageBitmapIndex
  PROVE  LET b == BorrowPage(a).alloc
             page == BorrowPage(a).page
         IN  /\ Sound(b)
             /\ b.Size = a.Size
             /\ b.Buffer = a.Buffer
             /\ b.reservedMemory = a.reservedMemory
             /\ \A p \in Clear(b) : p >= b.pageBitmapIndex
             /\ \/ /\ Clear(a) = {}
                   /\ page = NoPage
                   /\ b.bits = a.bits
                   /\ b.freeMemory = a.freeMemory
                   /\ b.usedMemory = a.usedMemory
                \/ /\ page \in Clear(a)
                   /\ \A p \in Clear(a) : page <= p
                   /\ b.bits = a.bits \cup {page}
                   /\ Cardinality(b.bits) = Cardinality(a.bits) + 1
                   /\ b.freeMemory = Wrap(a.freeMemory - 1)
                   /\ b.usedMemory = Wrap(a.usedMemory + 1)
<1> DEFINE ahead == {p \in Clear(a) : p >= a.pageBitmapIndex}
           page == Min(ahead)
<1>1. /\ a \in Allocator
      /\ a.Size \in Nat
      /\ a.Size * BitsPerByte \in Nat
      /\ Clear(a) \subseteq Nat
      /\ ahead = Clear(a)
  BY TrackedFacts DEF Sound, Allocator, Clear
<1>2. CASE ahead = {}
  <2> DEFINE b == [a EXCEPT !.pageBitmapIndex = a.Size * BitsPerByte]
  <2>1. BorrowPage(a) = [page |-> NoPage, alloc |-> b]
    BY <1>2 DEF BorrowPage
  <2> HIDE DEF b
  <2>2. /\ b \in Allocator
        /\ b.Size = a.Size
        /\ b.Buffer = a.Buffer
        /\ b.bits = a.bits
        /\ b.pageBitmapIndex = a.Size * BitsPerByte
        /\ b.freeMemory = a.freeMemory
        /\ b.usedMemory = a.usedMemory
        /\ b.reservedMemory = a.reservedMemory
    BY <1>1 DEF Allocator, b
  <2>3. Sound(b) /\ Clear(b) = {}
    BY <1>1, <1>2, <2>2 DEF Sound, Clear, Tracked
  <2> QED
    BY <1>1, <1>2, <2>1, <2>2, <2>3
<1>3. CASE ahead # {}
  <2> DEFINE c == [a EXCEPT !.pageBitmapIndex = page]
             b == LockPages(c, {page})
  <2>1. BorrowPage(a) = [page |-> page, alloc |-> b]
    BY <1>3 DEF BorrowPage
  <2>2. /\ page \in Clear(a)
        /\ \A p \in Clear(a) : page <= p
    <3> HIDE DEF ahead
    <3> QED
      BY <1>1, <1>3, MinNat
  <2> HIDE DEF page
  <2>3. page \in Nat /\ page < a.Size * BitsPerByte
    BY <1>1, <2>2, TrackedFacts DEF Clear
  <2> HIDE DEF b, c
  <2>4. /\ c \in Allocator
        /\ c.Size = a.Size
        /\ c.Buffer = a.Buffer
        /\ c.bits = a.bits
        /\ c.pageBitmapIndex = page
        /\ c.freeMemory = a.freeMemory
        /\ c.usedMemory = a.usedMemory
        /\ c.reservedMemory = a.reservedMemory
    BY <1>1, <2>3 DEF Allocator, c
  <2>5. Sound(c) /\ Clear(c) = Clear(a)
    BY <1>1, <2>3, <2>4 DEF Sound, Clear, Tracked
  <2>6. {page} \cap Clear(c) = {page} /\ Cardinality({page}) = 1
    BY <2>2, <2>5, FS_Singleton
  <2>7. /\ Sound(b)
        /\ b.Size = a.Size
        /\ b.Buffer = a.Buffer
        /\ b.bits = a.bits \cup ({page} \cap Tracked(c))
        /\ b.pageBitmapIndex = page
        /\ Cardinality(b.bits) = Cardinality(a.bits) + 1
        /\ b.freeMemory = Wrap(a.freeMemory - 1)
        /\ b.usedMemory = Wrap(a.usedMemory + 1)
        /\ b.reservedMemory = a.reservedMemory
    BY <2>4, <2>5, <2>6, LockPagesFacts DEF b
  <2>8. {page} \cap Tracked(c) = {page} /\ Clear(b) \subseteq Clear(a)
    BY <2>2, <2>5, <2>7 DEF Clear, Tracked
  <2>9. \A p \in Clear(b) : p >= b.pageBitmapIndex
    BY <1>1, <2>2, <2>3, <2>7, <2>8
  <2> QED
    BY <2>1, <2>2, <2>7, <2>8, <2>9
<1> QED
  BY <1>2, <1>3

(* The free counter agrees with the bitmap.                                *)
FreeAgrees(a, total) ==
  a.freeMemory = Wrap(total - Cardinality(a.bits))

(* A step that takes n pages out of free, or puts them back, keeps it so.  *)
LEMMA FreeAgreesStep ==
  ASSUME NEW total \in Int, NEW x \in Int, NEW n \in Int, NEW y,
         y = x + n
  PROVE  Wrap(Wrap(total - x) - n) = Wrap(total - y)
<1>1. total - x \in Int /\ -n \in Int /\ (total - x) + (-n) = total - y
  OBVIOUS
<1>2. Wrap(Wrap(total - x) + (-n)) = Wrap((total - x) + (-n))
  BY <1>1, WrapAdd
<1>3. Wrap(total - x) \in Int
  BY <1>1, WrapType, SizesAssumption
<1>4. Wrap(total - x) + (-n) = Wrap(total - x) - n
  BY <1>3
<1> QED
  BY <1>1, <1>2, <1>4

LEMMA FreeAgreesFirst ==
  ASSUME NEW total \in Int, NEW n \in Int
  PROVE  Wrap(Wrap(total) - n) = Wrap(total - n)
<1>1. -n \in Int /\ total + (-n) = total - n
  OBVIOUS
<1>2. Wrap(Wrap(total) + (-n)) = Wrap(total + (-n))
  BY <1>1, WrapAdd
<1>3. Wrap(total) \in Int
  BY WrapType, SizesAssumption
<1>4. Wrap(total) + (-n) = Wrap(total) - n
  BY <1>3
<1> QED
  BY <1>1, <1>2, <1>4

(* After ReadEFIMemoryMap the bitmap marks exactly the permanently locked  *)
(* pages, and the counters say so.                                         *)
LEMMA BootFacts ==
  ASSUME NEW mMap \in MemoryMaps
  PROVE  LET a == ReadEFIMemoryMap(mMap)
         IN  /\ Sound(a)
             /\ a.Size = ClearBitmap(mMap).Size
             /\ a.Buffer = ClearBitmap(mMap).Buffer
             /\ a.bits = PermanentlyLocked(mMap)
             /\ \A p \in Clear(a) : p >= a.pageBitmapIndex
             /\ FreeAgrees(a, GetMemorySize(mMap))
             /\ a.usedMemory = Wrap(Cardinality(BitmapOwn(mMap)))
             /\ a.reservedMemory = Wrap(Cardinality(KeptBack(mMap)))
<1> DEFINE total == GetMemorySize(mMap)
           start == ClearBitmap(mMap)
           all == ReservePages(start, 0 .. total)
           released == UnreservePages(all, ConventionalPages(mMap))
           low == ReservePages(released, 0 .. LowPages - 1)
           final == LockPages(low, BitmapPages(low))
           T == Tracked(start)
<1>1. total \in Nat /\ LargestFreeSegment(mMap) \in Nat
  BY MemoryMapsAssumption
<1> HIDE DEF total
<1>2. /\ start \in Allocator
      /\ start.Size \in Nat
      /\ start.bits = {}
      /\ start.pageBitmapIndex = 0
      /\ start.freeMemory = Wrap(total)
      /\ start.usedMemory = 0
      /\ start.reservedMemory = 0
  <2>1. total \div BitsPerByte + 1 \in Nat
    BY <1>1, SizesAssumption, SMT
  <2>2. Wrap(total) \in 0 .. CounterRange - 1 /\ 0 \in 0 .. CounterRange - 1
    BY <1>1, WrapType, SizesAssumption
  <2> QED
    BY <1>1, <2>1, <2>2 DEF ClearBitmap, EmptyAllocator, Allocator, NoPage, total
<1> HIDE DEF start
<1>3. Sound(start) /\ Cardinality(start.bits) = 0 /\ T \subseteq Nat
  BY <1>2, TrackedFacts, FS_EmptySet DEF Sound, Tracked
<1>4. /\ Sound(all)
      /\ all.Size = start.Size
      /\ all.Buffer = start.Buffer
      /\ all.bits = (0 .. total) \cap T
      /\ all.pageBitmapIndex = 0
      /\ Cardinality(all.bits) \in Nat
      /\ all.freeMemory = Wrap(total - Cardinality(all.bits))
      /\ all.usedMemory = 0
      /\ all.reservedMemory = Wrap(Cardinality(all.bits))
  <2> DEFINE n == Cardinality((0 .. total) \cap Clear(start))
  <2>1. /\ Sound(all)
        /\ all.Size = start.Size
        /\ all.Buffer = start.Buffer
        /\ all.bits = start.bits \cup ((0 .. total) \cap T)
        /\ all.pageBitmapIndex = start.pageBitmapIndex
        /\ Cardinality(all.bits) = Cardinality(start.bits) + n
        /\ n \in Nat
        /\ all.freeMemory = Wrap(start.freeMemory - n)
        /\ all.reservedMemory = Wrap(start.reservedMemory + n)
        /\ all.usedMemory = start.usedMemory
    BY <1>3, ReservePagesFacts
  <2> HIDE DEF n, all, T
  <2>2. Wrap(Wrap(total) - n) = Wrap(total - n)
    <3>1. total \in Int /\ n \in Int
      BY <1>1, <2>1
    <3> QED
      BY <3>1, FreeAgreesFirst
  <2>3. 0 + n = n
    BY <2>1
  <2>4. all.bits = (0 .. total) \cap T
    BY <1>2, <2>1
  <2>5. Cardinality(all.bits) = n
    BY <1>3, <2>1, <2>3
  <2> QED
    BY <1>2, <2>1, <2>2, <2>3, <2>4, <2>5
<1> HIDE DEF all
<1>5. /\ Sound(released)
      /\ released.Size = start.Size
      /\ released.Buffer = start.Buffer
      /\ released.bits = all.bits \ ConventionalPages(mMap)
      /\ released.pageBitmapIndex = 0
      /\ Cardinality(released.bits) \in Nat
      /\ released.freeMemory = Wrap(total - Cardinality(released.bits))
      /\ released.usedMemory = 0
      /\ released.reservedMemory = Wrap(Cardinality(released.bits))
  <2> DEFINE n == Cardinality(ConventionalPages(mMap) \cap all.bits)
  <2>1. /\ Sound(released)
        /\ released.Size = start.Size
        /\ released.Buffer = start.Buffer
        /\ released.bits = all.bits \ ConventionalPages(mMap)
        /\ released.pageBitmapIndex <= 0
        /\ Cardinality(released.bits) = Cardinality(all.bits) - n
        /\ n \in Nat
        /\ released.freeMemory = Wrap(Wrap(total - Cardinality(all.bits)) + n)
        /\ released.reservedMemory = Wrap(Wrap(Cardinality(all.bits)) - n)
        /\ released.usedMemory = 0
    BY <1>4, UnreservePagesFacts
  <2>2. released.pageBitmapIndex \in Nat /\ Cardinality(released.bits) \in Nat
    BY <2>1, TrackedFacts, FS_Subset, FS_CardinalityType DEF Sound, Allocator
  <2> HIDE DEF n, released
  <2> DEFINE x == Cardinality(all.bits)
  <2>3. x \in Nat /\ n \in Nat
    BY <1>4, <2>1
  <2> HIDE DEF x
  <2>4. Wrap(Wrap(total - x) + n) = Wrap((total - x) + n)
    BY <1>1, <2>3, WrapAdd
  <2>5. Wrap(Wrap(x) + (-n)) = Wrap(x + (-n)) /\ Wrap(x) \in Int
    BY <2>3, WrapAdd, WrapType, SizesAssumption
  <2>6. /\ (total - x) + n = total - (x - n)
        /\ x + (-n) = x - n
        /\ Wrap(x) + (-n) = Wrap(x) - n
    BY <1>1, <2>3, <2>5
  <2> QED
    BY <2>1, <2>2, <2>4, <2>5, <2>6 DEF x
<1> HIDE DEF released
<1>6. /\ Sound(low)
      /\ low.Size = start.Size
      /\ low.Buffer = start.Buffer
      /\ low.bits = released.bits \cup ((0 .. LowPages - 1) \cap T)
      /\ low.pageBitmapIndex = 0
      /\ Cardinality(low.bits) \in Nat
      /\ low.freeMemory = Wrap(total - Cardinality(low.bits))
      /\ low.usedMemory = 0
      /\ low.reservedMemory = Wrap(Cardinality(low.bits))
  <2> DEFINE n == Cardinality((0 .. LowPages - 1) \cap Clear(released))
             x == Cardinality(released.bits)
  <2>1. Tracked(released) = T
    BY <1>5 DEF Tracked
  <2>2. /\ Sound(low)
        /\ low.Size = start.Size
        /\ low.Buffer = start.Buffer
        /\ low.bits = released.bits \cup ((0 .. LowPages - 1) \cap T)
        /\ low.pageBitmapIndex = released.pageBitmapIndex
        /\ Cardinality(low.bits) = Cardinality(released.bits) + n
        /\ n \in Nat
        /\ low.freeMemory = Wrap(released.freeMemory - n)
        /\ low.reservedMemory = Wrap(released.reservedMemory + n)
        /\ low.usedMemory = released.usedMemory
    <3> HIDE DEF T, x
    <3>1. Sound(released)
      BY <1>5
    <3>2. /\ Sound(low)
          /\ low.Size = released.Size
          /\ low.Buffer = released.Buffer
          /\ low.bits = released.bits
                          \cup ((0 .. LowPages - 1) \cap Tracked(released))
          /\ low.pageBitmapIndex = released.pageBitmapIndex
          /\ Cardinality(low.bits) = Cardinality(released.bits) + n
          /\ n \in Nat
          /\ low.freeMemory = Wrap(released.freeMemory - n)
          /\ low.reservedMemory = Wrap(released.reservedMemory + n)
          /\ low.usedMemory = released.usedMemory
      BY <3>1, ReservePagesFacts
    <3> HIDE DEF n, low
    <3> QED
      BY <1>5, <2>1, <3>2
  <2>3. x \in Nat
    BY <1>5
  <2> HIDE DEF n, low, T
  <2>4. /\ low.pageBitmapIndex = 0
        /\ Cardinality(low.bits) = x + n
        /\ low.freeMemory = Wrap(Wrap(total - x) - n)
        /\ low.reservedMemory = Wrap(Wrap(x) + n)
        /\ low.usedMemory = 0
    BY <1>5, <2>2
  <2>5. x \in Int /\ n \in Int /\ total \in Int
    BY <1>1, <2>2, <2>3
  <2> HIDE DEF x
  <2>6. Wrap(Wrap(total - x) - n) = Wrap(total - (x + n))
    BY <2>5, FreeAgreesStep
  <2>7. Wrap(Wrap(x) + n) = Wrap(x + n)
    BY <2>5, WrapAdd
  <2>8. x + n \in Nat
    BY <2>2, <2>3
  <2> QED
    BY <2>2, <2>4, <2>6, <2>7, <2>8
<1> HIDE DEF low
<1>7. /\ low.bits = KeptBack(mMap)
      /\ BitmapPages(low) = BitmapPages(start)
      /\ BitmapPages(low) \cap Clear(low) = BitmapOwn(mMap)
  <2>1. low.bits = T \cap ((0 .. LowPages - 1) \cup ((0 .. total) \ ConventionalPages(mMap)))
    BY <1>4, <1>5, <1>6
  <2>2. low.bits = KeptBack(mMap)
    BY <2>1 DEF KeptBack, NotConventional, start, total
  <2>3. BitmapPages(low) = BitmapPages(start) /\ Tracked(low) = T
    BY <1>6 DEF BitmapPages, Tracked
  <2> QED
    BY <2>2, <2>3 DEF BitmapOwn, Clear, start
<1>8. /\ Sound(final)
      /\ final.Size = start.Size
      /\ final.Buffer = start.Buffer
      /\ final.bits = low.bits \cup (BitmapPages(low) \cap T)
      /\ final.pageBitmapIndex = 0
      /\ final.freeMemory = Wrap(total - Cardinality(final.bits))
      /\ final.usedMemory = Wrap(Cardinality(BitmapOwn(mMap)))
      /\ final.reservedMemory = Wrap(Cardinality(KeptBack(mMap)))
  <2> DEFINE n == Cardinality(BitmapOwn(mMap))
             x == Cardinality(low.bits)
  <2>1. Tracked(low) = T
    BY <1>6 DEF Tracked
  <2>2. /\ Sound(final)
        /\ final.Size = start.Size
        /\ final.Buffer = start.Buffer
        /\ final.bits = low.bits \cup (BitmapPages(low) \cap T)
        /\ final.pageBitmapIndex = low.pageBitmapIndex
        /\ Cardinality(final.bits) = Cardinality(low.bits) + n
        /\ n \in Nat
        /\ final.freeMemory = Wrap(low.freeMemory - n)
        /\ final.usedMemory = Wrap(low.usedMemory + n)
        /\ final.reservedMemory = low.reservedMemory
    <3> DEFINE k == Cardinality(BitmapPages(low) \cap Clear(low))
    <3> HIDE DEF T, x
    <3>1. Sound(low)
      BY <1>6
    <3>2. /\ Sound(final)
          /\ final.Size = low.Size
          /\ final.Buffer = low.Buffer
          /\ final.bits = low.bits \cup (BitmapPages(low) \cap Tracked(low))
          /\ final.pageBitmapIndex = low.pageBitmapIndex
          /\ Cardinality(final.bits) = Cardinality(low.bits) + k
          /\ k \in Nat
          /\ final.freeMemory = Wrap(low.freeMemory - k)
          /\ final.usedMemory = Wrap(low.usedMemory + k)
          /\ final.reservedMemory = low.reservedMemory
      BY <3>1, LockPagesFacts
    <3>3. k = n
      BY <1>7
    <3> HIDE DEF k, n, final
    <3> QED
      BY <1>6, <2>1, <3>2, <3>3
  <2>3. x \in Nat
    BY <1>6
  <2> HIDE DEF n, final, T
  <2>4. /\ final.pageBitmapIndex = 0
        /\ Cardinality(final.bits) = x + n
        /\ final.freeMemory = Wrap(Wrap(total - x) - n)
        /\ final.usedMemory = Wrap(0 + n)
        /\ final.reservedMemory = Wrap(x)
    BY <1>6, <2>2
  <2>5. x \in Int /\ n \in Int /\ total \in Int
    BY <1>1, <2>2, <2>3
  <2> HIDE DEF x
  <2>6. Wrap(Wrap(total - x) - n) = Wrap(total - (x + n))
    BY <2>5, FreeAgreesStep
  <2>7. 0 + n = n
    BY <2>2
  <2> QED
    BY <1>7, <2>2, <2>4, <2>6, <2>7 DEF n, x
<1>9. final.bits = PermanentlyLocked(mMap)
  BY <1>7, <1>8 DEF PermanentlyLocked, BitmapOwn, start
<1>10. \A p \in Clear(final) : p >= final.pageBitmapIndex
  <2>1. Clear(final) \subseteq Nat
    BY <1>3, <1>8 DEF Clear, Tracked
  <2> QED
    BY <1>8, <2>1
<1>11. ReadEFIMemoryMap(mMap) = final
  BY DEF ReadEFIMemoryMap, final, low, released, all, start, total
<1> HIDE DEF final
<1> QED
  BY <1>8, <1>9, <1>10, <1>11 DEF FreeAgrees, start, total

-----------------------------------------------------------------------------
(* The inductive invariant *)

(* Before ReadEFIMemoryMap nothing is out; after it the bitmap keeps its   *)
(* place and size.                                                         *)
BootShape ==
  IF initialized
  THEN /\ corgiAlloc.Size = ClearBitmap(memoryMap).Size
       /\ corgiAlloc.Buffer = ClearBitmap(memoryMap).Buffer
  ELSE /\ corgiAlloc = EmptyAllocator
       /\ granted = {}
       /\ returned = NoPage

AllocInv ==
  /\ AllocTypeOK
  /\ BootShape
  /\ EveryBitHasOneOwner
  /\ NothingFreeBehindCursor
  /\ CountersAgree

(* The state in which every operation but Boot runs, in terms of the       *)
(* operation lemmas.                                                       *)
LEMMA Running ==
  ASSUME AllocInv, initialized
  PROVE  /\ Sound(corgiAlloc)
         /\ IsFiniteSet(granted)
         /\ IsFiniteSet(corgiAlloc.bits)
         /\ granted \subseteq corgiAlloc.bits
         /\ Clear(corgiAlloc) \subseteq Nat
         /\ Tracked(corgiAlloc) = Tracked(ClearBitmap(memoryMap))
         /\ Cardinality(granted) \in Nat
         /\ Cardinality(corgiAlloc.bits) \in Nat
         /\ Cardinality(BitmapOwn(memoryMap)) \in Nat
         /\ GetMemorySize(memoryMap) \in Nat
<1>1. /\ Sound(corgiAlloc)
      /\ corgiAlloc.Size \in Nat
      /\ memoryMap \in MemoryMaps
      /\ granted \subseteq Tracked(corgiAlloc)
  BY DEF AllocInv, AllocTypeOK, Sound, Allocator
<1>2. IsFiniteSet(Tracked(corgiAlloc)) /\ Tracked(corgiAlloc) \subseteq Nat
  BY <1>1, TrackedFacts
<1>3. Tracked(corgiAlloc) = Tracked(ClearBitmap(memoryMap))
  BY DEF AllocInv, BootShape, Tracked
<1>4. /\ granted \in SUBSET Tracked(corgiAlloc)
      /\ corgiAlloc.bits \in SUBSET Tracked(corgiAlloc)
      /\ BitmapOwn(memoryMap) \in SUBSET Tracked(corgiAlloc)
  BY <1>1, <1>3 DEF Sound, BitmapOwn
<1>5. /\ IsFiniteSet(granted)
      /\ IsFiniteSet(corgiAlloc.bits)
      /\ IsFiniteSet(BitmapOwn(memoryMap))
  BY <1>2, <1>4, FS_Subset
<1>6. granted \subseteq corgiAlloc.bits
  BY DEF AllocInv, EveryBitHasOneOwner
<1>7. GetMemorySize(memoryMap) \in Nat
  BY <1>1, MemoryMapsAssumption
<1> QED
  BY <1>1, <1>2, <1>3, <1>5, <1>6, <1>7, FS_CardinalityType DEF Clear

(* The initial states satisfy the inductive invariant.                     *)
LEMMA InitAllocInv == AllocInit => AllocInv
<1> SUFFICES ASSUME AllocInit
             PROVE  AllocInv
  OBVIOUS
<1>1. EmptyAllocator \in Allocator
  BY SizesAssumption DEF EmptyAllocator, Allocator, NoPage
<1>2. EmptyAllocator.Size * BitsPerByte = 0 /\ Tracked(EmptyAllocator) = {}
  BY SizesAssumption DEF EmptyAllocator, Tracked
<1>3. EmptyAllocator.bits = {} /\ EmptyAllocator.pageBitmapIndex = 0
  BY DEF EmptyAllocator
<1>4. AllocTypeOK
  <2>1. /\ corgiAlloc \in Allocator
        /\ corgiAlloc.Size * BitsPerByte = 0
        /\ corgiAlloc.bits = {}
        /\ corgiAlloc.pageBitmapIndex = 0
    BY <1>1, <1>2, <1>3 DEF AllocInit
  <2>2. corgiAlloc.pageBitmapIndex <= corgiAlloc.Size * BitsPerByte
    BY <2>1
  <2> QED
    BY <2>1, <2>2 DEF AllocInit, AllocTypeOK
<1>5. NothingFreeBehindCursor
  BY <1>2 DEF AllocInit, NothingFreeBehindCursor, Clear
<1> QED
  BY <1>4, <1>5
  DEF AllocInit, AllocInv, BootShape, EveryBitHasOneOwner, CountersAgree

(* Boot establishes the running part of the invariant.                     *)
LEMMA BootInv ==
  ASSUME AllocInv, Boot
  PROVE  AllocInv'
<1>1. /\ memoryMap \in MemoryMaps
      /\ memoryMap' = memoryMap
      /\ initialized' = TRUE
      /\ corgiAlloc' = ReadEFIMemoryMap(memoryMap)
      /\ granted = {} /\ granted' = {}
      /\ returned' = NoPage
  BY DEF AllocInv, AllocTypeOK, Boot, BootShape
<1> DEFINE a == ReadEFIMemoryMap(memoryMap)
<1>2. /\ Sound(a)
      /\ a.Size = ClearBitmap(memoryMap).Size
      /\ a.Buffer = ClearBitmap(memoryMap).Buffer
      /\ a.bits = PermanentlyLocked(memoryMap)
      /\ \A p \in Clear(a) : p >= a.pageBitmapIndex
      /\ FreeAgrees(a, GetMemorySize(memoryMap))
      /\ a.usedMemory = Wrap(Cardinality(BitmapOwn(memoryMap)))
      /\ a.reservedMemory = Wrap(Cardinality(KeptBack(memoryMap)))
  BY <1>1, BootFacts
<1> HIDE DEF a
<1>3. AllocTypeOK'
  BY <1>1, <1>2 DEF AllocTypeOK, Sound, a
<1>4. BootShape'
  BY <1>1, <1>2 DEF BootShape, a
<1>5. EveryBitHasOneOwner'
  BY <1>1, <1>2 DEF EveryBitHasOneOwner, a
<1>6. NothingFreeBehindCursor'
  BY <1>1, <1>2 DEF NothingFreeBehindCursor, a
<1>7. CountersAgree'
  <2>1. Cardinality(BitmapOwn(memoryMap)) \in Nat
    <3>1. BitmapOwn(memoryMap) \in SUBSET Tracked(a)
      BY <1>2 DEF BitmapOwn, Tracked
    <3>2. a.Size \in Nat
      BY <1>2 DEF Sound, Allocator
    <3> QED
      BY <3>1, <3>2, TrackedFacts, FS_Subset, FS_CardinalityType
  <2>2. Cardinality({}) + Cardinality(BitmapOwn(memoryMap))
          = Cardinality(BitmapOwn(memoryMap))
    BY <2>1, FS_EmptySet
  <2> QED
    BY <1>1, <1>2, <2>2 DEF CountersAgree, FreeAgrees, a
<1> QED
  BY <1>3, <1>4, <1>5, <1>6, <1>7 DEF AllocInv

(* A borrowed page leaves Clear, enters granted and moves one page from    *)
(* free to used; a refused request changes the cursor only.                *)
LEMMA BorrowInv ==
  ASSUME AllocInv, Borrow
  PROVE  AllocInv'
<1> DEFINE a == corgiAlloc
           b == BorrowPage(corgiAlloc).alloc
           page == BorrowPage(corgiAlloc).page
           g == Cardinality(granted)
           o == Cardinality(BitmapOwn(memoryMap))
           x == Cardinality(corgiAlloc.bits)
           total == GetMemorySize(memoryMap)
<1>1. /\ initialized /\ initialized' = initialized
      /\ memoryMap' = memoryMap
      /\ corgiAlloc' = b
      /\ returned' = page
      /\ granted' = granted \cup ({page} \ {NoPage})
  BY DEF Borrow
<1>2. /\ Sound(a)
      /\ IsFiniteSet(granted)
      /\ IsFiniteSet(a.bits)
      /\ granted \subseteq a.bits
      /\ Clear(a) \subseteq Nat
      /\ Tracked(a) = Tracked(ClearBitmap(memoryMap))
      /\ g \in Nat /\ x \in Nat /\ o \in Nat /\ total \in Nat
  BY <1>1, Running
<1>3. \A p \in Clear(a) : p >= a.pageBitmapIndex
  BY DEF AllocInv, NothingFreeBehindCursor
<1>4. /\ Sound(b)
      /\ b.Size = a.Size
      /\ b.Buffer = a.Buffer
      /\ b.reservedMemory = a.reservedMemory
      /\ \A p \in Clear(b) : p >= b.pageBitmapIndex
      /\ \/ /\ Clear(a) = {}
            /\ page = NoPage
            /\ b.bits = a.bits
            /\ b.freeMemory = a.freeMemory
            /\ b.usedMemory = a.usedMemory
         \/ /\ page \in Clear(a)
            /\ b.bits = a.bits \cup {page}
            /\ Cardinality(b.bits) = Cardinality(a.bits) + 1
            /\ b.freeMemory = Wrap(a.freeMemory - 1)
            /\ b.usedMemory = Wrap(a.usedMemory + 1)
  BY <1>2, <1>3, BorrowPageFacts
<1> HIDE DEF b, page
<1>5. /\ AllocTypeOK /\ BootShape /\ EveryBitHasOneOwner /\ CountersAgree
  BY DEF AllocInv
<1>6. Tracked(b) = Tracked(a)
  BY <1>4 DEF Tracked
<1>7. BootShape'
  BY <1>1, <1>4, <1>5 DEF BootShape
<1>8. NothingFreeBehindCursor'
  BY <1>1, <1>4 DEF NothingFreeBehindCursor
<1>9. CASE page = NoPage /\ b.bits = a.bits /\ b.freeMemory = a.freeMemory
           /\ b.usedMemory = a.usedMemory
  <2>1. granted' = granted
    BY <1>1, <1>9
  <2>2. AllocTypeOK'
    BY <1>1, <1>4, <1>5, <1>6, <1>9, <2>1 DEF AllocTypeOK, Sound
  <2>3. EveryBitHasOneOwner'
    BY <1>1, <1>5, <1>9, <2>1 DEF EveryBitHasOneOwner
  <2>4. CountersAgree'
    BY <1>1, <1>4, <1>5, <1>9, <2>1 DEF CountersAgree
  <2> QED
    BY <1>7, <1>8, <2>2, <2>3, <2>4 DEF AllocInv
<1>10. CASE /\ page \in Clear(a)
            /\ b.bits = a.bits \cup {page}
            /\ Cardinality(b.bits) = Cardinality(a.bits) + 1
            /\ b.freeMemory = Wrap(a.freeMemory - 1)
            /\ b.usedMemory = Wrap(a.usedMemory + 1)
  <2>1. page # NoPage /\ page \in Tracked(a) /\ page \notin a.bits
    <3>1. page \in Tracked(a) /\ page \notin a.bits
      BY <1>10 DEF Clear
    <3>2. NoPage \in 0 .. LowPages - 1
      BY SizesAssumption DEF NoPage
    <3>3. NoPage \in Tracked(a) => NoPage \in a.bits
      BY <1>1, <1>2, <1>5, <3>2
      DEF EveryBitHasOneOwner, PermanentlyLocked, KeptBack
    <3> QED
      BY <3>1, <3>3
  <2>2. granted' = granted \cup {page}
    BY <1>1, <2>1
  <2>3. AllocTypeOK'
    BY <1>1, <1>4, <1>5, <1>6, <2>1, <2>2 DEF AllocTypeOK, Sound
  <2>4. EveryBitHasOneOwner'
    BY <1>1, <1>5, <1>10, <2>1, <2>2 DEF EveryBitHasOneOwner
  <2>5. CountersAgree'
    <3>1. Cardinality(granted') = g + 1
      BY <1>2, <2>1, <2>2, FS_AddElement
    <3>2. a.freeMemory = Wrap(total - x) /\ a.usedMemory = Wrap(g + o)
          /\ a.reservedMemory = Wrap(Cardinality(KeptBack(memoryMap)))
      BY <1>1, <1>5 DEF CountersAgree
    <3> HIDE DEF g, o, x, total, a
    <3>3. b.freeMemory = Wrap(total - (x + 1))
      <4>1. Wrap(Wrap(total - x) - 1) = Wrap(total - (x + 1))
        BY <1>2, FreeAgreesStep
      <4> QED
        BY <1>10, <3>2, <4>1
    <3>4. b.usedMemory = Wrap((g + 1) + o)
      <4>1. Wrap(Wrap(g + o) + 1) = Wrap((g + o) + 1)
        BY <1>2, WrapAdd
      <4>2. (g + o) + 1 = (g + 1) + o
        BY <1>2
      <4> QED
        BY <1>10, <3>2, <4>1, <4>2
    <3>5. Cardinality(b.bits) = x + 1
      BY <1>10 DEF a, x
    <3> QED
      BY <1>1, <1>4, <3>1, <3>2, <3>3, <3>4, <3>5 DEF CountersAgree, a, o, total
  <2> QED
    BY <1>7, <1>8, <2>3, <2>4, <2>5 DEF AllocInv
<1> QED
  BY <1>4, <1>9, <1>10

(* The clear pages of a stolen run leave Clear and enter granted.          *)
LEMMA StealInv ==
  ASSUME AllocInv, NEW pages, Steal(pages)
  PROVE  AllocInv'
<1> DEFINE a == corgiAlloc
           b == LockPages(corgiAlloc, pages)
           locked == pages \cap Clear(corgiAlloc)
           n == Cardinality(locked)
           g == Cardinality(granted)
           o == Cardinality(BitmapOwn(memoryMap))
           x == Cardinality(corgiAlloc.bits)
           total == GetMemorySize(memoryMap)
<1>1. /\ initialized /\ initialized' = initialized
      /\ memoryMap' = memoryMap
      /\ corgiAlloc' = b
      /\ returned' = returned
      /\ granted' = granted \cup locked
  BY DEF Steal
<1>2. /\ Sound(a)
      /\ IsFiniteSet(granted)
      /\ granted \subseteq a.bits
      /\ Tracked(a) = Tracked(ClearBitmap(memoryMap))
      /\ g \in Nat /\ x \in Nat /\ o \in Nat /\ total \in Nat
  BY <1>1, Running
<1>3. /\ Sound(b)
      /\ b.Size = a.Size
      /\ b.Buffer = a.Buffer
      /\ b.bits = a.bits \cup (pages \cap Tracked(a))
      /\ b.pageBitmapIndex = a.pageBitmapIndex
      /\ Cardinality(b.bits) = x + n
      /\ n \in Nat
      /\ b.freeMemory = Wrap(a.freeMemory - n)
      /\ b.usedMemory = Wrap(a.usedMemory + n)
      /\ b.reservedMemory = a.reservedMemory
  BY <1>2, LockPagesFacts
<1>4. /\ locked \subseteq Tracked(a)
      /\ locked \cap a.bits = {}
      /\ b.bits = a.bits \cup locked
  BY <1>3 DEF Clear
<1>5. Cardinality(granted') = g + n
  <2>1. IsFiniteSet(locked)
    BY <1>2, <1>4, TrackedFacts, FS_Subset DEF Sound, Allocator
  <2>2. locked \cap granted = {}
    BY <1>2, <1>4
  <2> HIDE DEF locked
  <2> QED
    BY <1>1, <1>2, <2>1, <2>2, CountSet
<1> HIDE DEF b, locked, n
<1>6. AllocTypeOK /\ BootShape /\ EveryBitHasOneOwner /\ NothingFreeBehindCursor
      /\ CountersAgree
  BY DEF AllocInv
<1>7. Tracked(b) = Tracked(a)
  BY <1>3 DEF Tracked
<1>8. AllocTypeOK'
  BY <1>1, <1>3, <1>4, <1>6, <1>7 DEF AllocTypeOK, Sound
<1>9. BootShape'
  BY <1>1, <1>3, <1>6 DEF BootShape
<1>10. EveryBitHasOneOwner'
  <2>1. PermanentlyLocked(memoryMap) \subseteq a.bits
    BY <1>1, <1>6 DEF EveryBitHasOneOwner
  <2> QED
    BY <1>1, <1>4, <1>6, <2>1 DEF EveryBitHasOneOwner
<1>11. NothingFreeBehindCursor'
  <2>1. Clear(b) \subseteq Clear(a)
    BY <1>4, <1>7 DEF Clear
  <2> QED
    BY <1>1, <1>3, <1>6, <2>1 DEF NothingFreeBehindCursor
<1>12. CountersAgree'
  <2>1. /\ a.freeMemory = Wrap(total - x)
        /\ a.usedMemory = Wrap(g + o)
        /\ a.reservedMemory = Wrap(Cardinality(KeptBack(memoryMap)))
    BY <1>1, <1>6 DEF CountersAgree
  <2> HIDE DEF a, g, o, x, total
  <2>2. b.freeMemory = Wrap(total - (x + n))
    <3>1. Wrap(Wrap(total - x) - n) = Wrap(total - (x + n))
      BY <1>2, <1>3, FreeAgreesStep
    <3> QED
      BY <1>3, <2>1, <3>1
  <2>3. b.usedMemory = Wrap((g + n) + o)
    <3>1. Wrap(Wrap(g + o) + n) = Wrap((g + o) + n)
      BY <1>2, <1>3, WrapAdd
    <3>2. (g + o) + n = (g + n) + o
      BY <1>2, <1>3
    <3> QED
      BY <1>3, <2>1, <3>1, <3>2
  <2> QED
    BY <1>1, <1>3, <1>5, <2>1, <2>2, <2>3 DEF CountersAgree, a, o, total
<1> QED
  BY <1>8, <1>9, <1>10, <1>11, <1>12 DEF AllocInv

(* A dropped run leaves granted, enters Clear and pulls the cursor back.   *)
LEMMA DropInv ==
  ASSUME AllocInv, NEW pages, Drop(pages)
  PROVE  AllocInv'
<1> DEFINE a == corgiAlloc
           b == FreePages(corgiAlloc, pages)
           n == Cardinality(pages)
           g == Cardinality(granted)
           o == Cardinality(BitmapOwn(memoryMap))
           x == Cardinality(corgiAlloc.bits)
           total == GetMemorySize(memoryMap)
<1>1. /\ initialized /\ initialized' = initialized
      /\ memoryMap' = memoryMap
      /\ corgiAlloc' = b
      /\ returned' = returned
      /\ pages \subseteq granted
      /\ granted' = granted \ pages
  BY DEF Drop
<1>2. /\ Sound(a)
      /\ IsFiniteSet(granted)
      /\ granted \subseteq a.bits
      /\ Clear(a) \subseteq Nat
      /\ Tracked(a) = Tracked(ClearBitmap(memoryMap))
      /\ g \in Nat /\ x \in Nat /\ o \in Nat /\ total \in Nat
  BY <1>1, Running
<1>3. /\ Sound(b)
      /\ b.Size = a.Size
      /\ b.Buffer = a.Buffer
      /\ b.bits = a.bits \ pages
      /\ b.pageBitmapIndex <= a.pageBitmapIndex
      /\ \A p \in pages : b.pageBitmapIndex <= p
      /\ Cardinality(b.bits) = x - n
      /\ n \in Nat
      /\ b.freeMemory = Wrap(a.freeMemory + n)
      /\ b.usedMemory = Wrap(a.usedMemory - n)
      /\ b.reservedMemory = a.reservedMemory
  <2>1. pages \cap a.bits = pages
    BY <1>1, <1>2
  <2> QED
    BY <1>2, <2>1, FreePagesFacts
<1>4. Cardinality(granted') = g - n
  BY <1>1, <1>2, CountClear
<1> HIDE DEF b, n
<1>5. AllocTypeOK /\ BootShape /\ EveryBitHasOneOwner /\ NothingFreeBehindCursor
      /\ CountersAgree
  BY DEF AllocInv
<1>6. Tracked(b) = Tracked(a)
  BY <1>3 DEF Tracked
<1>7. AllocTypeOK'
  BY <1>1, <1>3, <1>5, <1>6 DEF AllocTypeOK, Sound
<1>8. BootShape'
  BY <1>1, <1>3, <1>5 DEF BootShape
<1>9. EveryBitHasOneOwner'
  BY <1>1, <1>3, <1>5 DEF EveryBitHasOneOwner
<1>10. NothingFreeBehindCursor'
  <2>1. Clear(b) \subseteq Clear(a) \cup pages /\ Clear(b) \subseteq Nat
    <3>1. Tracked(b) \subseteq Nat
      BY <1>3, TrackedFacts DEF Sound, Allocator
    <3> HIDE DEF a
    <3>2. Clear(b) = Tracked(a) \ (a.bits \ pages)
      BY <1>3, <1>6 DEF Clear
    <3>3. Clear(a) = Tracked(a) \ a.bits
      BY DEF Clear
    <3> QED
      BY <1>6, <3>1, <3>2, <3>3
  <2>2. b.pageBitmapIndex \in Nat /\ a.pageBitmapIndex \in Nat
    BY <1>2, <1>3 DEF Sound, Allocator
  <2> QED
    BY <1>1, <1>2, <1>3, <1>5, <2>1, <2>2 DEF NothingFreeBehindCursor
<1>11. CountersAgree'
  <2>1. /\ a.freeMemory = Wrap(total - x)
        /\ a.usedMemory = Wrap(g + o)
        /\ a.reservedMemory = Wrap(Cardinality(KeptBack(memoryMap)))
    BY <1>1, <1>5 DEF CountersAgree
  <2> HIDE DEF a, g, o, x, total
  <2>2. b.freeMemory = Wrap(total - (x - n))
    <3>1. Wrap(Wrap(total - x) + n) = Wrap((total - x) + n)
      BY <1>2, <1>3, WrapAdd
    <3>2. (total - x) + n = total - (x - n)
      BY <1>2, <1>3
    <3> QED
      BY <1>3, <2>1, <3>1, <3>2
  <2>3. b.usedMemory = Wrap((g - n) + o)
    <3>1. Wrap(Wrap(g + o) + (-n)) = Wrap((g + o) + (-n))
      BY <1>2, <1>3, WrapAdd
    <3>2. Wrap(g + o) \in Int
      BY <1>2, WrapType, SizesAssumption
    <3>3. /\ (g + o) + (-n) = (g - n) + o
          /\ Wrap(g + o) + (-n) = Wrap(g + o) - n
      BY <1>2, <1>3, <3>2
    <3> QED
      BY <1>3, <2>1, <3>1, <3>3
  <2> QED
    BY <1>1, <1>3, <1>4, <2>1, <2>2, <2>3 DEF CountersAgree, a, o, total
<1> QED
  BY <1>7, <1>8, <1>9, <1>10, <1>11 DEF AllocInv

(* Every behaviour of the allocator and its clients satisfies the          *)
(* inductive invariant.                                                    *)
THEOREM Invariance == AllocSpec => []AllocInv
<1>1. AllocInv /\ [AllocNext]_allocVars => AllocInv'
  <2> SUFFICES ASSUME AllocInv, [AllocNext]_allocVars
               PROVE  AllocInv'
    OBVIOUS
  <2>1. CASE Boot
    BY <2>1, BootInv
  <2>2. CASE Borrow
    BY <2>2, BorrowInv
  <2>3. ASSUME NEW pages \in Runs, Steal(pages)
        PROVE  AllocInv'
    BY <2>3, StealInv
  <2>4. ASSUME NEW pages \in Runs, Drop(pages)
        PROVE  AllocInv'
    BY <2>4, DropInv
  <2>5. CASE UNCHANGED allocVars
    BY <2>5
    DEF allocVars, AllocInv, AllocTypeOK, BootShape, EveryBitHasOneOwner,
        NothingFreeBehindCursor, CountersAgree
  <2> QED
    BY <2>1, <2>2, <2>3, <2>4, <2>5 DEF AllocNext
<1> QED
  BY <1>1, InitAllocInv, PTL DEF AllocSpec

-----------------------------------------------------------------------------
(* Results *)

(* Type correctness: set bits, pages out and the cursor stay in the range  *)
(* of the bitmap.                                                          *)
THEOREM TypeCorrect == AllocSpec => []AllocTypeOK
<1>1. AllocInv => AllocTypeOK
  BY DEF AllocInv
<1> QED
  BY <1>1, Invariance, PTL

(* No page has two owners, and none is lost, whatever the clients do.      *)
THEOREM Ownership == AllocSpec => []EveryBitHasOneOwner
<1>1. AllocInv => EveryBitHasOneOwner
  BY DEF AllocInv
<1> QED
  BY <1>1, Invariance, PTL

(* The cursor never passes a free page.                                    *)
THEOREM CursorSafe == AllocSpec => []NothingFreeBehindCursor
<1>1. AllocInv => NothingFreeBehindCursor
  BY DEF AllocInv
<1> QED
  BY <1>1, Invariance, PTL

(* GetFreeRAM, GetUsedRAM and GetReservedRAM agree with the bitmap.        *)
THEOREM Accounting == AllocSpec => []CountersAgree
<1>1. AllocInv => CountersAgree
  BY DEF AllocInv
<1> QED
  BY <1>1, Invariance, PTL

(* The allocator implements the abstract pool: each operation is one step  *)
(* of PagePool.                                                            *)
THEOREM Implementation == AllocSpec => PoolImplemented
<1>1. AllocInit => Pool!Init
  BY DEF AllocInit, Pool!Init, FreePool
<1>2. AllocInv /\ AllocInv' /\ [AllocNext]_allocVars => [Pool!Next]_(Pool!poolVars)
  <2> SUFFICES ASSUME AllocInv, AllocInv', [AllocNext]_allocVars
               PROVE  Pool!Next \/ UNCHANGED Pool!poolVars
    OBVIOUS
  <2>1. NoPage \notin FreePool'
    <3>1. NoPage \in 0 .. LowPages - 1
      BY SizesAssumption DEF NoPage
    <3>2. CASE initialized'
      <4>1. Tracked(corgiAlloc') = Tracked(ClearBitmap(memoryMap'))
        BY <3>2 DEF AllocInv, BootShape, Tracked
      <4> QED
        BY <3>1, <3>2, <4>1
        DEF AllocInv, EveryBitHasOneOwner, PermanentlyLocked, KeptBack, FreePool,
            Clear
    <3>3. CASE ~initialized'
      BY <3>3 DEF FreePool
    <3> QED
      BY <3>2, <3>3
  <2>2. CASE Boot
    <3>1. Pool!Fill
      BY <2>1, <2>2 DEF Boot, Pool!Fill
    <3> QED
      BY <3>1 DEF Pool!Next
  <2>3. CASE Borrow
    <3> DEFINE b == BorrowPage(corgiAlloc).alloc
               page == BorrowPage(corgiAlloc).page
    <3>1. /\ initialized /\ initialized' = initialized
          /\ corgiAlloc' = b
          /\ returned' = page
          /\ granted' = granted \cup ({page} \ {NoPage})
      BY <2>3 DEF Borrow
    <3>2. /\ b.Size = corgiAlloc.Size
          /\ \/ /\ Clear(corgiAlloc) = {}
                /\ page = NoPage
                /\ b.bits = corgiAlloc.bits
             \/ /\ page \in Clear(corgiAlloc)
                /\ b.bits = corgiAlloc.bits \cup {page}
      BY <3>1, Running, BorrowPageFacts DEF AllocInv, NothingFreeBehindCursor
    <3> HIDE DEF b, page
    <3>3. FreePool = Clear(corgiAlloc) /\ FreePool' = Clear(b)
      BY <3>1 DEF FreePool
    <3>4. Tracked(b) = Tracked(corgiAlloc)
      BY <3>2 DEF Tracked
    <3>5. CASE /\ Clear(corgiAlloc) = {}
               /\ page = NoPage
               /\ b.bits = corgiAlloc.bits
      <4>1. Clear(b) = Clear(corgiAlloc)
        BY <3>4, <3>5 DEF Clear
      <4>2. granted' = granted
        BY <3>1, <3>5
      <4>3. Pool!Refuse
        BY <3>1, <3>3, <3>5, <4>1, <4>2 DEF Pool!Refuse
      <4> QED
        BY <4>3 DEF Pool!Next
    <3>6. CASE /\ page \in Clear(corgiAlloc)
               /\ b.bits = corgiAlloc.bits \cup {page}
      <4>1. Clear(b) = Clear(corgiAlloc) \ {page}
        BY <3>4, <3>6 DEF Clear
      <4>2. page # NoPage
        <5>1. NoPage \in 0 .. LowPages - 1
          BY SizesAssumption DEF NoPage
        <5> QED
          BY <3>1, <3>6, <5>1, Running
          DEF AllocInv, EveryBitHasOneOwner, PermanentlyLocked, KeptBack, Clear
      <4>3. granted' = granted \cup {page}
        BY <3>1, <4>2
      <4>4. Pool!Take
        BY <3>1, <3>3, <3>6, <4>1, <4>3 DEF Pool!Take
      <4> QED
        BY <4>4 DEF Pool!Next
    <3> QED
      BY <3>2, <3>5, <3>6
  <2>4. ASSUME NEW pages \in Runs, Steal(pages)
        PROVE  Pool!Next
    <3> DEFINE b == LockPages(corgiAlloc, pages)
    <3>1. /\ initialized /\ initialized' = initialized
          /\ corgiAlloc' = b
          /\ returned' = returned
          /\ granted' = granted \cup (pages \cap Clear(corgiAlloc))
      BY <2>4 DEF Steal
    <3>2. /\ b.Size = corgiAlloc.Size
          /\ b.bits = corgiAlloc.bits \cup (pages \cap Tracked(corgiAlloc))
      BY <3>1, Running, LockPagesFacts
    <3> HIDE DEF b
    <3>3. FreePool = Clear(corgiAlloc) /\ FreePool' = Clear(b)
      BY <3>1 DEF FreePool
    <3>4. Tracked(b) = Tracked(corgiAlloc)
      BY <3>2 DEF Tracked
    <3>5. Clear(b) = Clear(corgiAlloc) \ pages
      BY <3>2, <3>4 DEF Clear
    <3>6. Pool!Claim
      BY <3>1, <3>3, <3>5 DEF Pool!Claim
    <3> QED
      BY <3>6 DEF Pool!Next
  <2>5. ASSUME NEW pages \in Runs, Drop(pages)
        PROVE  Pool!Next
    <3> DEFINE b == FreePages(corgiAlloc, pages)
    <3>1. /\ initialized /\ initialized' = initialized
          /\ corgiAlloc' = b
          /\ returned' = returned
          /\ pages \subseteq granted
          /\ granted' = granted \ pages
      BY <2>5 DEF Drop
    <3>2. /\ b.Size = corgiAlloc.Size
          /\ b.bits = corgiAlloc.bits \ pages
          /\ granted \subseteq corgiAlloc.bits
          /\ granted \subseteq Tracked(corgiAlloc)
      BY <3>1, Running, FreePagesFacts DEF AllocInv, AllocTypeOK
    <3> HIDE DEF b
    <3>3. FreePool = Clear(corgiAlloc) /\ FreePool' = Clear(b)
      BY <3>1 DEF FreePool
    <3>4. Tracked(b) = Tracked(corgiAlloc)
      BY <3>2 DEF Tracked
    <3>5. Clear(b) = Clear(corgiAlloc) \cup (granted \ granted')
      BY <3>1, <3>2, <3>4 DEF Clear
    <3>6. Pool!Return
      BY <3>1, <3>3, <3>5 DEF Pool!Return
    <3> QED
      BY <3>6 DEF Pool!Next
  <2>6. CASE UNCHANGED allocVars
    BY <2>6 DEF allocVars, Pool!poolVars, FreePool
  <2> QED
    BY <2>2, <2>3, <2>4, <2>5, <2>6 DEF AllocNext
<1> QED
  BY <1>1, <1>2, Invariance, PTL DEF AllocSpec, PoolImplemented, Pool!Spec

-----------------------------------------------------------------------------
(* The promise of the abstract pool *)

(* Before the pool is filled nobody holds a page of it; without this a     *)
(* client could already hold what Fill puts in.                            *)
PoolInv ==
  /\ Pool!Exclusive
  /\ ~initialized => granted = {}

(* No sequence of requests, claims and returns makes a page free and held  *)
(* at once or hands out the null page, whatever the pool is filled with:   *)
(* what corgiAlloc owes to MapMemory, which writes to the page it gets.    *)
THEOREM PoolExclusive == Pool!Spec => []Pool!Exclusive
<1>1. Pool!Init => PoolInv
  BY DEF Pool!Init, PoolInv, Pool!Exclusive
<1>2. ASSUME PoolInv, [Pool!Next]_(Pool!poolVars)
      PROVE  PoolInv'
  <2>1. CASE Pool!Fill
    BY <1>2, <2>1 DEF Pool!Fill, PoolInv, Pool!Exclusive
  <2>2. CASE Pool!Take
    BY <1>2, <2>2 DEF Pool!Take, PoolInv, Pool!Exclusive
  <2>3. CASE Pool!Refuse
    BY <1>2, <2>3 DEF Pool!Refuse, PoolInv, Pool!Exclusive
  <2>4. CASE Pool!Claim
    BY <1>2, <2>4 DEF Pool!Claim, PoolInv, Pool!Exclusive
  <2>5. CASE Pool!Return
    BY <1>2, <2>5 DEF Pool!Return, PoolInv, Pool!Exclusive
  <2>6. CASE UNCHANGED Pool!poolVars
    BY <1>2, <2>6 DEF Pool!poolVars, PoolInv, Pool!Exclusive
  <2> QED
    BY <1>2, <2>1, <2>2, <2>3, <2>4, <2>5, <2>6 DEF Pool!Next
<1>3. PoolInv => Pool!Exclusive
  BY DEF PoolInv
<1> QED
  BY <1>1, <1>2, <1>3, PTL DEF Pool!Spec

(* The allocator keeps it, because it implements the pool.                 *)
THEOREM PromiseKept == AllocSpec => []Pool!Exclusive
  BY Implementation, PoolExclusive DEF PoolImplemented

-----------------------------------------------------------------------------
(* The allocator under the kernel *)

(* A borrow keeps the bitmap's range and answers with a page of it.        *)
LEMMA BorrowStep ==
  ASSUME AllocInv, Borrow
  PROVE  /\ AllocInv'
         /\ initialized' = initialized
         /\ memoryMap' = memoryMap
         /\ Tracked(corgiAlloc)' = Tracked(corgiAlloc)
         /\ returned' \in Tracked(corgiAlloc)
         /\ returned' \in Nat
<1>1. AllocInv'
  BY BorrowInv
<1>2. initialized /\ initialized' = initialized /\ memoryMap' = memoryMap
  BY DEF Borrow
<1>3. /\ corgiAlloc.Size = ClearBitmap(memoryMap).Size
      /\ corgiAlloc'.Size = ClearBitmap(memoryMap).Size
      /\ memoryMap \in MemoryMaps
  BY <1>1, <1>2 DEF AllocInv, BootShape, AllocTypeOK
<1>4. Tracked(corgiAlloc)' = Tracked(corgiAlloc)
  BY <1>3 DEF Tracked
<1>5. returned' \in {NoPage} \cup Tracked(corgiAlloc)
  BY <1>1, <1>4 DEF AllocInv, AllocTypeOK
<1>6. NoPage \in Tracked(corgiAlloc) /\ Tracked(corgiAlloc) \subseteq Nat
  <2> DEFINE size == GetMemorySize(memoryMap) \div BitsPerByte + 1
  <2>1. size \in Nat \ {0}
    <3>1. GetMemorySize(memoryMap) \in Nat
      BY <1>3, MemoryMapsAssumption
    <3> QED
      BY <3>1, SizesAssumption, SMT
  <2>2. corgiAlloc.Size = size
    BY <1>3 DEF ClearBitmap, EmptyAllocator
  <2> HIDE DEF size
  <2>3. corgiAlloc.Size \in Nat \ {0}
    BY <2>1, <2>2
  <2>4. 0 < corgiAlloc.Size * BitsPerByte
    BY <2>3, SizesAssumption
  <2> QED
    BY <2>3, <2>4, TrackedFacts DEF NoPage
<1> QED
  BY <1>1, <1>2, <1>4, <1>5, <1>6

(* The kernel's steps as seen by the allocator: Boot, Borrow, Steal or     *)
(* nothing.                                                                *)
AllocStep ==
  \/ Boot
  \/ Borrow
  \/ Steal(KernelImage)
  \/ UNCHANGED allocVars

LEMMA KernelStep ==
  ASSUME [Next]_vars
  PROVE  AllocStep
<1>1. CASE Prepare
  BY <1>1
  DEF Prepare, ReadMap, StealKernel, BorrowPML4, CallMapMemory, EndLoop,
      EnumerateFunction, EndPCI, PrepareInterrupts, AllocStep
<1>2. CASE MapMemory
  BY <1>2
  DEF MapMemory, Descend, BorrowTable, ClearTable, LinkTable, TableFault,
      UnhandledFault, Runaway, MapPage, AllocStep
<1>3. CASE BorrowNewPage
  BY <1>3 DEF BorrowNewPage, AllocStep
<1>4. ASSUME NEW virtual \in Touched, PageFault(virtual)
      PROVE  AllocStep
  BY <1>4 DEF PageFault, AllocStep
<1>5. CASE UNCHANGED vars
  BY <1>5 DEF vars, AllocStep
<1> QED
  BY <1>1, <1>2, <1>3, <1>4, <1>5 DEF Next

(* The invariant of the allocator does not care which pages are stolen, so *)
(* it holds under the kernel as it does under arbitrary clients.           *)
LEMMA AllocStepInv ==
  ASSUME AllocInv, AllocStep
  PROVE  AllocInv'
<1>1. CASE Boot
  BY <1>1, BootInv
<1>2. CASE Borrow
  BY <1>2, BorrowInv
<1>3. CASE Steal(KernelImage)
  BY <1>3, StealInv
<1>4. CASE UNCHANGED allocVars
  BY <1>4
  DEF allocVars, AllocInv, AllocTypeOK, BootShape, EveryBitHasOneOwner,
      NothingFreeBehindCursor, CountersAgree
<1> QED
  BY <1>1, <1>2, <1>3, <1>4 DEF AllocStep

(* Whatever the kernel maps and however faults nest, each page has one     *)
(* owner: no table, IDT or backing page is ever handed out twice.          *)
THEOREM KernelOwnership == Spec => []EveryBitHasOneOwner
<1>1. Init => AllocInv
  BY InitAllocInv DEF Init
<1>2. AllocInv /\ [Next]_vars => AllocInv'
  BY KernelStep, AllocStepInv
<1>3. AllocInv => EveryBitHasOneOwner
  BY DEF AllocInv
<1> QED
  BY <1>1, <1>2, <1>3, PTL DEF Spec

-----------------------------------------------------------------------------
(* Helpers *)

(* The innermost call of a nonempty stack, and what replacing it leaves.   *)
LEMMA StackFacts ==
  ASSUME NEW S, stack \in Seq(S), stack # << >>
  PROVE  /\ Top \in S
         /\ Below \in Seq(S)
         /\ \A c \in S : ReplaceTop(c) \in Seq(S)
<1>1. Len(stack) \in Nat \ {0}
  BY EmptySeq, LenProperties
<1>2. Top \in S
  BY <1>1, ElementOfSeq DEF Top
<1>3. Below \in Seq(S)
  <2>1. \A i \in 1 .. Len(stack) - 1 : stack[i] \in S
    BY <1>1, ElementOfSeq
  <2> QED
    BY <1>1, <2>1, SubSeqProperties DEF Below
<1>4. \A c \in S : ReplaceTop(c) \in Seq(S)
  BY <1>3, AppendProperties DEF ReplaceTop
<1> QED
  BY <1>2, <1>3, <1>4

(* The strides of the four levels are positive, so an index is in range.   *)
LEMMA IndexType ==
  ASSUME NEW virtual \in Nat, NEW level \in 1 .. 4
  PROVE  Index(virtual, level) \in Indices
<1>1. Fan \in Nat \ {0}
  BY KernelAssumption
<1>2. Fan * Fan \in Nat \ {0}
  BY <1>1
<1>3. Fan * (Fan * Fan) \in Nat \ {0}
  <2> DEFINE square == Fan * Fan
  <2>1. square \in Nat \ {0}
    BY <1>2
  <2> HIDE DEF square
  <2>2. Fan * square \in Nat \ {0}
    BY <1>1, <2>1
  <2> QED
    BY <2>2 DEF square
<1>4. Stride[level] \in Nat \ {0}
  BY <1>1, <1>2, <1>3 DEF Stride
<1> DEFINE stride == Stride[level]
           shifted == virtual \div stride
<1>5. shifted \in Nat
  <2> HIDE DEF stride
  <2> QED
    BY <1>4, SMT DEF stride
<1> HIDE DEF shifted
<1>6. shifted % Fan \in 0 .. Fan - 1
  BY <1>1, <1>5, SMT
<1> QED
  BY <1>6 DEF Index, Indices, shifted

(* The well-typed tables.                                                  *)
TablesOK ==
  /\ PML4 \in Nat
  /\ DOMAIN tables \subseteq Nat
  /\ tables \in [DOMAIN tables -> [Indices -> Entries]]

Values == Nat \cup {Absent, Garbage}

(* An entry is a page, Absent or Garbage, and so is what a walk ends with. *)
LEMMA EntryType ==
  ASSUME TablesOK, NEW table, NEW i \in Indices
  PROVE  Entry(table, i) \in Values
<1>1. CASE table \in DOMAIN tables
  <2>1. tables[table] \in [Indices -> Entries]
    BY <1>1 DEF TablesOK
  <2>2. tables[table][i] \in Entries
    BY <2>1
  <2> QED
    BY <1>1, <2>2 DEF Entry, Entries, Values
<1>2. CASE table \notin DOMAIN tables
  BY <1>2 DEF Entry, Values
<1> QED
  BY <1>1, <1>2

LEMMA WalkType ==
  ASSUME TablesOK, NEW virtual \in Nat
  PROVE  Walk(virtual) \in Values /\ Physical(virtual) \in Values
<1> DEFINE Step(entry, level) ==
             IF entry < 0 THEN entry ELSE Entry(entry, Index(virtual, level))
<1>1. ASSUME NEW entry \in Values, NEW level \in 1 .. 4
      PROVE  Step(entry, level) \in Values
  <2>1. Entry(entry, Index(virtual, level)) \in Values
    BY IndexType, EntryType
  <2> QED
    BY <2>1
<1>2. PML4 \in Values
  BY DEF TablesOK, Values
<1>3. Walk(virtual) = Step(Step(Step(Step(PML4, 1), 2), 3), 4)
  BY DEF Walk
<1> HIDE DEF Step
<1>4. Step(PML4, 1) \in Values
  BY <1>1, <1>2
<1>5. Step(Step(PML4, 1), 2) \in Values
  BY <1>1, <1>4
<1>6. Step(Step(Step(PML4, 1), 2), 3) \in Values
  BY <1>1, <1>5
<1>7. Walk(virtual) \in Values
  BY <1>1, <1>3, <1>6
<1>8. virtual \in Values
  BY DEF Values
<1> QED
  BY <1>7, <1>8 DEF Physical

(* Zeroing a page as a table and writing an entry keep the tables typed.   *)
LEMMA PutType ==
  ASSUME NEW f, DOMAIN f \subseteq Nat, NEW T, f \in [DOMAIN f -> T],
         NEW x \in Nat, NEW y \in T
  PROVE  /\ DOMAIN Put(f, x, y) \subseteq Nat
         /\ DOMAIN Put(f, x, y) = DOMAIN f \cup {x}
         /\ Put(f, x, y) \in [DOMAIN Put(f, x, y) -> T]
  BY DEF Put

LEMMA WriteType ==
  ASSUME TablesOK, NEW table, NEW i \in Indices, NEW page \in Nat
  PROVE  /\ DOMAIN Write(table, i, page) \subseteq Nat
         /\ Write(table, i, page)
              \in [DOMAIN Write(table, i, page) -> [Indices -> Entries]]
<1>1. DOMAIN Write(table, i, page) = DOMAIN tables
  BY DEF Write
<1>2. ASSUME NEW t \in DOMAIN tables
      PROVE  Write(table, i, page)[t] \in [Indices -> Entries]
  <2>1. tables[t] \in [Indices -> Entries]
    BY DEF TablesOK
  <2>2. [tables[t] EXCEPT ![i] = page] \in [Indices -> Entries]
    BY <2>1 DEF Entries
  <2> QED
    BY <2>1, <2>2 DEF Write
<1>3. Write(table, i, page) = [t \in DOMAIN tables |-> Write(table, i, page)[t]]
  BY DEF Write
<1> QED
  BY <1>1, <1>2, <1>3 DEF TablesOK

-----------------------------------------------------------------------------
(* The inductive invariant behind TypeOK *)

(* What a call in progress looks like: the table page it waits to zero is  *)
(* a page of the bitmap and the level a directory's, a fault maps a page   *)
(* of the bitmap, and EnumeratePCI maps configuration pages.               *)
LiveCalls ==
  {c \in Calls :
     /\ c.fresh \in {Nothing} \cup Tracked(corgiAlloc)
     /\ c.fresh # Nothing => c.level \in 1 .. 3
     /\ phase = "running" /\ c.level > 0 => c.physical \in Tracked(corgiAlloc)
     /\ phase = "pci" => c.virtual \in ConfigPages}

Idle == phase \notin {"identity", "framebuffer", "pci", "running"}

KernelInv ==
  /\ TypeOK
  /\ AllocInv
  /\ stack \in Seq(LiveCalls)
  /\ Idle => stack = << >>
  /\ phase \in {"map", "kernel", "pml4"} => next = 0
  /\ phase = "map" => recovered = << >>

(* The parts of TypeOK that only depend on the kernel's own variables.     *)
LEMMA KernelTypes ==
  ASSUME KernelInv
  PROVE  /\ TablesOK
         /\ AllocInv
         /\ memoryMap \in MemoryMaps
         /\ GetMemorySize(memoryMap) \in Nat
         /\ fbBase \in Nat /\ fbEnd \in Nat /\ fbBase <= fbEnd
         /\ Touched \subseteq Nat /\ ConfigPages \subseteq Nat
         /\ Tracked(corgiAlloc) \subseteq Nat
<1>1. TablesOK /\ AllocInv /\ memoryMap \in MemoryMaps
  BY DEF KernelInv, TypeOK, TablesOK, AllocInv, AllocTypeOK
<1>2. GetMemorySize(memoryMap) \in Nat
  BY <1>1, MemoryMapsAssumption
<1>3. Tracked(corgiAlloc) \subseteq Nat
  BY <1>1, TrackedFacts DEF AllocInv, AllocTypeOK, Allocator
<1>4. Virtual \subseteq Nat
  BY DEF Virtual
<1>5. Touched \subseteq Virtual /\ ConfigPages \subseteq Virtual
  BY KernelAssumption, Zenon
<1>6. fbBase \in Nat /\ fbEnd \in Virtual /\ fbBase <= fbEnd
  BY KernelAssumption, Zenon
<1> QED
  BY <1>1, <1>2, <1>3, <1>4, <1>5, <1>6

LEMMA InitKernelInv == Init => KernelInv
<1> SUFFICES ASSUME Init
             PROVE  KernelInv
  OBVIOUS
<1>1. AllocInv /\ AllocTypeOK
  BY InitAllocInv DEF Init, AllocInv
<1>2. DOMAIN << >> = {}
  OBVIOUS
<1>3. << >> \in Seq(Calls) /\ << >> \in Seq(LiveCalls)
  BY EmptySeq
<1>4. /\ phase = "map" /\ next = 0 /\ PML4 = 0 /\ tables = << >>
      /\ stack = << >> /\ idt = 0 /\ enumerated = {} /\ recovered = << >> /\ spoiled = FALSE
  BY DEF Init, NoPage
<1>5. /\ tables \in [DOMAIN tables -> [Indices -> Entries]]
      /\ recovered \in [DOMAIN recovered -> Tracked(corgiAlloc)]
      /\ DOMAIN tables = {} /\ DOMAIN recovered = {}
  BY <1>2, <1>4
<1>6. TypeOK
  BY <1>1, <1>3, <1>4, <1>5 DEF TypeOK
<1> QED
  BY <1>1, <1>3, <1>4, <1>6 DEF KernelInv, Idle

(* A step that keeps the phase, the bitmap's range and the memory map only *)
(* has to keep the stack, the loop variable, the tables and the history.   *)
LEMMA KeepInv ==
  ASSUME KernelInv, AllocInv',
         phase' = phase,
         Tracked(corgiAlloc)' = Tracked(corgiAlloc),
         memoryMap' = memoryMap,
         stack' \in Seq(LiveCalls),
         phase \in {"identity", "framebuffer", "pci", "running"},
         next' \in Nat,
         phase \in {"identity", "framebuffer"} => next' <= LoopEnd,
         TablesOK',
         idt' = idt,
         enumerated' \subseteq ConfigPages,
         DOMAIN recovered' \subseteq Nat,
         recovered' \in [DOMAIN recovered' -> Tracked(corgiAlloc)],
         spoiled' \in BOOLEAN
  PROVE  KernelInv'
<1>1. LiveCalls' = LiveCalls
  BY DEF LiveCalls
<1>2. LiveCalls \subseteq Calls
  BY DEF LiveCalls
<1>3. stack' \in Seq(Calls)
  <2>1. Seq(LiveCalls) \subseteq Seq(Calls)
    BY <1>2
  <2> QED
    BY <2>1
<1>4. LoopEnd' = LoopEnd
  BY DEF LoopEnd
<1>5. AllocTypeOK'
  BY DEF AllocInv
<1>6. TypeOK'
  BY <1>3, <1>4, <1>5 DEF KernelInv, TypeOK, TablesOK
<1> QED
  BY <1>1, <1>6 DEF KernelInv, Idle

(* PrepareMemory and PrepareInterrupts.                                    *)
LEMMA PrepareInv ==
  ASSUME KernelInv, Prepare
  PROVE  KernelInv'
<1>1. /\ TablesOK
      /\ memoryMap \in MemoryMaps
      /\ GetMemorySize(memoryMap) \in Nat
      /\ fbBase \in Nat /\ fbEnd \in Nat /\ fbBase <= fbEnd
      /\ Tracked(corgiAlloc) \subseteq Nat
      /\ AllocInv
  BY KernelTypes
<1>2. AllocStep
  BY KernelStep DEF Next
<1>3. AllocInv' /\ AllocTypeOK'
  BY <1>1, <1>2, AllocStepInv DEF AllocInv
<1>4. << >> \in Seq(Calls') /\ << >> \in Seq(LiveCalls')
  BY EmptySeq
<1>5. TypeOK
  BY DEF KernelInv
<1>6. CASE ReadMap
  <2>1. stack = << >> /\ recovered = << >> /\ next = 0
    BY <1>6 DEF ReadMap, KernelInv, Idle
  <2>2. recovered \in [DOMAIN recovered -> Tracked(corgiAlloc)'] /\ DOMAIN recovered = {}
    BY <2>1
  <2>3. TypeOK'
    BY <1>3, <1>5, <1>6, <2>2 DEF ReadMap, TypeOK
  <2> QED
    BY <1>3, <1>4, <1>6, <2>1, <2>3 DEF ReadMap, KernelInv, Idle
<1>7. CASE StealKernel
  <2>1. stack = << >> /\ next = 0
    BY <1>7 DEF StealKernel, KernelInv, Idle
  <2>2. Tracked(corgiAlloc)' = Tracked(corgiAlloc) /\ memoryMap' = memoryMap
    <3>1. /\ corgiAlloc' = LockPages(corgiAlloc, KernelImage)
          /\ memoryMap' = memoryMap
      BY <1>7 DEF StealKernel, Steal
    <3>2. Sound(corgiAlloc)
      BY <1>1 DEF AllocInv, AllocTypeOK, Sound
    <3> QED
      BY <3>1, <3>2, LockPagesFacts DEF Tracked
  <2>3. TypeOK'
    BY <1>3, <1>5, <1>7, <2>2 DEF StealKernel, TypeOK
  <2> QED
    BY <1>3, <1>4, <1>7, <2>1, <2>3 DEF StealKernel, KernelInv, Idle
<1>8. CASE BorrowPML4
  <2>1. stack = << >> /\ next = 0
    BY <1>8 DEF BorrowPML4, KernelInv, Idle
  <2>2. /\ memoryMap' = memoryMap
        /\ Tracked(corgiAlloc)' = Tracked(corgiAlloc)
        /\ returned' \in Nat
    BY <1>1, <1>8, BorrowStep DEF BorrowPML4
  <2>3. TablesOK'
    <3>1. ZeroTable \in [Indices -> Entries]
      BY DEF ZeroTable, Entries
    <3>2. PML4' \in Nat /\ tables' = [t \in {PML4'} |-> ZeroTable]
      BY <1>8, <2>2 DEF BorrowPML4
    <3> QED
      BY <3>1, <3>2 DEF TablesOK
  <2>4. LoopEnd' = GetMemorySize(memoryMap)
    BY <1>8, <2>2 DEF BorrowPML4, LoopEnd
  <2>5. TypeOK'
    BY <1>1, <1>3, <1>5, <1>8, <2>1, <2>2, <2>3, <2>4
    DEF BorrowPML4, TypeOK, TablesOK
  <2> QED
    BY <1>3, <1>4, <1>8, <2>1, <2>5 DEF BorrowPML4, KernelInv, Idle
<1>9. CASE CallMapMemory
  <2>1. LoopEnd \in Nat /\ next \in Nat /\ next < LoopEnd
    BY <1>1, <1>5, <1>9 DEF LoopEnd, CallMapMemory, TypeOK
  <2>2. phase' = phase /\ memoryMap' = memoryMap
        /\ Tracked(corgiAlloc)' = Tracked(corgiAlloc)
        /\ next' = next + 1 /\ phase \in {"identity", "framebuffer"}
    BY <1>9 DEF CallMapMemory, allocVars, Tracked
  <2>3. stack' \in Seq(LiveCalls)
    <3>1. Call(next, next, 1) \in LiveCalls
      BY <1>1, <2>1, <2>2 DEF Call, Calls, LiveCalls, TablesOK
    <3>2. stack' = <<Call(next, next, 1)>>
      BY <1>9 DEF CallMapMemory
    <3> QED
      BY <3>1, <3>2
  <2>4. TablesOK'
    BY <1>1, <1>9 DEF CallMapMemory, TablesOK
  <2> QED
    BY <1>3, <1>5, <1>9, <2>1, <2>2, <2>3, <2>4, KeepInv
    DEF CallMapMemory, TypeOK
<1>10. CASE EndLoop
  <2>1. stack = << >> /\ stack' = << >> /\ memoryMap' = memoryMap
        /\ Tracked(corgiAlloc)' = Tracked(corgiAlloc)
    BY <1>10 DEF EndLoop, allocVars, Tracked
  <2>2. CASE phase = "identity"
    <3>1. phase' = "framebuffer" /\ next' = fbBase
      BY <1>10, <2>2 DEF EndLoop
    <3>2. next' \in Nat /\ next' <= LoopEnd'
      BY <1>1, <3>1 DEF LoopEnd
    <3>3. TypeOK'
      BY <1>3, <1>4, <1>5, <1>10, <2>1, <3>1, <3>2 DEF EndLoop, TypeOK
    <3> QED
      BY <1>3, <1>4, <2>1, <3>1, <3>3 DEF KernelInv, Idle
  <2>3. CASE phase # "identity"
    <3>1. phase' = "pci" /\ next' = next
      BY <1>10, <2>3 DEF EndLoop
    <3>2. TypeOK'
      BY <1>3, <1>4, <1>5, <1>10, <2>1, <3>1 DEF EndLoop, TypeOK
    <3> QED
      BY <1>3, <1>4, <2>1, <3>1, <3>2 DEF KernelInv, Idle
  <2> QED
    BY <2>2, <2>3
<1>11. CASE PrepareInterrupts
  <2>1. stack = << >> /\ stack' = << >>
    BY <1>11 DEF PrepareInterrupts, KernelInv, Idle
  <2>2. /\ memoryMap' = memoryMap
        /\ Tracked(corgiAlloc)' = Tracked(corgiAlloc)
        /\ returned' \in Nat
    BY <1>1, <1>11, BorrowStep DEF PrepareInterrupts
  <2>3. TypeOK'
    BY <1>3, <1>4, <1>5, <1>11, <2>1, <2>2 DEF PrepareInterrupts, TypeOK
  <2> QED
    BY <1>3, <1>4, <1>11, <2>1, <2>3 DEF PrepareInterrupts, KernelInv, Idle
<1>12. ASSUME NEW page \in ConfigPages, EnumerateFunction(page)
       PROVE  KernelInv'
  <2>1. /\ phase = "pci" /\ phase' = phase /\ memoryMap' = memoryMap
        /\ Tracked(corgiAlloc)' = Tracked(corgiAlloc)
        /\ next' = next /\ idt' = idt /\ enumerated' = enumerated
        /\ recovered' = recovered /\ spoiled' = spoiled /\ TablesOK'
        /\ stack' = <<Call(page, page, 1)>>
    BY <1>1, <1>12 DEF EnumerateFunction, allocVars, Tracked, TablesOK
  <2>2. page \in Nat
    BY <1>12, KernelTypes
  <2>3. Call(page, page, 1) \in LiveCalls
    BY <1>1, <1>12, <2>1, <2>2 DEF Call, Calls, LiveCalls, TablesOK
  <2>4. stack' \in Seq(LiveCalls)
    BY <2>1, <2>3
  <2> QED
    BY <1>3, <1>5, <2>1, <2>4, KeepInv DEF TypeOK
<1>13. CASE EndPCI
  <2>1. stack = << >> /\ stack' = << >> /\ memoryMap' = memoryMap
        /\ Tracked(corgiAlloc)' = Tracked(corgiAlloc) /\ phase' = "idt"
    BY <1>13 DEF EndPCI, allocVars, Tracked
  <2>2. TypeOK'
    BY <1>3, <1>4, <1>5, <1>13, <2>1 DEF EndPCI, TypeOK
  <2> QED
    BY <1>3, <1>4, <2>1, <2>2 DEF KernelInv, Idle
<1> QED
  BY <1>6, <1>7, <1>8, <1>9, <1>10, <1>11, <1>12, <1>13 DEF Prepare

(* A call is in progress only while the loops or the handler run.          *)
LEMMA CallFacts ==
  ASSUME KernelInv, stack # << >>
  PROVE  /\ phase \in {"identity", "framebuffer", "pci", "running"}
         /\ Top \in LiveCalls
         /\ Top.virtual \in Nat
         /\ Top.physical \in Nat
         /\ Top.level \in 0 .. 4
         /\ Top.table \in Nat
         /\ Top.fresh \in {Nothing} \cup Tracked(corgiAlloc)
         /\ Top.fresh # Nothing => Top.level \in 1 .. 3
         /\ phase = "running" /\ Top.level > 0
              => Top.physical \in Tracked(corgiAlloc)
         /\ phase = "pci" => Top.virtual \in ConfigPages
         /\ Top.zeroed \in BOOLEAN
         /\ Below \in Seq(LiveCalls)
         /\ \A c \in LiveCalls : ReplaceTop(c) \in Seq(LiveCalls)
         /\ next \in Nat
         /\ phase \in {"identity", "framebuffer"} => next <= LoopEnd
         /\ enumerated \subseteq ConfigPages
         /\ DOMAIN recovered \subseteq Nat
         /\ recovered \in [DOMAIN recovered -> Tracked(corgiAlloc)]
         /\ spoiled \in BOOLEAN
<1>1. phase \in {"identity", "framebuffer", "pci", "running"}
  BY DEF KernelInv, Idle, TypeOK
<1>2. /\ Top \in LiveCalls
      /\ Below \in Seq(LiveCalls)
      /\ \A c \in LiveCalls : ReplaceTop(c) \in Seq(LiveCalls)
  BY StackFacts DEF KernelInv
<1>3. /\ Top.virtual \in Nat
      /\ Top.physical \in Nat
      /\ Top.level \in 0 .. 4
      /\ Top.table \in Nat
      /\ Top.fresh \in {Nothing} \cup Tracked(corgiAlloc)
      /\ Top.fresh # Nothing => Top.level \in 1 .. 3
      /\ phase = "running" /\ Top.level > 0
           => Top.physical \in Tracked(corgiAlloc)
      /\ phase = "pci" => Top.virtual \in ConfigPages
      /\ Top.zeroed \in BOOLEAN
  <2> DEFINE top == Top
  <2>1. top \in LiveCalls
    BY <1>2
  <2> HIDE DEF top
  <2>2. /\ top.virtual \in Nat
        /\ top.physical \in Nat
        /\ top.level \in 0 .. 4
        /\ top.table \in Nat
        /\ top.fresh \in {Nothing} \cup Tracked(corgiAlloc)
        /\ top.fresh # Nothing => top.level \in 1 .. 3
        /\ phase = "running" /\ top.level > 0
             => top.physical \in Tracked(corgiAlloc)
        /\ phase = "pci" => top.virtual \in ConfigPages
        /\ top.zeroed \in BOOLEAN
    BY <2>1 DEF LiveCalls, Calls
  <2> QED
    BY <2>2 DEF top
<1> QED
  BY <1>1, <1>2, <1>3 DEF KernelInv, TypeOK

(* A call with fields in range is live, and one that moves to another      *)
(* table and level keeps its address and page.                             *)
LEMMA LiveCall ==
  ASSUME NEW virtual \in Nat, NEW physical \in Nat, NEW level \in 0 .. 4,
         NEW table \in Nat, NEW fresh \in {Nothing} \cup Tracked(corgiAlloc),
         NEW zeroed \in BOOLEAN,
         Tracked(corgiAlloc) \subseteq Nat,
         fresh # Nothing => level \in 1 .. 3,
         phase = "running" /\ level > 0 => physical \in Tracked(corgiAlloc),
         phase = "pci" => virtual \in ConfigPages
  PROVE  [virtual |-> virtual, physical |-> physical, level |-> level,
          table |-> table, fresh |-> fresh, zeroed |-> zeroed] \in LiveCalls
<1> DEFINE c == [virtual |-> virtual, physical |-> physical, level |-> level,
                 table |-> table, fresh |-> fresh, zeroed |-> zeroed]
<1>1. /\ c.virtual = virtual /\ c.physical = physical /\ c.level = level
      /\ c.table = table /\ c.fresh = fresh
  OBVIOUS
<1>2. fresh \in Nat \cup {Nothing}
  OBVIOUS
<1>3. c \in Calls
  BY <1>2 DEF Calls
<1> HIDE DEF c
<1>4. c \in LiveCalls
  BY <1>1, <1>3 DEF LiveCalls
<1> QED
  BY <1>4 DEF c

LEMMA AdvanceCall ==
  ASSUME KernelInv, stack # << >>, Top.level \in 1 .. 4,
         NEW level \in 1 .. 4, NEW table \in Nat,
         NEW fresh \in {Nothing} \cup Tracked(corgiAlloc),
         NEW zeroed \in BOOLEAN,
         fresh # Nothing => level \in 1 .. 3
  PROVE  ReplaceTop([Top EXCEPT !.table = table, !.level = level,
                                !.fresh = fresh, !.zeroed = zeroed])
            \in Seq(LiveCalls)
<1>1. /\ Top \in LiveCalls
      /\ Top.virtual \in Nat
      /\ Top.physical \in Nat
      /\ phase = "running" /\ Top.level > 0
           => Top.physical \in Tracked(corgiAlloc)
      /\ phase = "pci" => Top.virtual \in ConfigPages
      /\ \A c \in LiveCalls : ReplaceTop(c) \in Seq(LiveCalls)
  BY CallFacts
<1>2. Tracked(corgiAlloc) \subseteq Nat
  BY KernelTypes
<1>3. level \in 0 .. 4 /\ Top.level > 0
  OBVIOUS
<1>4. Top \in Calls /\ fresh \in Nat \cup {Nothing}
  BY <1>1, <1>2 DEF LiveCalls
<1> DEFINE top == Top
           d == [top EXCEPT !.table = table, !.level = level, !.fresh = fresh,
                            !.zeroed = zeroed]
<1>5. /\ top \in Calls
      /\ phase = "running" => top.physical \in Tracked(corgiAlloc)
      /\ phase = "pci" => top.virtual \in ConfigPages
  BY <1>1, <1>3, <1>4
<1> HIDE DEF top
<1>6. /\ d \in Calls
      /\ d.virtual = top.virtual /\ d.physical = top.physical
      /\ d.level = level /\ d.fresh = fresh
  BY <1>3, <1>4, <1>5 DEF Calls
<1> HIDE DEF d
<1>7. d \in LiveCalls
  BY <1>5, <1>6 DEF LiveCalls
<1>8. ReplaceTop(d) \in Seq(LiveCalls)
  BY <1>1, <1>7
<1> QED
  BY <1>8 DEF d, top

(* A step that drops every call and stops the machine.                     *)
LEMMA StopInv ==
  ASSUME KernelInv, AllocInv',
         stack' = << >>,
         phase' \in {"panic", "reset", "runaway"},
         Tracked(corgiAlloc)' = Tracked(corgiAlloc),
         UNCHANGED <<next, PML4, tables, idt, enumerated, recovered, spoiled>>
  PROVE  KernelInv'
<1>1. << >> \in Seq(Calls) /\ << >> \in Seq(LiveCalls')
  BY EmptySeq
<1>2. AllocTypeOK'
  BY DEF AllocInv
<1>3. TypeOK'
  BY <1>1, <1>2 DEF KernelInv, TypeOK
<1> QED
  BY <1>1, <1>3 DEF KernelInv, Idle

(* The steps of PageTableManager::MapMemory.                               *)
LEMMA DescendInv ==
  ASSUME KernelInv, Descend
  PROVE  KernelInv'
<1>1. TablesOK /\ AllocInv /\ stack # << >>
  BY KernelTypes DEF Descend
<1>2. AllocInv'
  BY <1>1, KernelStep, AllocStepInv DEF Next, MapMemory
<1> DEFINE level == Top.level + 1
<1>3. TopEntry >= 0 /\ Top.level \in 1 .. 3 /\ Top.fresh = Nothing
  BY DEF Descend
<1>4. TopEntry \in Nat
  <2>1. Top.virtual \in Nat /\ Top.level \in 1 .. 4
    BY <1>1, <1>3, CallFacts
  <2>2. Index(Top.virtual, Top.level) \in Indices
    BY <2>1, IndexType
  <2>3. TopEntry \in Values
    BY <1>1, <2>2, EntryType DEF TopEntry
  <2> QED
    BY <1>3, <2>3 DEF Values, Absent, Garbage
<1>5. level \in 1 .. 4
  BY <1>3
<1>6. stack' \in Seq(LiveCalls)
  <2> DEFINE top == Top
             entry == TopEntry
  <2>1. stack' = ReplaceTop([top EXCEPT !.table = entry, !.level = @ + 1])
    BY DEF Descend
  <2>2. /\ top \in Calls /\ top.zeroed \in BOOLEAN
        /\ Nothing \in {Nothing} \cup Tracked(corgiAlloc)
        /\ top.level \in 1 .. 4 /\ top.fresh = Nothing
    BY <1>1, <1>3, CallFacts DEF LiveCalls
  <2>3. ReplaceTop([top EXCEPT !.table = entry, !.level = level,
                               !.fresh = Nothing, !.zeroed = top.zeroed])
          \in Seq(LiveCalls)
    <3> HIDE DEF level, entry
    <3> QED
      BY <1>1, <1>4, <1>5, <2>2, AdvanceCall DEF entry
  <2>4. [top EXCEPT !.table = entry, !.level = @ + 1]
          = [top EXCEPT !.table = entry, !.level = top.level + 1,
                        !.fresh = Nothing, !.zeroed = top.zeroed]
    <3> HIDE DEF top, entry
    <3> QED
      BY <2>2 DEF Calls
  <2> QED
    BY <2>1, <2>3, <2>4
<1>7. /\ phase' = phase /\ memoryMap' = memoryMap /\ next' = next
      /\ Tracked(corgiAlloc)' = Tracked(corgiAlloc)
      /\ idt' = idt /\ enumerated' = enumerated
      /\ recovered' = recovered /\ spoiled' = spoiled
      /\ TablesOK'
  BY <1>1 DEF Descend, allocVars, Tracked, TablesOK
<1> HIDE DEF level
<1> QED
  BY <1>1, <1>2, <1>6, <1>7, CallFacts, KeepInv

LEMMA BorrowTableInv ==
  ASSUME KernelInv, BorrowTable
  PROVE  KernelInv'
<1>1. TablesOK /\ AllocInv /\ stack # << >> /\ Tracked(corgiAlloc) \subseteq Nat
  BY KernelTypes DEF BorrowTable
<1>2. AllocInv'
  BY <1>1, KernelStep, AllocStepInv DEF Next, MapMemory
<1>3. /\ memoryMap' = memoryMap
      /\ Tracked(corgiAlloc)' = Tracked(corgiAlloc)
      /\ returned' \in Tracked(corgiAlloc)
  BY <1>1, BorrowStep DEF BorrowTable
<1>4. /\ phase' = phase /\ next' = next /\ idt' = idt
      /\ enumerated' = enumerated /\ recovered' = recovered /\ TablesOK'
      /\ stack' = ReplaceTop([Top EXCEPT !.fresh = returned'])
      /\ Top.level \in 1 .. 3
  BY <1>1 DEF BorrowTable, TablesOK
<1>5. spoiled' \in BOOLEAN
  BY <1>1, CallFacts DEF BorrowTable
<1>6. stack' \in Seq(LiveCalls)
  <2> DEFINE top == Top
             page == returned'
  <2>1. top \in Calls /\ page \in Tracked(corgiAlloc)
    BY <1>1, <1>3, CallFacts DEF LiveCalls
  <2>2. top.level \in 1 .. 4 /\ top.table \in Nat /\ top.zeroed \in BOOLEAN
    BY <1>1, <1>4, CallFacts
  <2>3. stack' = ReplaceTop([top EXCEPT !.fresh = page])
    BY <1>4
  <2>4. ReplaceTop([top EXCEPT !.table = top.table, !.level = top.level,
                               !.fresh = page, !.zeroed = top.zeroed])
          \in Seq(LiveCalls)
    BY <1>1, <1>4, <2>1, <2>2, AdvanceCall
  <2> HIDE DEF top, page
  <2>5. [top EXCEPT !.table = top.table, !.level = top.level, !.fresh = page,
                    !.zeroed = top.zeroed]
          = [top EXCEPT !.fresh = page]
    BY <2>1 DEF Calls
  <2> QED
    BY <2>3, <2>4, <2>5
<1> QED
  BY <1>1, <1>2, <1>3, <1>4, <1>5, <1>6, CallFacts, KeepInv

LEMMA ClearTableInv ==
  ASSUME KernelInv, ClearTable
  PROVE  KernelInv'
<1>1. TablesOK /\ AllocInv /\ stack # << >> /\ Tracked(corgiAlloc) \subseteq Nat
  BY KernelTypes DEF ClearTable
<1>2. AllocInv'
  BY <1>1, KernelStep, AllocStepInv DEF Next, MapMemory
<1> DEFINE page == Physical(Top.fresh)
<1>3. /\ phase' = phase /\ memoryMap' = memoryMap /\ next' = next
      /\ Tracked(corgiAlloc)' = Tracked(corgiAlloc)
      /\ idt' = idt /\ enumerated' = enumerated
      /\ recovered' = recovered /\ spoiled' = spoiled
      /\ PML4' = PML4
      /\ Top.fresh # Nothing /\ page >= 0
      /\ tables' = Put(tables, page, ZeroTable)
      /\ stack' = ReplaceTop([Top EXCEPT !.zeroed = TRUE])
  BY DEF ClearTable, allocVars, Tracked
<1>4. /\ Top.level \in 1 .. 3
      /\ Top.fresh \in Nat
      /\ Top.fresh \in {Nothing} \cup Tracked(corgiAlloc)
      /\ Top.table \in Nat
      /\ Top \in Calls
  BY <1>1, <1>3, CallFacts DEF LiveCalls
<1>5. stack' \in Seq(LiveCalls)
  <2> DEFINE top == Top
  <2>1. stack' = ReplaceTop([top EXCEPT !.zeroed = TRUE]) /\ top \in Calls
    BY <1>3, <1>4
  <2>2. ReplaceTop([top EXCEPT !.table = top.table, !.level = top.level,
                               !.fresh = top.fresh, !.zeroed = TRUE])
          \in Seq(LiveCalls)
    <3>1. Top.level \in 1 .. 4 /\ TRUE \in BOOLEAN
      BY <1>4
    <3> DEFINE level == Top.level
               table == Top.table
               fresh == Top.fresh
    <3>2. /\ level \in 1 .. 4 /\ table \in Nat
          /\ fresh \in {Nothing} \cup Tracked(corgiAlloc)
          /\ fresh # Nothing => level \in 1 .. 3
      BY <1>4
    <3> HIDE DEF level, table, fresh
    <3>3. ReplaceTop([Top EXCEPT !.table = table, !.level = level,
                                 !.fresh = fresh, !.zeroed = TRUE])
            \in Seq(LiveCalls)
      BY <1>1, <3>1, <3>2, AdvanceCall
    <3> QED
      BY <3>3 DEF level, table, fresh
  <2> HIDE DEF top
  <2>3. [top EXCEPT !.table = top.table, !.level = top.level,
                    !.fresh = top.fresh, !.zeroed = TRUE]
          = [top EXCEPT !.zeroed = TRUE]
    BY <2>1 DEF Calls
  <2> QED
    BY <2>1, <2>2, <2>3
<1>6. TablesOK'
  <2>1. page \in Nat
    <3>1. page \in Values
      BY <1>1, <1>4, WalkType
    <3> HIDE DEF page
    <3> QED
      BY <1>3, <3>1 DEF Values, Absent, Garbage
  <2>2. ZeroTable \in [Indices -> Entries]
    BY DEF ZeroTable, Entries
  <2> DEFINE g == Put(tables, page, ZeroTable)
  <2> HIDE DEF page
  <2>3. DOMAIN g \subseteq Nat /\ g \in [DOMAIN g -> [Indices -> Entries]]
    BY <1>1, <2>1, <2>2, PutType DEF TablesOK
  <2>4. tables' = g
    BY <1>3 DEF page
  <2> HIDE DEF g
  <2> QED
    BY <1>1, <1>3, <2>3, <2>4 DEF TablesOK
<1> HIDE DEF page
<1> QED
  BY <1>1, <1>2, <1>3, <1>5, <1>6, CallFacts, KeepInv

LEMMA LinkTableInv ==
  ASSUME KernelInv, LinkTable
  PROVE  KernelInv'
<1>1. TablesOK /\ AllocInv /\ stack # << >> /\ Tracked(corgiAlloc) \subseteq Nat
  BY KernelTypes DEF LinkTable
<1>2. AllocInv'
  BY <1>1, KernelStep, AllocStepInv DEF Next, MapMemory
<1> DEFINE t == Physical(Top.table)
           i == Index(Top.virtual, Top.level)
           fresh == Top.fresh
           level == Top.level + 1
<1>3. /\ phase' = phase /\ memoryMap' = memoryMap /\ next' = next
      /\ Tracked(corgiAlloc)' = Tracked(corgiAlloc)
      /\ idt' = idt /\ enumerated' = enumerated
      /\ recovered' = recovered /\ spoiled' = spoiled
      /\ PML4' = PML4
      /\ fresh # Nothing
      /\ tables' = Write(t, i, fresh)
      /\ stack' = ReplaceTop([Top EXCEPT !.table = fresh, !.level = @ + 1,
                                         !.fresh = Nothing, !.zeroed = FALSE])
  BY DEF LinkTable, allocVars, Tracked
<1>4. /\ Top.level \in 1 .. 3
      /\ fresh \in Nat
      /\ Top.virtual \in Nat
      /\ Top \in Calls
  BY <1>1, <1>3, CallFacts DEF LiveCalls
<1>5. stack' \in Seq(LiveCalls)
  <2> DEFINE top == Top
  <2>1. stack' = ReplaceTop([top EXCEPT !.table = fresh, !.level = top.level + 1,
                                        !.fresh = Nothing, !.zeroed = FALSE])
    BY <1>3
  <2>2. level \in 1 .. 4 /\ top.level \in 1 .. 4 /\ fresh \in Nat
        /\ FALSE \in BOOLEAN
    BY <1>4
  <2>3. ReplaceTop([top EXCEPT !.table = fresh, !.level = level,
                               !.fresh = Nothing, !.zeroed = FALSE])
          \in Seq(LiveCalls)
    <3> HIDE DEF level, fresh
    <3> QED
      BY <1>1, <2>2, AdvanceCall
  <2> QED
    BY <2>1, <2>3
<1>6. TablesOK'
  <2>1. i \in Indices
    BY <1>4, IndexType
  <2> HIDE DEF t, i, fresh
  <2>2. /\ DOMAIN Write(t, i, fresh) \subseteq Nat
        /\ Write(t, i, fresh)
             \in [DOMAIN Write(t, i, fresh) -> [Indices -> Entries]]
    BY <1>1, <1>4, <2>1, WriteType
  <2> QED
    BY <1>1, <1>3, <2>2 DEF TablesOK
<1> HIDE DEF t, i, fresh, level
<1> QED
  BY <1>1, <1>2, <1>3, <1>5, <1>6, CallFacts, KeepInv

LEMMA TableFaultInv ==
  ASSUME KernelInv, TableFault
  PROVE  KernelInv'
<1>1. TablesOK /\ AllocInv /\ stack # << >> /\ Tracked(corgiAlloc) \subseteq Nat
  BY KernelTypes DEF TableFault
<1>2. AllocInv'
  BY <1>1, KernelStep, AllocStepInv DEF Next, MapMemory
<1>3. /\ phase = "running"
      /\ phase' = phase /\ memoryMap' = memoryMap /\ next' = next
      /\ Tracked(corgiAlloc)' = Tracked(corgiAlloc)
      /\ idt' = idt /\ enumerated' = enumerated
      /\ recovered' = recovered /\ spoiled' = spoiled
      /\ stack' = Append(stack, Call(Accessed, NoPage, 0))
      /\ TablesOK'
  BY <1>1 DEF TableFault, allocVars, Tracked, TablesOK
<1>4. Accessed \in Nat
  <2>1. Top.table \in Nat /\ (Top.fresh # Nothing => Top.fresh \in Nat)
    BY <1>1, CallFacts
  <2> QED
    BY <2>1 DEF Accessed
<1>5. Call(Accessed, NoPage, 0) \in LiveCalls
  <2>1. /\ PML4 \in Nat /\ NoPage \in Nat /\ 0 \in 0 .. 4 /\ ~(0 > 0)
        /\ Nothing \in {Nothing} \cup Tracked(corgiAlloc)
        /\ FALSE \in BOOLEAN /\ phase # "pci"
    BY <1>1, <1>3 DEF TablesOK, NoPage
  <2> QED
    BY <1>1, <1>4, <2>1, LiveCall DEF Call
<1>6. stack' \in Seq(LiveCalls)
  BY <1>3, <1>5, AppendProperties DEF KernelInv
<1> QED
  BY <1>1, <1>2, <1>3, <1>6, CallFacts, KeepInv

LEMMA UnhandledFaultInv ==
  ASSUME KernelInv, UnhandledFault \/ Runaway
  PROVE  KernelInv'
<1>1. AllocInv'
  BY KernelTypes, KernelStep, AllocStepInv DEF Next, MapMemory
<1>2. /\ stack' = << >> /\ phase' \in {"panic", "reset", "runaway"}
      /\ Tracked(corgiAlloc)' = Tracked(corgiAlloc)
      /\ UNCHANGED <<next, PML4, tables, idt, enumerated, recovered, spoiled>>
  BY DEF UnhandledFault, Runaway, allocVars, Tracked
<1> QED
  BY <1>1, <1>2, StopInv

LEMMA MapPageInv ==
  ASSUME KernelInv, MapPage
  PROVE  KernelInv'
<1>1. TablesOK /\ AllocInv /\ stack # << >> /\ Tracked(corgiAlloc) \subseteq Nat
  BY KernelTypes DEF MapPage
<1>2. AllocInv'
  BY <1>1, KernelStep, AllocStepInv DEF Next, MapMemory
<1> DEFINE t == Physical(Top.table)
           i == Index(Top.virtual, 4)
           virtual == Top.virtual
           page == Top.physical
<1>3. /\ phase' = phase /\ memoryMap' = memoryMap /\ next' = next
      /\ Tracked(corgiAlloc)' = Tracked(corgiAlloc)
      /\ idt' = idt /\ spoiled' = spoiled /\ PML4' = PML4
      /\ Top.level = 4
      /\ tables' = Write(t, i, page)
      /\ stack' = Below
      /\ enumerated' = IF phase = "pci" THEN enumerated \cup {virtual}
                       ELSE enumerated
      /\ recovered' = IF phase = "running"
                      THEN Put(recovered, virtual, page)
                      ELSE recovered
  BY DEF MapPage, allocVars, Tracked
<1>4. /\ virtual \in Nat /\ page \in Nat
      /\ phase = "running" => page \in Tracked(corgiAlloc)
      /\ phase = "pci" => virtual \in ConfigPages
      /\ enumerated \subseteq ConfigPages
      /\ DOMAIN recovered \subseteq Nat
      /\ recovered \in [DOMAIN recovered -> Tracked(corgiAlloc)]
  BY <1>1, <1>3, CallFacts
<1>5. i \in Indices
  BY <1>4, IndexType
<1> HIDE DEF t, i, virtual, page
<1>6. TablesOK'
  <2>1. /\ DOMAIN Write(t, i, page) \subseteq Nat
        /\ Write(t, i, page)
             \in [DOMAIN Write(t, i, page) -> [Indices -> Entries]]
    BY <1>1, <1>4, <1>5, WriteType
  <2> QED
    BY <1>1, <1>3, <2>1 DEF TablesOK
<1>7. /\ DOMAIN recovered' \subseteq Nat
      /\ recovered' \in [DOMAIN recovered' -> Tracked(corgiAlloc)]
  <2>1. CASE phase = "running"
    <3> DEFINE r == Put(recovered, virtual, page)
    <3>1. /\ DOMAIN r = DOMAIN recovered \cup {virtual}
          /\ r \in [DOMAIN r -> Tracked(corgiAlloc)]
      <4>1. page \in Tracked(corgiAlloc)
        BY <1>4, <2>1
      <4> DEFINE T == Tracked(corgiAlloc)
      <4>2. page \in T /\ recovered \in [DOMAIN recovered -> T]
        BY <1>4, <4>1
      <4> HIDE DEF T
      <4>3. /\ DOMAIN r = DOMAIN recovered \cup {virtual}
            /\ r \in [DOMAIN r -> T]
        BY <1>4, <4>2, PutType
      <4> QED
        BY <4>3 DEF T
    <3>2. recovered' = r
      BY <1>3, <2>1
    <3> HIDE DEF r
    <3> QED
      BY <1>4, <2>1, <3>1, <3>2
  <2>2. CASE phase # "running"
    BY <1>3, <1>4, <2>2
  <2> QED
    BY <2>1, <2>2
<1>8. enumerated' \subseteq ConfigPages
  BY <1>3, <1>4
<1>9. stack' \in Seq(LiveCalls)
  BY <1>1, <1>3, CallFacts
<1> QED
  BY <1>1, <1>2, <1>3, <1>6, <1>7, <1>8, <1>9, CallFacts, KeepInv

(* PageFault_handler: a fault pushes the handler's call, and the handler   *)
(* either maps the page it borrowed or panics.                             *)
LEMMA PageFaultInv ==
  ASSUME KernelInv, NEW virtual \in Touched, PageFault(virtual)
  PROVE  KernelInv'
<1>1. TablesOK /\ AllocInv /\ Tracked(corgiAlloc) \subseteq Nat /\ virtual \in Nat
  BY KernelTypes
<1>2. AllocInv'
  BY <1>1, KernelStep, AllocStepInv DEF Next
<1>3. /\ phase = "running"
      /\ phase' = phase /\ memoryMap' = memoryMap /\ next' = next
      /\ Tracked(corgiAlloc)' = Tracked(corgiAlloc)
      /\ idt' = idt /\ enumerated' = enumerated
      /\ recovered' = recovered /\ spoiled' = spoiled
      /\ stack' = <<Call(virtual, NoPage, 0)>>
      /\ TablesOK'
  BY <1>1 DEF PageFault, allocVars, Tracked, TablesOK
<1>4. Call(virtual, NoPage, 0) \in LiveCalls
  <2>1. /\ PML4 \in Nat /\ NoPage \in Nat /\ 0 \in 0 .. 4 /\ ~(0 > 0)
        /\ Nothing \in {Nothing} \cup Tracked(corgiAlloc)
        /\ FALSE \in BOOLEAN /\ phase # "pci"
    BY <1>1, <1>3 DEF TablesOK, NoPage
  <2> QED
    BY <1>1, <2>1, LiveCall DEF Call
<1>5. stack' \in Seq(LiveCalls)
  BY <1>3, <1>4
<1>6. /\ next \in Nat
      /\ enumerated \subseteq ConfigPages
      /\ DOMAIN recovered \subseteq Nat
      /\ recovered \in [DOMAIN recovered -> Tracked(corgiAlloc)]
      /\ spoiled \in BOOLEAN
  BY DEF KernelInv, TypeOK
<1> QED
  BY <1>2, <1>3, <1>5, <1>6, KeepInv

LEMMA BorrowNewPageInv ==
  ASSUME KernelInv, BorrowNewPage
  PROVE  KernelInv'
<1>1. /\ TablesOK /\ AllocInv /\ stack # << >>
      /\ Tracked(corgiAlloc) \subseteq Nat
  BY KernelTypes DEF BorrowNewPage
<1>2. AllocInv' /\ AllocTypeOK'
  BY <1>1, KernelStep, AllocStepInv DEF Next, AllocInv
<1>3. /\ memoryMap' = memoryMap
      /\ Tracked(corgiAlloc)' = Tracked(corgiAlloc)
      /\ returned' \in Tracked(corgiAlloc)
      /\ returned' \in Nat
  BY <1>1, BorrowStep DEF BorrowNewPage
<1>4. /\ phase = "running" /\ next' = next /\ idt' = idt
      /\ enumerated' = enumerated
      /\ recovered' = recovered /\ spoiled' = spoiled /\ TablesOK'
  BY <1>1 DEF BorrowNewPage, TablesOK
<1>5. CASE returned' # NoPage
  <2>1. phase' = phase /\ stack' = ReplaceTop(Call(Top.virtual, returned', 1))
    BY <1>5 DEF BorrowNewPage
  <2>2. Call(Top.virtual, returned', 1) \in LiveCalls
    <3> DEFINE virtual == Top.virtual
               page == returned'
    <3>1. virtual \in Nat
      BY <1>1, <1>4, CallFacts
    <3>2. page \in Nat /\ page \in Tracked(corgiAlloc)
      BY <1>3
    <3>3. /\ PML4 \in Nat /\ 1 \in 0 .. 4
          /\ Nothing \in {Nothing} \cup Tracked(corgiAlloc)
          /\ FALSE \in BOOLEAN /\ phase # "pci"
      BY <1>1, <1>4 DEF TablesOK
    <3> HIDE DEF virtual, page
    <3>4. Call(virtual, page, 1) \in LiveCalls
      BY <1>1, <3>1, <3>2, <3>3, LiveCall DEF Call
    <3> QED
      BY <3>4 DEF virtual, page
  <2>3. stack' \in Seq(LiveCalls)
    BY <1>1, <2>1, <2>2, CallFacts
  <2> QED
    BY <1>1, <1>2, <1>3, <1>4, <2>1, <2>3, CallFacts, KeepInv
<1>6. CASE returned' = NoPage
  <2>1. phase' = "panic" /\ stack' = << >>
        /\ UNCHANGED <<next, PML4, tables, idt, enumerated, recovered, spoiled>>
    BY <1>6 DEF BorrowNewPage
  <2> QED
    BY <1>2, <1>3, <2>1, StopInv
<1> QED
  BY <1>5, <1>6

LEMMA NextKernelInv ==
  ASSUME KernelInv, [Next]_vars
  PROVE  KernelInv'
<1>1. CASE Prepare
  BY <1>1, PrepareInv
<1>2. CASE MapMemory
  BY <1>2, DescendInv, BorrowTableInv, ClearTableInv, LinkTableInv,
     TableFaultInv, UnhandledFaultInv, MapPageInv
  DEF MapMemory
<1>3. CASE BorrowNewPage
  BY <1>3, BorrowNewPageInv
<1>4. ASSUME NEW virtual \in Touched, PageFault(virtual)
      PROVE  KernelInv'
  BY <1>4, PageFaultInv
<1>5. CASE UNCHANGED vars
  <2>1. AllocInv'
    BY <1>5, AllocStepInv DEF KernelInv, AllocStep, vars
  <2>2. AllocTypeOK'
    BY <2>1 DEF AllocInv
  <2>3. TypeOK'
    BY <1>5, <2>2 DEF KernelInv, TypeOK, vars, kernelVars, allocVars, LoopEnd,
      Tracked
  <2>4. LiveCalls' = LiveCalls
    BY <1>5 DEF vars, kernelVars, allocVars, LiveCalls, Tracked
  <2> QED
    BY <1>5, <2>1, <2>3, <2>4 DEF KernelInv, Idle, vars, kernelVars
<1> QED
  BY <1>1, <1>2, <1>3, <1>4, <1>5 DEF Next

(* Type correctness of the kernel's memory, whatever the memory map and    *)
(* however faults nest: a walk never leaves the tables' indices, levels    *)
(* stay within the four of PageMapIndexer, and only pages of the bitmap    *)
(* are ever put behind a faulting address.                                 *)
THEOREM KernelTypeCorrect == Spec => []TypeOK
<1>1. KernelInv => TypeOK
  BY DEF KernelInv
<1> QED
  BY <1>1, InitKernelInv, NextKernelInv, PTL DEF Spec

-----------------------------------------------------------------------------
(* Addresses and paths *)

(* Quotient and remainder, and that they are determined by their product.  *)
LEMMA Division ==
  ASSUME NEW x \in Nat, NEW m \in Nat \ {0}
  PROVE  /\ x \div m \in Nat
         /\ x % m \in 0 .. m - 1
         /\ x = m * (x \div m) + (x % m)
  BY SMT

LEMMA QuotientUnique ==
  ASSUME NEW m \in Nat \ {0}, NEW q \in Int, NEW p \in Int,
         NEW r \in 0 .. m - 1, NEW s \in 0 .. m - 1, m * q + r = m * p + s
  PROVE  q = p
<1>1. r = s
  BY RemainderUnique
<1>2. m * (q - p) = 0
  BY <1>1, SMT
<1>3. CASE q - p > 0
  <2>1. m * (q - p) >= m
    BY <1>3, SMT
  <2> QED
    BY <2>1, <1>2, SMT
<1>4. CASE q - p < 0
  <2>1. m * (q - p) <= -m
    BY <1>4, SMT
  <2> QED
    BY <2>1, <1>2, SMT
<1> QED
  BY <1>3, <1>4

(* Dividing by a product is dividing twice.                                *)
LEMMA DivideTwice ==
  ASSUME NEW x \in Nat, NEW m \in Nat \ {0}, NEW n \in Nat \ {0}
  PROVE  x \div (m * n) = (x \div m) \div n
<1> DEFINE a == x \div m
           b == a \div n
           r == x % m
           s == a % n
<1>1. a \in Nat /\ r \in 0 .. m - 1 /\ x = m * a + r
  BY Division
<1> HIDE DEF a, r
<1>2. b \in Nat /\ s \in 0 .. n - 1 /\ a = n * b + s
  BY <1>1, Division
<1> HIDE DEF b, s
<1>3. m * n \in Nat \ {0}
  BY SMT
<1> DEFINE k == m * n
           t == m * s + r
<1>4. x = k * b + t
  <2>1. m * (n * b + s) = (m * n) * b + m * s
    BY <1>2, SMT
  <2> QED
    BY <1>1, <1>2, <2>1, SMT
<1>5. t \in 0 .. k - 1
  <2>1. m * s <= m * (n - 1)
    <3>1. 0 <= m * ((n - 1) - s)
      BY <1>2, SMT
    <3>2. m * ((n - 1) - s) = m * (n - 1) - m * s
      BY <1>2, SMT
    <3> QED
      BY <1>2, <3>1, <3>2, SMT
  <2>2. m * (n - 1) = m * n - m
    BY SMT
  <2>3. 0 <= m * s
    BY <1>2, SMT
  <2> QED
    BY <1>1, <1>2, <2>1, <2>2, <2>3, SMT
<1> DEFINE c == x \div k
           u == x % k
<1>6. c \in Nat /\ u \in 0 .. k - 1 /\ x = k * c + u
  <2> HIDE DEF k
  <2> QED
    BY <1>3, Division DEF k
<1> HIDE DEF k, t, c, u
<1>7. c = b
  <2>1. k \in Nat \ {0} /\ c \in Int /\ b \in Int /\ k * c + u = k * b + t
    BY <1>2, <1>3, <1>4, <1>6 DEF k
  <2> QED
    BY <2>1, <1>5, <1>6, QuotientUnique
<1> QED
  BY <1>3, <1>7 DEF c, b, a, k

(* A quotient is below the factor its dividend is below the multiple of.   *)
LEMMA QuotientBelow ==
  ASSUME NEW m \in Nat \ {0}, NEW f \in Nat \ {0}, NEW x \in Nat, x < f * m
  PROVE  x \div m < f
<1> DEFINE q == x \div m
           r == x % m
<1>1. q \in Nat /\ r \in 0 .. m - 1 /\ x = m * q + r
  BY Division
<1> HIDE DEF q, r
<1>2. CASE q >= f
  <2>1. m * (q - f) >= 0
    BY <1>1, <1>2, SMT
  <2>2. m * (q - f) = m * q - f * m
    BY <1>1, SMT
  <2> QED
    BY <1>1, <2>1, <2>2, SMT
<1> QED
  BY <1>1, <1>2 DEF q

(* The four indices of an address.                                         *)
Paths == [1 .. 4 -> Indices]
Path(virtual) == [l \in 1 .. 4 |-> Index(virtual, l)]

LEMMA PathType ==
  ASSUME NEW virtual \in Virtual
  PROVE  Path(virtual) \in Paths /\ virtual \in Nat
<1>1. virtual \in Nat
  BY DEF Virtual
<1> QED
  BY <1>1, IndexType DEF Path, Paths

(* An address is determined by its indices: no two of the addresses that   *)
(* PageMapIndexer tells apart share an entry of a page table.              *)
LEMMA PathInjective ==
  ASSUME NEW v \in Virtual, NEW w \in Virtual, Path(v) = Path(w)
  PROVE  v = w
<1> DEFINE f == Fan
           square == f * f
           cube == f * square
           First(x) == x \div f
           Second(x) == First(x) \div f
           Third(x) == Second(x) \div f
<1>1. f \in Nat \ {0} /\ square \in Nat \ {0} /\ cube \in Nat \ {0}
  <2>1. f \in Nat \ {0}
    BY KernelAssumption
  <2>2. square \in Nat \ {0}
    BY <2>1, SMT
  <2> HIDE DEF square
  <2>3. cube \in Nat \ {0}
    BY <2>1, <2>2, SMT
  <2> QED
    BY <2>1, <2>2, <2>3
<1>2. Stride = <<cube, square, f, 1>>
  BY DEF Stride
<1>3. Virtual = 0 .. f * cube - 1
  BY DEF Virtual
<1> HIDE DEF f
<1>4. \A x \in Nat : /\ x \div square = Second(x)
                     /\ x \div cube = Third(x)
  <2>1. /\ \A x \in Nat : x \div (f * f) = (x \div f) \div f
        /\ \A x \in Nat : x \div (f * square) = (x \div f) \div square
    <3> HIDE DEF square
    <3> QED
      BY <1>1, DivideTwice, Zenon
  <2>2. \A x \in Nat : x \div f \in Nat
    BY <1>1, Division
  <2> QED
    BY <2>1, <2>2, Zenon
<1>5. ASSUME NEW x \in Virtual
      PROVE  /\ x \in Nat /\ First(x) \in Nat /\ Second(x) \in Nat
             /\ Third(x) \in 0 .. f - 1
             /\ Path(x)[1] = Third(x)
             /\ Path(x)[2] = Second(x) % f
             /\ Path(x)[3] = First(x) % f
             /\ Path(x)[4] = x % f
  <2>1. x \in Nat /\ First(x) \in Nat /\ Second(x) \in Nat /\ Third(x) \in Nat
    <3>1. \A y \in Nat : y \div f \in Nat
      BY <1>1, Division
    <3>2. x \in Nat
      BY <1>3
    <3> QED
      BY <3>1, <3>2, Zenon
  <2>2. Second(x) = x \div square /\ Third(x) = x \div cube
    <3>1. x \in Nat
      BY <1>3
    <3> QED
      BY <3>1, <1>4, Zenon
  <2>3. Third(x) < f
    <3>1. x < f * cube
      <4> HIDE DEF cube
      <4> QED
        BY <1>1, <1>3, <2>1, SMT
    <3> HIDE DEF cube
    <3> QED
      BY <1>1, <2>1, <2>2, <3>1, QuotientBelow
  <2>4. Third(x) % f = Third(x)
    <3> HIDE DEF Third
    <3> QED
      BY <1>1, <2>1, <2>3, SMT
  <2>5. x \div 1 = x
    BY <2>1, SMT
  <2>6. /\ Path(x)[1] = (x \div cube) % f
        /\ Path(x)[2] = (x \div square) % f
        /\ Path(x)[3] = First(x) % f
        /\ Path(x)[4] = (x \div 1) % f
    <3> HIDE DEF cube, square
    <3>1. /\ Stride[1] = cube /\ Stride[2] = square /\ Stride[3] = f
          /\ Stride[4] = 1
      BY <1>2
    <3>2. \A l \in 1 .. 4 : Path(x)[l] = (x \div Stride[l]) % f
      BY Zenon DEF Path, Index, f
    <3>3. 1 \in 1 .. 4 /\ 2 \in 1 .. 4 /\ 3 \in 1 .. 4 /\ 4 \in 1 .. 4
      OBVIOUS
    <3> HIDE DEF First
    <3>4. First(x) = x \div f
      BY DEF First
    <3> QED
      BY <3>1, <3>2, <3>3, <3>4, Zenon
  <2> HIDE DEF First, Second, Third, square, cube
  <2> QED
    BY <1>1, <2>1, <2>2, <2>3, <2>4, <2>5, <2>6
<1>6. Third(v) = Third(w)
  BY <1>5
<1>7. ASSUME NEW x \in Nat, NEW y \in Nat, x \div f = y \div f, x % f = y % f
      PROVE  x = y
  BY <1>1, <1>7, Division
<1>8. Second(v) = Second(w)
  BY <1>5, <1>6, <1>7
<1>9. First(v) = First(w)
  BY <1>5, <1>7, <1>8
<1> QED
  BY <1>5, <1>7, <1>9

-----------------------------------------------------------------------------
(* The walk as a function of the tables *)

(* One step of the walk, and the page the walk along a path has come to    *)
(* after level - 1 steps: the table of that level, or the page at the end. *)
Follow(tabs, entry, i) ==
  IF entry < 0 THEN entry
  ELSE IF entry \in DOMAIN tabs THEN tabs[entry][i] ELSE Garbage

Reach(root, tabs, path, level) ==
  LET second == Follow(tabs, root, path[1])
      third == Follow(tabs, second, path[2])
      fourth == Follow(tabs, third, path[3])
      fifth == Follow(tabs, fourth, path[4])
  IN  IF level = 1 THEN root
      ELSE IF level = 2 THEN second
      ELSE IF level = 3 THEN third
      ELSE IF level = 4 THEN fourth
      ELSE fifth

LEMMA ReachStep ==
  ASSUME NEW root, NEW tabs, NEW path
  PROVE  /\ Reach(root, tabs, path, 1) = root
         /\ \A k \in 1 .. 4 :
              Reach(root, tabs, path, k + 1)
                = Follow(tabs, Reach(root, tabs, path, k), path[k])
<1> DEFINE second == Follow(tabs, root, path[1])
           third == Follow(tabs, second, path[2])
           fourth == Follow(tabs, third, path[3])
           fifth == Follow(tabs, fourth, path[4])
<1>1. \A k : Reach(root, tabs, path, k)
               = IF k = 1 THEN root
                 ELSE IF k = 2 THEN second
                 ELSE IF k = 3 THEN third
                 ELSE IF k = 4 THEN fourth
                 ELSE fifth
  BY Zenon DEF Reach
<1>2. /\ Reach(root, tabs, path, 1) = root
      /\ Reach(root, tabs, path, 2) = second
      /\ Reach(root, tabs, path, 3) = third
      /\ Reach(root, tabs, path, 4) = fourth
      /\ Reach(root, tabs, path, 5) = fifth
  <2> HIDE DEF second, third, fourth, fifth
  <2> QED
    BY <1>1
<1>3. /\ 1 + 1 = 2 /\ 2 + 1 = 3 /\ 3 + 1 = 4 /\ 4 + 1 = 5
      /\ \A k \in 1 .. 4 : k = 1 \/ k = 2 \/ k = 3 \/ k = 4
  OBVIOUS
<1> QED
  BY <1>2, <1>3, Zenon

(* The hardware's walk is the walk along the address's indices.            *)
LEMMA WalkReach ==
  ASSUME NEW virtual
  PROVE  Walk(virtual) = Reach(PML4, tables, Path(virtual), 5)
<1> DEFINE Step(entry, level) ==
             IF entry < 0 THEN entry ELSE Entry(entry, Index(virtual, level))
<1>1. \A entry, level : level \in 1 .. 4 =>
         Step(entry, level) = Follow(tables, entry, Path(virtual)[level])
  BY DEF Follow, Entry, Path
<1>2. Walk(virtual) = Step(Step(Step(Step(PML4, 1), 2), 3), 4)
  BY DEF Walk
<1>3. 1 \in 1 .. 4 /\ 2 \in 1 .. 4 /\ 3 \in 1 .. 4 /\ 4 \in 1 .. 4
      /\ 1 + 1 = 2 /\ 2 + 1 = 3 /\ 3 + 1 = 4 /\ 4 + 1 = 5
  OBVIOUS
<1> HIDE DEF Step
<1> DEFINE R(k) == Reach(PML4, tables, Path(virtual), k)
<1>4. R(1) = PML4
      /\ \A k \in 1 .. 4 : R(k + 1) = Follow(tables, R(k), Path(virtual)[k])
  BY ReachStep
<1> HIDE DEF R
<1>5. \A k \in 1 .. 4 : R(k + 1) = Step(R(k), k)
  BY <1>1, <1>4, Zenon
<1>6. /\ R(2) = Step(R(1), 1) /\ R(3) = Step(R(2), 2)
      /\ R(4) = Step(R(3), 3) /\ R(5) = Step(R(4), 4)
  <2>1. R(1 + 1) = Step(R(1), 1) /\ R(2 + 1) = Step(R(2), 2)
        /\ R(3 + 1) = Step(R(3), 3) /\ R(4 + 1) = Step(R(4), 4)
    BY <1>3, <1>5, Zenon
  <2> QED
    BY <1>3, <2>1
<1>7. R(5) = Step(Step(Step(Step(PML4, 1), 2), 3), 4)
  BY <1>4, <1>6
<1> QED
  BY <1>2, <1>7 DEF R

LEMMA WalkReachNext ==
  ASSUME NEW virtual
  PROVE  Walk(virtual)' = Reach(PML4', tables', Path(virtual), 5)
<1>1. Walk(virtual) = Reach(PML4, tables, Path(virtual), 5)
  BY WalkReach
<1>2. (Walk(virtual) = Reach(PML4, tables, Path(virtual), 5))'
  BY <1>1, PTL
<1> QED
  BY <1>2

TabsOK(tabs) ==
  /\ DOMAIN tabs \subseteq Nat
  /\ tabs \in [DOMAIN tabs -> [Indices -> Entries]]

LEMMA FollowType ==
  ASSUME NEW tabs, TabsOK(tabs), NEW entry \in Values, NEW i \in Indices
  PROVE  Follow(tabs, entry, i) \in Values
<1>1. CASE entry \in DOMAIN tabs
  <2>1. tabs[entry][i] \in Entries
    BY <1>1 DEF TabsOK
  <2> QED
    BY <1>1, <2>1 DEF Follow, Entries, Values
<1>2. CASE entry \notin DOMAIN tabs
  BY <1>2 DEF Follow, Values, Garbage
<1> QED
  BY <1>1, <1>2

(* The levels one after the other.                                         *)
LEMMA Levels ==
  /\ \A k \in 1 .. 4 : k = 1 \/ k = 2 \/ k = 3 \/ k = 4
  /\ \A k \in 1 .. 5 : k = 1 \/ k \in 1 .. 4 \/ k = 5
  /\ \A k \in 1 .. 5 : k = 1 \/ k = 2 \/ k = 3 \/ k = 4 \/ k = 5
  /\ 1 \in 1 .. 4 /\ 2 \in 1 .. 4 /\ 3 \in 1 .. 4 /\ 4 \in 1 .. 4
  /\ 1 + 1 = 2 /\ 2 + 1 = 3 /\ 3 + 1 = 4 /\ 4 + 1 = 5
  OBVIOUS

(* A walk ends with a page, Absent or Garbage, and an absent entry ends it.*)
LEMMA ReachType ==
  ASSUME NEW tabs, TabsOK(tabs), NEW root \in Values, NEW path \in Paths
  PROVE  /\ \A k \in 1 .. 5 : Reach(root, tabs, path, k) \in Values
         /\ \A k \in 1 .. 5, j \in 1 .. 5 :
              k <= j /\ Reach(root, tabs, path, k) = Absent
                => Reach(root, tabs, path, j) = Absent
<1> DEFINE R(k) == Reach(root, tabs, path, k)
<1>1. R(1) = root /\ \A k \in 1 .. 4 : R(k + 1) = Follow(tabs, R(k), path[k])
  BY ReachStep
<1> HIDE DEF R
<1>2. ASSUME NEW k \in 1 .. 4, R(k) \in Values
      PROVE  R(k + 1) \in Values
  <2>1. path[k] \in Indices
    BY DEF Paths
  <2> QED
    BY <1>1, <1>2, <2>1, FollowType
<1>3. ASSUME NEW k \in 1 .. 4, R(k) = Absent
      PROVE  R(k + 1) = Absent
  BY <1>1, <1>3 DEF Follow, Absent
<1>4. R(1) \in Values /\ R(2) \in Values /\ R(3) \in Values /\ R(4) \in Values
      /\ R(5) \in Values
  <2>1. R(2) \in Values
    BY <1>1, <1>2, Levels, Zenon
  <2>2. R(3) \in Values
    BY <2>1, <1>2, Levels, Zenon
  <2>3. R(4) \in Values
    BY <2>2, <1>2, Levels, Zenon
  <2>4. R(5) \in Values
    BY <2>3, <1>2, Levels, Zenon
  <2> QED
    BY <1>1, <2>1, <2>2, <2>3, <2>4
<1>5. /\ R(1) = Absent => R(2) = Absent
      /\ R(2) = Absent => R(3) = Absent
      /\ R(3) = Absent => R(4) = Absent
      /\ R(4) = Absent => R(5) = Absent
  BY <1>3, Levels, Zenon
<1>6. \A k \in 1 .. 5 : R(k) \in Values
  BY <1>4, Levels
<1>7. \A k \in 1 .. 5, j \in 1 .. 5 : k <= j /\ R(k) = Absent => R(j) = Absent
  BY <1>5, Levels
<1> QED
  BY <1>6, <1>7 DEF R

(* Two paths lead to the same tables as far as their indices agree.        *)
SamePath(p, q, level) == \A l \in 1 .. level - 1 : p[l] = q[l]

LEMMA SamePathFacts ==
  ASSUME NEW p \in Paths, NEW q \in Paths
  PROVE  /\ \A k \in 1 .. 4 :
              SamePath(p, q, k + 1) <=> SamePath(p, q, k) /\ p[k] = q[k]
         /\ \A k \in 1 .. 5 : \A j \in 1 .. k :
              SamePath(p, q, k) => SamePath(p, q, j)
         /\ SamePath(p, q, 5) => p = q
<1>1. \A k \in 1 .. 4 :
         SamePath(p, q, k + 1) <=> SamePath(p, q, k) /\ p[k] = q[k]
  BY DEF SamePath
<1>2. \A k \in 1 .. 5 : \A j \in 1 .. k :
         SamePath(p, q, k) => SamePath(p, q, j)
  BY DEF SamePath
<1>3. SamePath(p, q, 5) => p = q
  <2>1. 1 .. 5 - 1 = 1 .. 4
    OBVIOUS
  <2> QED
    BY <2>1 DEF SamePath, Paths
<1> QED
  BY <1>1, <1>2, <1>3

LEMMA SamePathReach ==
  ASSUME NEW root, NEW tabs, NEW p \in Paths, NEW q \in Paths,
         NEW level \in 1 .. 5, SamePath(p, q, level)
  PROVE  Reach(root, tabs, p, level) = Reach(root, tabs, q, level)
<1> DEFINE R(path, k) == Reach(root, tabs, path, k)
           Same(k) == SamePath(p, q, k) => R(p, k) = R(q, k)
<1>1. R(p, 1) = R(q, 1)
  BY ReachStep
<1>2. ASSUME NEW k \in 1 .. 4, Same(k)
      PROVE  Same(k + 1)
  <2>1. /\ R(p, k + 1) = Follow(tabs, R(p, k), p[k])
        /\ R(q, k + 1) = Follow(tabs, R(q, k), q[k])
    BY ReachStep
  <2>2. SamePath(p, q, k + 1) => SamePath(p, q, k) /\ p[k] = q[k]
    BY SamePathFacts
  <2> HIDE DEF R
  <2> QED
    BY <1>2, <2>1, <2>2
<1>3. Same(1)
  BY <1>1
<1> HIDE DEF Same
<1>4. Same(1) /\ Same(2) /\ Same(3) /\ Same(4) /\ Same(5)
  <2>1. Same(2)
    BY <1>3, <1>2, Levels, Zenon
  <2>2. Same(3)
    BY <2>1, <1>2, Levels, Zenon
  <2>3. Same(4)
    BY <2>2, <1>2, Levels, Zenon
  <2>4. Same(5)
    BY <2>3, <1>2, Levels, Zenon
  <2> QED
    BY <1>3, <2>1, <2>2, <2>3, <2>4
<1>5. Same(level)
  BY <1>4, Levels
<1> QED
  BY <1>5 DEF Same

(* A walk is the same in two sets of tables as far as each entry it reads  *)
(* is.                                                                     *)
LEMMA ReachAgree ==
  ASSUME NEW root, NEW tabs, NEW tabs2, NEW path, NEW level \in 1 .. 5,
         \A k \in 1 .. level - 1 :
            Follow(tabs2, Reach(root, tabs, path, k), path[k])
              = Follow(tabs, Reach(root, tabs, path, k), path[k])
  PROVE  \A k \in 1 .. level :
            Reach(root, tabs2, path, k) = Reach(root, tabs, path, k)
<1> DEFINE R(k) == Reach(root, tabs, path, k)
           S(k) == Reach(root, tabs2, path, k)
           Same(k) == k <= level => S(k) = R(k)
<1>1. R(1) = root /\ \A k \in 1 .. 4 : R(k + 1) = Follow(tabs, R(k), path[k])
  BY ReachStep
<1>2. S(1) = root /\ \A k \in 1 .. 4 : S(k + 1) = Follow(tabs2, S(k), path[k])
  BY ReachStep
<1>3. \A k \in 1 .. level - 1 : Follow(tabs2, R(k), path[k])
                                  = Follow(tabs, R(k), path[k])
  OBVIOUS
<1> HIDE DEF R, S
<1>4. ASSUME NEW k \in 1 .. 4, Same(k)
      PROVE  Same(k + 1)
  <2> SUFFICES ASSUME k + 1 <= level
               PROVE  S(k + 1) = R(k + 1)
    OBVIOUS
  <2>1. k \in 1 .. level - 1 /\ k <= level
    OBVIOUS
  <2>2. S(k) = R(k)
    BY <1>4, <2>1
  <2> QED
    BY <1>1, <1>2, <1>3, <2>1, <2>2, Zenon
<1>5. Same(1)
  BY <1>1, <1>2
<1> HIDE DEF Same
<1>6. Same(1) /\ Same(2) /\ Same(3) /\ Same(4) /\ Same(5)
  <2>1. Same(2)
    BY <1>5, <1>4, Levels, Zenon
  <2>2. Same(3)
    BY <2>1, <1>4, Levels, Zenon
  <2>3. Same(4)
    BY <2>2, <1>4, Levels, Zenon
  <2>4. Same(5)
    BY <2>3, <1>4, Levels, Zenon
  <2> QED
    BY <1>5, <2>1, <2>2, <2>3, <2>4
<1>7. \A k \in 1 .. level : k \in 1 .. 5 /\ k <= level
  OBVIOUS
<1>8. \A k \in 1 .. level : Same(k)
  BY <1>6, <1>7, Levels, Zenon
<1> QED
  BY <1>7, <1>8 DEF Same, R, S

-----------------------------------------------------------------------------
(* The tables form a tree *)

(* Every directory entry is absent or points to a table, and no table has  *)
(* two parents, two places under one, or two levels.                       *)
Tree(root, tabs) ==
  /\ root \in DOMAIN tabs
  /\ \A p \in Paths, k \in 1 .. 4 :
        Reach(root, tabs, p, k) \in DOMAIN tabs \cup {Absent}
  /\ \A p \in Paths, q \in Paths, j \in 1 .. 4, k \in 1 .. 4 :
        Reach(root, tabs, p, j) # Absent
          /\ Reach(root, tabs, p, j) = Reach(root, tabs, q, k)
        => j = k /\ SamePath(p, q, k)

(* The tables some walk passes through.                                    *)
InTree(root, tabs, page) ==
  /\ page # Absent
  /\ \E p \in Paths, k \in 1 .. 4 : Reach(root, tabs, p, k) = page

(* One empty table is a tree.                                              *)
LEMMA RootTree ==
  ASSUME NEW root \in Nat, NEW tabs, tabs = [t \in {root} |-> ZeroTable]
  PROVE  /\ TabsOK(tabs)
         /\ Tree(root, tabs)
         /\ \A p \in Paths, k \in 1 .. 5 :
              Reach(root, tabs, p, k) = IF k = 1 THEN root ELSE Absent
<1>1. TabsOK(tabs)
  <2>1. ZeroTable \in [Indices -> Entries]
    BY DEF ZeroTable, Entries
  <2> QED
    BY <2>1 DEF TabsOK
<1>2. root \in Values /\ root # Absent
  BY DEF Values, Absent
<1>3. ASSUME NEW p \in Paths
      PROVE  \A k \in 1 .. 5 :
               Reach(root, tabs, p, k) = IF k = 1 THEN root ELSE Absent
  <2>1. Reach(root, tabs, p, 1) = root
    BY ReachStep
  <2>2. Reach(root, tabs, p, 2) = Follow(tabs, root, p[1])
    <3>1. Reach(root, tabs, p, 1 + 1)
            = Follow(tabs, Reach(root, tabs, p, 1), p[1])
      BY ReachStep, Levels
    <3> QED
      BY <2>1, <3>1, Levels
  <2>3. Follow(tabs, root, p[1]) = Absent
    <3>1. p[1] \in Indices
      BY DEF Paths
    <3> QED
      BY <3>1 DEF Follow, ZeroTable
  <2>4. Reach(root, tabs, p, 2) = Absent
    BY <2>2, <2>3
  <2>5. \A k \in 2 .. 5 : Reach(root, tabs, p, k) = Absent
    BY <1>1, <1>2, <2>4, ReachType
  <2> QED
    BY <2>1, <2>5
<1>4. Tree(root, tabs)
  <2>1. root \in DOMAIN tabs
    OBVIOUS
  <2>2. \A p \in Paths, k \in 1 .. 4 :
           Reach(root, tabs, p, k) = IF k = 1 THEN root ELSE Absent
    BY <1>3
  <2>3. \A p \in Paths, q \in Paths : SamePath(p, q, 1)
    BY DEF SamePath
  <2> QED
    BY <1>2, <2>1, <2>2, <2>3 DEF Tree
<1> QED
  BY <1>1, <1>3, <1>4

(* Zeroing a page outside the tree changes no walk.                        *)
LEMMA ClearEffect ==
  ASSUME NEW root \in Nat, NEW tabs, TabsOK(tabs), Tree(root, tabs),
         NEW page \in Nat, ~InTree(root, tabs, page)
  PROVE  /\ TabsOK(Put(tabs, page, ZeroTable))
         /\ Tree(root, Put(tabs, page, ZeroTable))
         /\ \A p \in Paths, k \in 1 .. 5 :
              Reach(root, Put(tabs, page, ZeroTable), p, k)
                = Reach(root, tabs, p, k)
<1> DEFINE tabs2 == Put(tabs, page, ZeroTable)
<1>1. /\ DOMAIN tabs2 = DOMAIN tabs \cup {page}
      /\ \A t \in DOMAIN tabs : t # page => tabs2[t] = tabs[t]
  BY DEF Put
<1>2. TabsOK(tabs2)
  <2>1. ZeroTable \in [Indices -> Entries]
    BY DEF ZeroTable, Entries
  <2> DEFINE T == [Indices -> Entries]
  <2>2. DOMAIN tabs \subseteq Nat /\ tabs \in [DOMAIN tabs -> T]
    BY DEF TabsOK
  <2> HIDE DEF T
  <2>3. DOMAIN tabs2 \subseteq Nat /\ tabs2 \in [DOMAIN tabs2 -> T]
    BY <2>1, <2>2, PutType DEF T
  <2> QED
    BY <2>3 DEF TabsOK, T
<1> HIDE DEF tabs2
<1>3. ASSUME NEW p \in Paths
      PROVE  \A k \in 1 .. 5 : Reach(root, tabs2, p, k) = Reach(root, tabs, p, k)
  <2>1. ASSUME NEW k \in 1 .. 4
        PROVE  Follow(tabs2, Reach(root, tabs, p, k), p[k])
                 = Follow(tabs, Reach(root, tabs, p, k), p[k])
    <3> DEFINE entry == Reach(root, tabs, p, k)
    <3>1. entry \in DOMAIN tabs \cup {Absent}
      BY DEF Tree
    <3>2. entry # Absent => entry # page
      BY DEF InTree
    <3> HIDE DEF entry
    <3>3. Follow(tabs2, entry, p[k]) = Follow(tabs, entry, p[k])
      <4>1. CASE entry = Absent
        BY <4>1 DEF Follow, Absent
      <4>2. CASE entry # Absent
        BY <1>1, <3>1, <3>2, <4>2 DEF Follow
      <4> QED
        BY <4>1, <4>2
    <3> QED
      BY <3>3 DEF entry
  <2>2. \A k \in 1 .. 5 - 1 : Follow(tabs2, Reach(root, tabs, p, k), p[k])
                                = Follow(tabs, Reach(root, tabs, p, k), p[k])
    BY <2>1
  <2>3. 5 \in 1 .. 5
    OBVIOUS
  <2> QED
    BY <2>2, <2>3, ReachAgree
<1>4. Tree(root, tabs2)
  <2>1. \A p \in Paths, k \in 1 .. 4 :
           Reach(root, tabs2, p, k) = Reach(root, tabs, p, k)
    BY <1>3
  <2> QED
    BY <1>1, <2>1 DEF Tree
<1> QED
  BY <1>2, <1>3, <1>4 DEF tabs2

Overwrite(tabs, table, i, page) ==
  [t \in DOMAIN tabs |->
     IF t = table THEN [tabs[t] EXCEPT ![i] = page] ELSE tabs[t]]

(* Writing the entry a walk reads at some level changes the walks that     *)
(* agree with it up to there and no other.                                 *)
LEMMA WriteEffect ==
  ASSUME NEW root \in Nat, NEW tabs, TabsOK(tabs), Tree(root, tabs),
         NEW v \in Paths, NEW level \in 1 .. 4, NEW page \in Nat,
         NEW table, table = Reach(root, tabs, v, level), table # Absent,
         NEW tabs2, tabs2 = Overwrite(tabs, table, v[level], page)
  PROVE  /\ TabsOK(tabs2)
         /\ DOMAIN tabs2 = DOMAIN tabs
         /\ \A t \in DOMAIN tabs : t # table => tabs2[t] = tabs[t]
         /\ \A p \in Paths :
              /\ \A k \in 1 .. level :
                   Reach(root, tabs2, p, k) = Reach(root, tabs, p, k)
              /\ ~SamePath(p, v, level + 1) =>
                   \A k \in 1 .. 5 :
                     Reach(root, tabs2, p, k) = Reach(root, tabs, p, k)
              /\ SamePath(p, v, level + 1) =>
                   Reach(root, tabs2, p, level + 1) = page
<1>1. table \in DOMAIN tabs /\ v[level] \in Indices
  BY DEF Tree, Paths
<1>2. /\ DOMAIN tabs2 = DOMAIN tabs
      /\ \A t \in DOMAIN tabs : t # table => tabs2[t] = tabs[t]
  BY DEF Overwrite
<1>3. tabs2[table] = [tabs[table] EXCEPT ![v[level]] = page]
  BY <1>1 DEF Overwrite
<1>4. tabs[table] \in [Indices -> Entries] /\ page \in Entries
  BY <1>1 DEF TabsOK, Entries
<1>5. tabs2[table] \in [Indices -> Entries] /\ tabs2[table][v[level]] = page
      /\ \A i \in Indices : i # v[level] => tabs2[table][i] = tabs[table][i]
  BY <1>1, <1>3, <1>4
<1>6. TabsOK(tabs2)
  <2>1. \A t \in DOMAIN tabs2 : tabs2[t] \in [Indices -> Entries]
    BY <1>2, <1>5 DEF TabsOK
  <2>2. tabs2 = [t \in DOMAIN tabs2 |-> tabs2[t]]
    BY <1>2 DEF Overwrite
  <2> HIDE DEF Overwrite
  <2> QED
    BY <1>2, <2>1, <2>2 DEF TabsOK
<1>7. ASSUME NEW p \in Paths
      PROVE  /\ \A k \in 1 .. level :
                   Reach(root, tabs2, p, k) = Reach(root, tabs, p, k)
             /\ ~SamePath(p, v, level + 1) =>
                   \A k \in 1 .. 5 :
                     Reach(root, tabs2, p, k) = Reach(root, tabs, p, k)
             /\ SamePath(p, v, level + 1) =>
                   Reach(root, tabs2, p, level + 1) = page
  <2>1. ASSUME NEW k \in 1 .. 4, k # level \/ ~SamePath(p, v, level + 1)
        PROVE  Follow(tabs2, Reach(root, tabs, p, k), p[k])
                 = Follow(tabs, Reach(root, tabs, p, k), p[k])
    <3> DEFINE entry == Reach(root, tabs, p, k)
    <3>1. entry \in DOMAIN tabs \cup {Absent}
      BY DEF Tree
    <3>2. CASE entry = table
      <4>1. k = level /\ SamePath(p, v, level)
        BY <3>2 DEF Tree
      <4>2. p[k] # v[level]
        BY <2>1, <4>1, SamePathFacts
      <4>3. p[k] \in Indices
        BY DEF Paths
      <4> HIDE DEF entry
      <4>4. tabs2[entry][p[k]] = tabs[entry][p[k]]
        BY <1>5, <3>2, <4>2, <4>3
      <4>5. Follow(tabs2, entry, p[k]) = Follow(tabs, entry, p[k])
        BY <1>2, <4>4 DEF Follow
      <4> QED
        BY <4>5 DEF entry
    <3>3. CASE entry # table
      <4> HIDE DEF entry
      <4>1. Follow(tabs2, entry, p[k]) = Follow(tabs, entry, p[k])
        BY <1>2, <3>1, <3>3 DEF Follow, Absent
      <4> QED
        BY <4>1 DEF entry
    <3> QED
      BY <3>2, <3>3
  <2>2. \A k \in 1 .. level :
           Reach(root, tabs2, p, k) = Reach(root, tabs, p, k)
    <3>1. \A k \in 1 .. level - 1 :
             Follow(tabs2, Reach(root, tabs, p, k), p[k])
               = Follow(tabs, Reach(root, tabs, p, k), p[k])
      <4>1. \A k \in 1 .. level - 1 : k \in 1 .. 4 /\ k # level
        OBVIOUS
      <4> QED
        BY <2>1, <4>1, Zenon
    <3>2. level \in 1 .. 5
      OBVIOUS
    <3> QED
      BY <3>1, <3>2, ReachAgree
  <2>3. ASSUME ~SamePath(p, v, level + 1)
        PROVE  \A k \in 1 .. 5 :
                 Reach(root, tabs2, p, k) = Reach(root, tabs, p, k)
    <3>1. \A k \in 1 .. 5 - 1 :
             Follow(tabs2, Reach(root, tabs, p, k), p[k])
               = Follow(tabs, Reach(root, tabs, p, k), p[k])
      <4>1. \A k \in 1 .. 5 - 1 : k \in 1 .. 4
        OBVIOUS
      <4> QED
        BY <2>1, <2>3, <4>1, Zenon
    <3>2. 5 \in 1 .. 5
      OBVIOUS
    <3> QED
      BY <3>1, <3>2, ReachAgree
  <2>4. ASSUME SamePath(p, v, level + 1)
        PROVE  Reach(root, tabs2, p, level + 1) = page
    <3>1. SamePath(p, v, level) /\ p[level] = v[level]
      BY <2>4, SamePathFacts
    <3>2. Reach(root, tabs2, p, level) = table
      <4>1. level \in 1 .. level /\ level \in 1 .. 5
        OBVIOUS
      <4>2. Reach(root, tabs, p, level) = table
        BY <3>1, <4>1, SamePathReach
      <4> QED
        BY <2>2, <4>1, <4>2
    <3>3. Reach(root, tabs2, p, level + 1) = Follow(tabs2, table, v[level])
      <4>1. Reach(root, tabs2, p, level + 1)
              = Follow(tabs2, Reach(root, tabs2, p, level), p[level])
        BY ReachStep
      <4> QED
        BY <3>1, <3>2, <4>1
    <3>4. table \in DOMAIN tabs2 /\ ~(table < 0)
      BY <1>1, <1>2 DEF TabsOK
    <3> QED
      BY <1>5, <3>3, <3>4 DEF Follow
  <2> QED
    BY <2>2, <2>3, <2>4
<1> QED
  BY <1>2, <1>6, <1>7

(* Linking an empty table outside the tree adds it, and nothing else.      *)
LEMMA LinkEffect ==
  ASSUME NEW root \in Nat, NEW tabs, TabsOK(tabs), Tree(root, tabs),
         NEW v \in Paths, NEW level \in 1 .. 3, NEW page \in Nat,
         NEW table, table = Reach(root, tabs, v, level), table # Absent,
         Reach(root, tabs, v, level + 1) = Absent,
         page \in DOMAIN tabs, tabs[page] = ZeroTable,
         ~InTree(root, tabs, page),
         NEW tabs2, tabs2 = Overwrite(tabs, table, v[level], page)
  PROVE  /\ TabsOK(tabs2)
         /\ DOMAIN tabs2 = DOMAIN tabs
         /\ Tree(root, tabs2)
         /\ \A p \in Paths, k \in 1 .. 5 :
              Reach(root, tabs2, p, k)
                = IF SamePath(p, v, level + 1) /\ k = level + 1 THEN page
                  ELSE Reach(root, tabs, p, k)
<1>1. level \in 1 .. 4 /\ level + 1 \in 1 .. 4 /\ level + 1 \in 1 .. 5
  OBVIOUS
<1>2. /\ TabsOK(tabs2)
      /\ DOMAIN tabs2 = DOMAIN tabs
      /\ \A t \in DOMAIN tabs : t # table => tabs2[t] = tabs[t]
      /\ \A p \in Paths :
           /\ \A k \in 1 .. level :
                Reach(root, tabs2, p, k) = Reach(root, tabs, p, k)
           /\ ~SamePath(p, v, level + 1) =>
                \A k \in 1 .. 5 :
                  Reach(root, tabs2, p, k) = Reach(root, tabs, p, k)
           /\ SamePath(p, v, level + 1) =>
                Reach(root, tabs2, p, level + 1) = page
  BY <1>1, WriteEffect
<1>3. page # Absent /\ page # table
  BY <1>1 DEF InTree, Absent
<1>4. root \in Values
  BY DEF Values
<1>5. ASSUME NEW p \in Paths, NEW k \in 1 .. 5
      PROVE  Reach(root, tabs2, p, k)
               = IF SamePath(p, v, level + 1) /\ k = level + 1 THEN page
                 ELSE Reach(root, tabs, p, k)
  <2>1. CASE ~SamePath(p, v, level + 1) \/ k \in 1 .. level
    <3>1. Reach(root, tabs2, p, k) = Reach(root, tabs, p, k)
      BY <1>2, <2>1
    <3>2. ~(SamePath(p, v, level + 1) /\ k = level + 1)
      BY <2>1
    <3> QED
      BY <3>1, <3>2
  <2>2. CASE SamePath(p, v, level + 1) /\ k = level + 1
    BY <1>2, <2>2
  <2>3. CASE SamePath(p, v, level + 1) /\ level + 1 < k
    <3>1. Reach(root, tabs, p, level + 1) = Absent
      <4>1. Reach(root, tabs, p, level + 1) = Reach(root, tabs, v, level + 1)
        BY <1>1, <2>3, SamePathReach
      <4> QED
        BY <4>1
    <3>2. Reach(root, tabs, p, k) = Absent
      <4>1. \A i \in 1 .. 5, j \in 1 .. 5 :
               i <= j /\ Reach(root, tabs, p, i) = Absent
                 => Reach(root, tabs, p, j) = Absent
        BY <1>4, ReachType
      <4>2. level + 1 <= k
        BY <2>3
      <4> QED
        BY <1>1, <3>1, <4>1, <4>2, Zenon
    <3> DEFINE l == level + 1
    <3>3. l \in 1 .. 4 /\ l + 1 \in 1 .. 5 /\ l + 1 <= k
      BY <1>1, <2>3
    <3>4. Reach(root, tabs2, p, l) = page
      BY <1>2, <2>3
    <3> HIDE DEF l
    <3>5. Reach(root, tabs2, p, l + 1) = Absent
      <4>1. Reach(root, tabs2, p, l + 1) = Follow(tabs2, page, p[l])
        BY <3>3, <3>4, ReachStep
      <4>2. p[l] \in Indices
        BY <3>3 DEF Paths
      <4>3. tabs2[page][p[l]] = Absent
        BY <1>2, <1>3, <4>2 DEF ZeroTable
      <4>4. page \in DOMAIN tabs2 /\ ~(page < 0)
        BY <1>2
      <4> QED
        BY <4>1, <4>3, <4>4 DEF Follow
    <3>6. Reach(root, tabs2, p, k) = Absent
      <4>1. \A i \in 1 .. 5, j \in 1 .. 5 :
               i <= j /\ Reach(root, tabs2, p, i) = Absent
                 => Reach(root, tabs2, p, j) = Absent
        BY <1>2, <1>4, ReachType
      <4> QED
        BY <3>3, <3>5, <4>1, Zenon
    <3>7. k # level + 1
      BY <2>3
    <3> QED
      BY <3>2, <3>6, <3>7
  <2>4. k \in 1 .. level \/ k = level + 1 \/ level + 1 < k
    OBVIOUS
  <2> QED
    BY <2>1, <2>2, <2>3, <2>4
<1>6. Tree(root, tabs2)
  <2>1. root \in DOMAIN tabs2
    BY <1>2 DEF Tree
  <2>2. ASSUME NEW p \in Paths, NEW k \in 1 .. 4
        PROVE  Reach(root, tabs2, p, k) \in DOMAIN tabs2 \cup {Absent}
    <3>1. Reach(root, tabs, p, k) \in DOMAIN tabs \cup {Absent}
      BY DEF Tree
    <3>2. k \in 1 .. 5
      OBVIOUS
    <3> QED
      BY <1>2, <1>5, <3>1, <3>2
  <2>3. ASSUME NEW p \in Paths, NEW q \in Paths, NEW j \in 1 .. 4, NEW k \in 1 .. 4,
               Reach(root, tabs2, p, j) # Absent,
               Reach(root, tabs2, p, j) = Reach(root, tabs2, q, k)
        PROVE  j = k /\ SamePath(p, q, k)
    <3> DEFINE New(path, l) == SamePath(path, v, level + 1) /\ l = level + 1
    <3>1. /\ Reach(root, tabs2, p, j)
               = IF New(p, j) THEN page ELSE Reach(root, tabs, p, j)
          /\ Reach(root, tabs2, q, k)
               = IF New(q, k) THEN page ELSE Reach(root, tabs, q, k)
      <4>1. j \in 1 .. 5 /\ k \in 1 .. 5
        OBVIOUS
      <4> QED
        BY <1>5, <4>1
    <3>2. /\ Reach(root, tabs, p, j) # page
          /\ Reach(root, tabs, q, k) # page
      BY <1>3 DEF InTree
    <3>3. CASE New(p, j) /\ New(q, k)
      <4>1. SamePath(p, q, level + 1)
        BY <3>3 DEF SamePath
      <4> QED
        BY <3>3, <4>1
    <3>4. CASE ~New(p, j) /\ ~New(q, k)
      <4>1. /\ Reach(root, tabs, p, j) # Absent
            /\ Reach(root, tabs, p, j) = Reach(root, tabs, q, k)
        BY <2>3, <3>1, <3>4
      <4> QED
        BY <4>1 DEF Tree
    <3> HIDE DEF New
    <3> QED
      BY <2>3, <3>1, <3>2, <3>3, <3>4
  <2> QED
    BY <2>1, <2>2, <2>3 DEF Tree
<1> QED
  BY <1>2, <1>5, <1>6

(* Writing the last level changes the translation of one address.          *)
LEMMA MapEffect ==
  ASSUME NEW root \in Nat, NEW tabs, TabsOK(tabs), Tree(root, tabs),
         NEW v \in Paths, NEW page \in Nat,
         NEW table, table = Reach(root, tabs, v, 4), table # Absent,
         NEW tabs2, tabs2 = Overwrite(tabs, table, v[4], page)
  PROVE  /\ TabsOK(tabs2)
         /\ DOMAIN tabs2 = DOMAIN tabs
         /\ Tree(root, tabs2)
         /\ \A p \in Paths : \A k \in 1 .. 4 :
              Reach(root, tabs2, p, k) = Reach(root, tabs, p, k)
         /\ Reach(root, tabs2, v, 5) = page
         /\ \A p \in Paths : p # v =>
              Reach(root, tabs2, p, 5) = Reach(root, tabs, p, 5)
<1>1. 4 \in 1 .. 4 /\ 4 + 1 = 5 /\ 5 \in 1 .. 5
  OBVIOUS
<1>2. /\ TabsOK(tabs2)
      /\ DOMAIN tabs2 = DOMAIN tabs
      /\ \A p \in Paths :
           /\ \A k \in 1 .. 4 :
                Reach(root, tabs2, p, k) = Reach(root, tabs, p, k)
           /\ ~SamePath(p, v, 4 + 1) =>
                \A k \in 1 .. 5 :
                  Reach(root, tabs2, p, k) = Reach(root, tabs, p, k)
           /\ SamePath(p, v, 4 + 1) => Reach(root, tabs2, p, 4 + 1) = page
  <2> DEFINE level == 4
  <2>1. level \in 1 .. 4 /\ level = 4
    OBVIOUS
  <2>2. table = Reach(root, tabs, v, level)
        /\ tabs2 = Overwrite(tabs, table, v[level], page)
    OBVIOUS
  <2> HIDE DEF level
  <2>3. /\ TabsOK(tabs2)
        /\ DOMAIN tabs2 = DOMAIN tabs
        /\ \A p \in Paths :
             /\ \A k \in 1 .. level :
                  Reach(root, tabs2, p, k) = Reach(root, tabs, p, k)
             /\ ~SamePath(p, v, level + 1) =>
                  \A k \in 1 .. 5 :
                    Reach(root, tabs2, p, k) = Reach(root, tabs, p, k)
             /\ SamePath(p, v, level + 1) =>
                  Reach(root, tabs2, p, level + 1) = page
    BY <2>1, <2>2, WriteEffect
  <2> QED
    BY <2>1, <2>3
<1>3. \A p \in Paths : SamePath(p, v, 5) <=> p = v
  <2>1. SamePath(v, v, 5)
    BY DEF SamePath
  <2> QED
    BY <2>1, SamePathFacts
<1>4. Tree(root, tabs2)
  BY <1>2 DEF Tree
<1> QED
  BY <1>1, <1>2, <1>3, <1>4

-----------------------------------------------------------------------------
(* What a borrow gives *)

(* The page borrowed is out to no one, every page still free lies at or    *)
(* after it, and nullptr means that no page is free.                       *)
LEMMA BorrowGives ==
  ASSUME AllocInv, Borrow
  PROVE  /\ Clear(corgiAlloc)' \subseteq Clear(corgiAlloc)
         /\ Clear(corgiAlloc)' \subseteq Nat
         /\ granted \subseteq granted'
         /\ returned' = NoPage =>
              granted' = granted /\ Clear(corgiAlloc)' = {}
         /\ returned' # NoPage =>
              /\ returned' \notin granted
              /\ granted' = granted \cup {returned'}
              /\ \A p \in Clear(corgiAlloc)' : returned' <= p
<1> DEFINE b == BorrowPage(corgiAlloc).alloc
           page == BorrowPage(corgiAlloc).page
<1>1. /\ initialized
      /\ corgiAlloc' = b
      /\ returned' = page
      /\ granted' = granted \cup ({page} \ {NoPage})
  BY DEF Borrow
<1>2. /\ Clear(corgiAlloc) \subseteq Nat
      /\ granted \subseteq corgiAlloc.bits
  BY <1>1, Running
<1>3. /\ b.Size = corgiAlloc.Size
      /\ \/ /\ Clear(corgiAlloc) = {}
            /\ page = NoPage
            /\ b.bits = corgiAlloc.bits
         \/ /\ page \in Clear(corgiAlloc)
            /\ \A p \in Clear(corgiAlloc) : page <= p
            /\ b.bits = corgiAlloc.bits \cup {page}
  BY <1>1, Running, BorrowPageFacts DEF AllocInv, NothingFreeBehindCursor
<1> HIDE DEF b, page
<1>4. Tracked(b) = Tracked(corgiAlloc)
  BY <1>3 DEF Tracked
<1>5. Clear(b) \subseteq Clear(corgiAlloc) /\ Clear(corgiAlloc)' = Clear(b)
  BY <1>1, <1>3, <1>4 DEF Clear
<1>6. CASE /\ Clear(corgiAlloc) = {}
           /\ page = NoPage
  BY <1>1, <1>2, <1>5, <1>6
<1>7. CASE /\ page \in Clear(corgiAlloc)
           /\ \A p \in Clear(corgiAlloc) : page <= p
  <2>1. page # NoPage
    <3>1. NoPage \in 0 .. LowPages - 1
      BY SizesAssumption DEF NoPage
    <3> QED
      BY <1>1, <1>7, <3>1, Running
      DEF AllocInv, EveryBitHasOneOwner, PermanentlyLocked, KeptBack, Clear
  <2>2. page \notin granted
    BY <1>2, <1>7 DEF Clear
  <2> QED
    BY <1>1, <1>2, <1>5, <1>7, <2>1, <2>2
<1> QED
  BY <1>3, <1>6, <1>7

-----------------------------------------------------------------------------
(* The inductive invariant behind TranslationIntact *)

Started == phase \notin {"map", "kernel", "pml4"}

(* The tables reachable from the PML4 form a tree, each lies on a page of  *)
(* its own that the kernel was granted, and its page number is its address.*)
TreeInv ==
  /\ Tree(PML4, tables)
  /\ \A page \in Nat : InTree(PML4, tables, page) =>
        page \in granted /\ TableHome(page)

(* A call of MapMemory walks the tree; the page it borrowed for the next   *)
(* table is not in the tree yet, and the address it maps is not mapped     *)
(* when it is the handler's and maps to itself when it is not.             *)
CallOK(call) ==
  /\ call.virtual \in Virtual
  /\ call.level = 0 => phase = "running" /\ call.fresh = Nothing
  /\ call.level > 0 =>
       /\ call.table = Reach(PML4, tables, Path(call.virtual), call.level)
       /\ call.table # Absent
  /\ call.fresh # Nothing =>
       /\ Reach(PML4, tables, Path(call.virtual), call.level + 1) = Absent
       /\ call.fresh \in granted
       /\ TableHome(call.fresh)
       /\ ~InTree(PML4, tables, call.fresh)
  /\ call.zeroed => /\ call.fresh # Nothing
                    /\ call.fresh \in DOMAIN tables
                    /\ tables[call.fresh] = ZeroTable
  /\ phase = "running" =>
       Reach(PML4, tables, Path(call.virtual), 5) = Absent
  /\ phase # "running" => call.physical = call.virtual
  /\ ~Paging => call.virtual = next - 1

(* One call at a time: a table is always mapped, so no call faults.        *)
CallInv == stack # << >> => stack = <<Top>> /\ CallOK(Top)

(* The pages PrepareMemory's loops are done with.                          *)
MappedPages ==
  IF phase = "identity" THEN 0 .. next - 1
  ELSE IF phase = "framebuffer"
  THEN 0 .. GetMemorySize(memoryMap) - 1 \cup fbBase .. next - 1
  ELSE IF Paging THEN IdentityMapped ELSE {}

InProgress == IF ~Paging /\ stack # << >> THEN {Top.virtual} ELSE {}

MapsInv ==
  /\ phase = "framebuffer" => fbBase <= next
  /\ \A p \in MappedPages \ InProgress : Walk(p) = p
  /\ \A p \in enumerated : Walk(p) = p
  /\ \A v \in DOMAIN recovered : v \in Virtual /\ Walk(v) = recovered[v]

(* Not one page of memory is left.                                         *)
Exhausted == Clear(corgiAlloc) \cap (0 .. GetMemorySize(memoryMap) - 1) = {}

(* Until the handler is there every page is mapped to itself.              *)
Mapping == phase \in {"identity", "framebuffer", "pci"}

IdentityOnly ==
  Mapping => /\ DOMAIN recovered = {}
             /\ \A p \in Paths :
                  Reach(PML4, tables, p, 5) \in Virtual \cup {Absent}

SoundMaps == TreeInv /\ CallInv /\ MapsInv /\ IdentityOnly

TranslationInv ==
  /\ KernelInv
  /\ ~Started => ~spoiled /\ enumerated = {} /\ DOMAIN recovered = {}
  /\ Started /\ ~spoiled => SoundMaps
  /\ spoiled => Exhausted

(* A page borrowed for a table that is no place for a table means that no  *)
(* page of memory is left, as long as memory is.                           *)
LEMMA BorrowExhausts ==
  ASSUME AllocInv, Borrow, ~TableHome(returned'),
         \A p \in 0 .. GetMemorySize(memoryMap) - 1 :
            p # NoPage => TableHome(p)
  PROVE  Exhausted'
<1>1. memoryMap' = memoryMap /\ returned' \in Nat
  BY BorrowStep
<1>2. /\ Clear(corgiAlloc)' \subseteq Nat
      /\ returned' = NoPage => Clear(corgiAlloc)' = {}
      /\ returned' # NoPage => \A p \in Clear(corgiAlloc)' : returned' <= p
  BY BorrowGives
<1>3. GetMemorySize(memoryMap) \in Nat
  BY MemoryMapsAssumption DEF AllocInv, AllocTypeOK
<1> DEFINE free == Clear(corgiAlloc)'
           size == GetMemorySize(memoryMap)
           page == returned'
<1>4. free \cap 0 .. size - 1 = {}
  <2>1. page # NoPage => page \notin 0 .. size - 1
    OBVIOUS
  <2> HIDE DEF page, free, size
  <2>2. /\ page \in Nat /\ free \subseteq Nat /\ size \in Nat
        /\ page = NoPage => free = {}
        /\ page # NoPage => \A p \in free : page <= p
    BY <1>1, <1>2, <1>3 DEF page, free, size
  <2>3. page # NoPage => size <= page
    BY <2>1, <2>2
  <2> QED
    BY <2>2, <2>3
<1> QED
  BY <1>1, <1>4 DEF Exhausted

(* Once the PML4 exists a step borrows a page or leaves the allocator      *)
(* alone, and what is spoiled stays spoiled.                               *)
LEMMA LateStep ==
  ASSUME Started, Next
  PROVE  /\ Started'
         /\ Borrow \/ UNCHANGED allocVars
         /\ PML4' = PML4
         /\ spoiled => spoiled'
<1>1. CASE Prepare
  <2>1. ~ReadMap /\ ~StealKernel /\ ~BorrowPML4
    BY DEF Started, ReadMap, StealKernel, BorrowPML4
  <2>2. CASE CallMapMemory \/ EndLoop \/ EndPCI
    BY <2>2 DEF CallMapMemory, EndLoop, EndPCI, Started
  <2>3. CASE \E page \in ConfigPages : EnumerateFunction(page)
    BY <2>3 DEF EnumerateFunction, Started
  <2>4. CASE PrepareInterrupts
    BY <2>4 DEF PrepareInterrupts, Started
  <2> QED
    BY <1>1, <2>1, <2>2, <2>3, <2>4 DEF Prepare
<1>2. CASE MapMemory
  <2>1. CASE BorrowTable
    <3>1. spoiled' = (spoiled \/ ~TableHome(returned'))
      BY <2>1, Zenon DEF BorrowTable
    <3>2. spoiled => spoiled'
      BY <3>1, Zenon
    <3> QED
      BY <2>1, <3>2 DEF BorrowTable, Started
  <2>2. CASE Descend \/ ClearTable \/ LinkTable \/ TableFault
    BY <2>2 DEF Descend, ClearTable, LinkTable, TableFault, Started
  <2>3. CASE UnhandledFault \/ Runaway \/ MapPage
    BY <2>3 DEF UnhandledFault, Runaway, MapPage, Started
  <2> QED
    BY <1>2, <2>1, <2>2, <2>3, Zenon DEF MapMemory
<1>3. CASE BorrowNewPage
  BY <1>3 DEF BorrowNewPage, Started
<1>4. CASE \E virtual \in Touched : PageFault(virtual)
  BY <1>4 DEF PageFault, Started
<1> QED
  BY <1>1, <1>2, <1>3, <1>4 DEF Next

LEMMA ExhaustedStays ==
  ASSUME AllocInv, Exhausted, Borrow \/ UNCHANGED allocVars
  PROVE  Exhausted' /\ memoryMap' = memoryMap
<1>1. CASE Borrow
  BY <1>1, BorrowGives, BorrowStep DEF Exhausted
<1>2. CASE UNCHANGED allocVars
  BY <1>2 DEF allocVars, Exhausted, Clear, Tracked
<1> QED
  BY <1>1, <1>2

LEMMA SpoiledInv ==
  ASSUME TranslationInv, spoiled, Next
  PROVE  TranslationInv'
<1>1. KernelInv /\ AllocInv /\ Started /\ Exhausted
  BY KernelTypes DEF TranslationInv
<1>2. KernelInv'
  BY <1>1, NextKernelInv
<1>3. Started' /\ spoiled' /\ Exhausted'
  BY <1>1, LateStep, ExhaustedStays
<1> QED
  BY <1>2, <1>3 DEF TranslationInv

(* With the tables unchanged every walk is.                                *)
LEMMA SameTables ==
  ASSUME PML4' = PML4, tables' = tables
  PROVE  /\ \A v : Walk(v)' = Walk(v)
         /\ \A p, k : Reach(PML4', tables', p, k) = Reach(PML4, tables, p, k)
         /\ \A page : InTree(PML4', tables', page)
                        <=> InTree(PML4, tables, page)
         /\ Tree(PML4', tables') <=> Tree(PML4, tables)
<1>1. ASSUME NEW v
      PROVE  Walk(v)' = Walk(v)
  BY WalkReach, WalkReachNext
<1> QED
  BY <1>1

(* A table's home stays one while the addressing and the walk to it do.    *)
LEMMA HomeStays ==
  ASSUME memoryMap' = memoryMap, Paging' = Paging
  PROVE  \A page : Walk(page)' = Walk(page) =>
                     (TableHome(page) <=> TableHome(page)')
<1>1. IdentityMapped' = IdentityMapped
  BY DEF IdentityMapped
<1> QED
  BY <1>1 DEF TableHome

(* The tree invariant over a step that changes no table.                   *)
LEMMA TreeStays ==
  ASSUME TreeInv, PML4' = PML4, tables' = tables, memoryMap' = memoryMap,
         Paging' = Paging, granted \subseteq granted'
  PROVE  TreeInv'
<1>1. /\ \A v : Walk(v)' = Walk(v)
      /\ \A page : InTree(PML4', tables', page) <=> InTree(PML4, tables, page)
      /\ Tree(PML4', tables') <=> Tree(PML4, tables)
  BY SameTables
<1>2. ASSUME NEW page \in Nat, InTree(PML4', tables', page)
      PROVE  page \in granted' /\ TableHome(page)'
  <2>1. page \in granted /\ TableHome(page)
    BY <1>1, <1>2 DEF TreeInv
  <2> QED
    BY <1>1, <2>1, HomeStays
<1>3. Tree(PML4', tables')
  BY <1>1 DEF TreeInv
<1> QED
  BY <1>2, <1>3 DEF TreeInv

(* A table of the tree is accessed at its own address.                     *)
LEMMA HomePhysical ==
  ASSUME NEW page, TableHome(page)
  PROVE  Physical(page) = page
  BY DEF TableHome, Physical

(* What a walk's tables are: pages, in the tree unless absent.             *)
LEMMA TreeTables ==
  ASSUME TablesOK, TreeInv, NEW path \in Paths, NEW k \in 1 .. 4,
         Reach(PML4, tables, path, k) # Absent
  PROVE  /\ Reach(PML4, tables, path, k) \in DOMAIN tables
         /\ Reach(PML4, tables, path, k) \in Nat
         /\ InTree(PML4, tables, Reach(PML4, tables, path, k))
         /\ TableHome(Reach(PML4, tables, path, k))
         /\ Physical(Reach(PML4, tables, path, k))
              = Reach(PML4, tables, path, k)
<1> DEFINE table == Reach(PML4, tables, path, k)
<1>1. table \in DOMAIN tables
  BY DEF TreeInv, Tree
<1>2. table \in Nat
  BY <1>1 DEF TablesOK
<1>3. InTree(PML4, tables, table)
  BY DEF InTree
<1> HIDE DEF table
<1>4. TableHome(table)
  BY <1>2, <1>3 DEF TreeInv
<1>5. Physical(table) = table
  BY <1>4, HomePhysical
<1> QED
  BY <1>1, <1>2, <1>3, <1>4, <1>5 DEF table

(* The pages mapped are addresses.                                         *)
LEMMA MappedVirtual ==
  ASSUME KernelInv
  PROVE  /\ MappedPages \subseteq Virtual
         /\ IdentityMapped \subseteq Virtual
         /\ 0 .. GetMemorySize(memoryMap) - 1 \subseteq IdentityMapped
         /\ Virtual \subseteq Nat
<1>1. /\ memoryMap \in MemoryMaps
      /\ GetMemorySize(memoryMap) \in Nat
  BY KernelTypes
<1>2. 0 .. GetMemorySize(memoryMap) - 1 \subseteq Virtual
  BY <1>1, KernelAssumption, Zenon
<1>3. fbBase \in Nat /\ fbEnd \in Virtual /\ fbBase <= fbEnd
  BY KernelAssumption, Zenon
<1> DEFINE top == Fan * (Fan * (Fan * Fan))
<1>4. top \in Int /\ Virtual = 0 .. top - 1
  <2>1. Fan \in Nat
    BY KernelAssumption
  <2> QED
    BY <2>1 DEF Virtual
<1> HIDE DEF top
<1>5. fbBase .. fbEnd \subseteq Virtual
  BY <1>3, <1>4
<1>6. IdentityMapped \subseteq Virtual
  BY <1>2, <1>5 DEF IdentityMapped
<1>7. MappedPages \subseteq Virtual
  <2>1. CASE phase = "identity"
    <3>1. next \in Nat /\ next <= GetMemorySize(memoryMap)
      BY <2>1 DEF KernelInv, TypeOK, LoopEnd
    <3>2. 0 .. next - 1 \subseteq Virtual
      BY <1>1, <1>2, <3>1
    <3> QED
      BY <2>1, <3>2 DEF MappedPages
  <2>2. CASE phase = "framebuffer"
    <3>1. next \in Nat /\ next <= fbEnd + 1
      BY <2>2 DEF KernelInv, TypeOK, LoopEnd
    <3>2. fbBase .. next - 1 \subseteq Virtual
      BY <1>3, <1>4, <1>5, <3>1
    <3> QED
      BY <1>2, <2>2, <3>2 DEF MappedPages
  <2> QED
    BY <1>6, <2>1, <2>2 DEF MappedPages
<1> QED
  BY <1>4, <1>6, <1>7 DEF IdentityMapped

(* The mappings stay when no walk from an address changes and no page is   *)
(* newly claimed to be mapped.                                             *)
LEMMA MapsStay ==
  ASSUME KernelInv, MapsInv,
         \A v \in Virtual : Walk(v)' = Walk(v),
         MappedPages' \ InProgress' \subseteq MappedPages \ InProgress,
         phase' = "framebuffer" => fbBase <= next',
         enumerated' = enumerated, recovered' = recovered
  PROVE  MapsInv'
<1>1. MappedPages \subseteq Virtual
  BY MappedVirtual
<1>2. enumerated \subseteq Virtual
  BY KernelAssumption DEF KernelInv, TypeOK
<1>3. \A p \in MappedPages' \ InProgress' : Walk(p)' = p
  BY <1>1 DEF MapsInv
<1>4. \A p \in enumerated' : Walk(p)' = p
  BY <1>2 DEF MapsInv
<1>5. \A v \in DOMAIN recovered' : v \in Virtual /\ Walk(v)' = recovered'[v]
  BY DEF MapsInv
<1> QED
  BY <1>3, <1>4, <1>5 DEF MapsInv

(* A stack of one call.                                                    *)
LEMMA SingleCall ==
  ASSUME NEW c, stack = <<c>>
  PROVE  /\ Top = c
         /\ Below = << >>
         /\ \A d : ReplaceTop(d) = <<d>>
<1>1. Len(stack) = 1 /\ stack[1] = c
  OBVIOUS
<1>2. Top = c
  BY <1>1 DEF Top
<1>3. Below = << >>
  <2>1. Len(stack) - 1 = 0
    BY <1>1
  <2> QED
    BY <2>1 DEF Below
<1>4. ASSUME NEW d
      PROVE  ReplaceTop(d) = <<d>>
  BY <1>3 DEF ReplaceTop
<1> QED
  BY <1>2, <1>3, <1>4

LEMMA SingleCallNext ==
  ASSUME NEW c, stack' = <<c>>
  PROVE  Top' = c
  BY DEF Top

(* A call that has just been made.                                         *)
LEMMA NewCall ==
  ASSUME NEW v \in Virtual, NEW physical, NEW level \in 0 .. 1,
         stack' = <<Call(v, physical, level)>>,
         PML4 \in Nat, PML4' = PML4,
         level = 0 => phase' = "running",
         phase' = "running" => Walk(v)' = Absent,
         phase' # "running" => physical = v,
         ~Paging' => v = next' - 1
  PROVE  CallInv'
<1> DEFINE c == Call(v, physical, level)
<1>1. /\ c.virtual = v /\ c.physical = physical /\ c.level = level
      /\ c.table = PML4 /\ c.fresh = Nothing /\ c.zeroed = FALSE
  BY DEF Call
<1>2. stack' = <<c>>
  OBVIOUS
<1> HIDE DEF c
<1>3. Top' = c
  BY <1>2, SingleCallNext
<1>4. Reach(PML4', tables', Path(v), 1) = PML4
  BY ReachStep
<1>5. Walk(v)' = Reach(PML4', tables', Path(v), 5)
  BY WalkReachNext
<1>6. CallOK(Top)'
  BY <1>1, <1>3, <1>4, <1>5 DEF CallOK, Absent
<1> QED
  BY <1>2, <1>3, <1>6 DEF CallInv

-----------------------------------------------------------------------------
(* The steps of MapMemory while no table has been misplaced *)

(* The innermost call is the only one, and every table it touches is a     *)
(* table of the tree or the one it is about to add.                        *)
LEMMA CallTables ==
  ASSUME KernelInv, SoundMaps, stack # << >>
  PROVE  /\ stack = <<Top>> /\ CallOK(Top)
         /\ Top.virtual \in Virtual /\ Path(Top.virtual) \in Paths
         /\ PML4 \in Nat /\ TabsOK(tables)
         /\ Top.level > 0 =>
              /\ Top.level \in 1 .. 4
              /\ Top.table \in Nat /\ Top.table # Absent
              /\ Top.table = Reach(PML4, tables, Path(Top.virtual), Top.level)
              /\ Physical(Top.table) = Top.table
              /\ InTree(PML4, tables, Top.table)
              /\ TopEntry = Reach(PML4, tables, Path(Top.virtual), Top.level + 1)
         /\ Top.fresh # Nothing =>
              /\ Top.level \in 1 .. 3
              /\ Top.fresh \in Nat
              /\ Physical(Top.fresh) = Top.fresh
<1> DEFINE v == Top.virtual
           level == Top.level
           table == Top.table
           fresh == Top.fresh
           path == Path(Top.virtual)
<1>1. stack = <<Top>> /\ CallOK(Top)
  BY DEF SoundMaps, CallInv
<1>2. v \in Virtual /\ path \in Paths
  <2>1. v \in Virtual
    BY <1>1 DEF CallOK
  <2> QED
    BY <2>1, PathType
<1>3. PML4 \in Nat /\ TabsOK(tables) /\ TablesOK
  BY KernelTypes DEF TablesOK, TabsOK
<1>4. /\ level \in 0 .. 4
      /\ fresh # Nothing => level \in 1 .. 3
      /\ fresh \in {Nothing} \cup Tracked(corgiAlloc)
      /\ Tracked(corgiAlloc) \subseteq Nat
  BY CallFacts, KernelTypes
<1>5. /\ level > 0 => table = Reach(PML4, tables, path, level) /\ table # Absent
      /\ fresh # Nothing => TableHome(fresh)
  BY <1>1 DEF CallOK
<1>6. fresh # Nothing => fresh \in Nat /\ Physical(fresh) = fresh
  BY <1>4, <1>5, HomePhysical
<1>7. ASSUME level > 0
      PROVE  /\ level \in 1 .. 4
             /\ table \in Nat /\ table \in DOMAIN tables
             /\ Physical(table) = table
             /\ InTree(PML4, tables, table)
  <2>1. level \in 1 .. 4
    BY <1>4, <1>7
  <2> HIDE DEF path, level
  <2>2. TreeInv
    BY DEF SoundMaps
  <2>3. Reach(PML4, tables, path, level) # Absent
    BY <1>5, <1>7
  <2>4. LET t == Reach(PML4, tables, path, level)
        IN  /\ t \in DOMAIN tables /\ t \in Nat
            /\ InTree(PML4, tables, t) /\ Physical(t) = t
    BY <1>2, <1>3, <2>1, <2>2, <2>3, TreeTables
  <2> QED
    BY <1>5, <1>7, <2>1, <2>4
<1>8. ASSUME level > 0
      PROVE  TopEntry = Reach(PML4, tables, path, level + 1)
  <2>1. level \in 1 .. 4 /\ table \in Nat /\ table \in DOMAIN tables
        /\ Physical(table) = table
    BY <1>7, <1>8
  <2>2. path[level] = Index(v, level)
    BY <2>1 DEF Path
  <2>3. TopEntry = tables[table][path[level]]
    BY <2>1, <2>2 DEF TopEntry, Entry
  <2>4. table = Reach(PML4, tables, path, level)
    BY <1>5, <1>8
  <2> HIDE DEF path, level, table
  <2>5. Reach(PML4, tables, path, level + 1) = Follow(tables, table, path[level])
    BY <2>1, <2>4, ReachStep
  <2>6. ~(table < 0)
    BY <2>1
  <2> QED
    BY <2>1, <2>3, <2>5, <2>6 DEF Follow
<1> QED
  BY <1>1, <1>2, <1>3, <1>4, <1>5, <1>6, <1>7, <1>8

(* No call faults on a table, and none reads an entry of another page.     *)
LEMMA NoTableFault ==
  ASSUME KernelInv, SoundMaps
  PROVE  ~TableFault /\ ~UnhandledFault /\ ~Runaway
<1> SUFFICES ASSUME TableFault \/ UnhandledFault \/ Runaway
             PROVE  FALSE
  OBVIOUS
<1>1. stack # << >>
  BY DEF TableFault, UnhandledFault, Runaway
<1>2. phase = "pci" => Top.level > 0
  BY <1>1, CallTables, CallFacts DEF CallOK
<1>3. Top.level > 0
  BY <1>2 DEF TableFault, UnhandledFault, Runaway
<1>4. /\ Top.table \in Nat /\ Physical(Top.table) = Top.table
      /\ Top.fresh # Nothing =>
           Top.fresh \in Nat /\ Physical(Top.fresh) = Top.fresh
      /\ Top.level \in 1 .. 4
      /\ TopEntry = Reach(PML4, tables, Path(Top.virtual), Top.level + 1)
      /\ PML4 \in Nat /\ TabsOK(tables) /\ Path(Top.virtual) \in Paths
  BY <1>1, <1>3, CallTables
<1>5. Physical(Accessed) \in Nat
  BY <1>4 DEF Accessed
<1>6. Physical(Accessed) # Absent /\ Physical(Accessed) # Garbage
  BY <1>5 DEF Absent, Garbage
<1>7. Top.level < 4 => TopEntry # Garbage
  <2> DEFINE path == Path(Top.virtual)
             level == Top.level + 1
  <2>1. Top.level < 4 => level \in 1 .. 4
    BY <1>4
  <2>2. TopEntry = Reach(PML4, tables, path, level) /\ path \in Paths
    BY <1>4
  <2> HIDE DEF path, level
  <2>3. Top.level < 4 => Reach(PML4, tables, path, level)
                           \in DOMAIN tables \cup {Absent}
    BY <2>1, <2>2 DEF SoundMaps, TreeInv, Tree
  <2> QED
    BY <1>4, <2>2, <2>3 DEF TabsOK, Absent, Garbage
<1> QED
  BY <1>6, <1>7 DEF TableFault, UnhandledFault, Runaway

(* A step that changes no table, keeps the addressing and claims no new    *)
(* page mapped.                                                            *)
LEMMA SameMaps ==
  ASSUME KernelInv, SoundMaps,
         PML4' = PML4, tables' = tables, memoryMap' = memoryMap,
         Paging' = Paging, granted \subseteq granted',
         enumerated' = enumerated, recovered' = recovered,
         MappedPages' \ InProgress' \subseteq MappedPages \ InProgress,
         phase' = "framebuffer" => fbBase <= next',
         Mapping' => Mapping
  PROVE  TreeInv' /\ MapsInv' /\ IdentityOnly'
<1>1. TreeInv'
  BY TreeStays DEF SoundMaps
<1>2. MapsInv'
  BY SameTables, MapsStay DEF SoundMaps
<1>3. IdentityOnly'
  BY SameTables DEF SoundMaps, IdentityOnly
<1> QED
  BY <1>1, <1>2, <1>3

LEMMA CallMapMemoryMaps ==
  ASSUME KernelInv, SoundMaps, CallMapMemory
  PROVE  SoundMaps'
<1>1. /\ phase \in {"identity", "framebuffer"} /\ phase' = phase
      /\ stack = << >> /\ stack' = <<Call(next, next, 1)>>
      /\ next < LoopEnd /\ next' = next + 1
      /\ PML4' = PML4 /\ tables' = tables /\ memoryMap' = memoryMap
      /\ granted' = granted /\ enumerated' = enumerated
      /\ recovered' = recovered
  BY DEF CallMapMemory, allocVars
<1>2. /\ next \in Nat /\ PML4 \in Nat
      /\ GetMemorySize(memoryMap) \in Nat /\ memoryMap \in MemoryMaps
      /\ fbBase \in Nat /\ fbEnd \in Nat
  BY KernelTypes DEF KernelInv, TypeOK
<1>3. ~Paging /\ ~Paging' /\ Paging' = Paging
  BY <1>1 DEF Paging
<1>4. next \in Virtual
  <2>1. CASE phase = "identity"
    <3>1. next \in 0 .. GetMemorySize(memoryMap) - 1
      BY <1>1, <1>2, <2>1 DEF LoopEnd
    <3> QED
      BY <1>2, <3>1, KernelAssumption
  <2>2. CASE phase = "framebuffer"
    <3>1. next <= fbEnd /\ fbEnd \in Virtual
      BY <1>1, <1>2, <2>2, KernelAssumption DEF LoopEnd
    <3> DEFINE top == Fan * (Fan * (Fan * Fan))
    <3>2. top \in Int /\ Virtual = 0 .. top - 1
      <4>1. Fan \in Nat
        BY KernelAssumption
      <4> QED
        BY <4>1 DEF Virtual
    <3> HIDE DEF top
    <3> QED
      BY <1>2, <3>1, <3>2
  <2> QED
    BY <1>1, <2>1, <2>2
<1>5. Top'.virtual = next
  BY <1>1, SingleCallNext DEF Call
<1>6. InProgress = {} /\ InProgress' = {next}
  BY <1>1, <1>3, <1>5 DEF InProgress
<1>7. MappedPages' \ InProgress' \subseteq MappedPages \ InProgress
  BY <1>1, <1>2, <1>6 DEF MappedPages
<1>8. phase' = "framebuffer" => fbBase <= next'
  BY <1>1, <1>2 DEF SoundMaps, MapsInv
<1>9. TreeInv' /\ MapsInv' /\ IdentityOnly'
  BY <1>1, <1>3, <1>7, <1>8, SameMaps DEF Mapping
<1>10. CallInv'
  <2>1. phase' # "running" /\ next = next' - 1
    BY <1>1, <1>2
  <2>2. 1 \in 0 .. 1 /\ ~(1 = 0)
    OBVIOUS
  <2> QED
    BY <1>1, <1>2, <1>4, <2>1, <2>2, NewCall
<1> QED
  BY <1>9, <1>10 DEF SoundMaps

LEMMA EndLoopMaps ==
  ASSUME KernelInv, SoundMaps, EndLoop
  PROVE  SoundMaps'
<1>1. /\ phase \in {"identity", "framebuffer"}
      /\ stack = << >> /\ stack' = << >>
      /\ next >= LoopEnd
      /\ PML4' = PML4 /\ tables' = tables /\ memoryMap' = memoryMap
      /\ granted' = granted /\ enumerated' = enumerated
      /\ recovered' = recovered
  BY DEF EndLoop, allocVars
<1>2. /\ next \in Nat
      /\ GetMemorySize(memoryMap) \in Nat
      /\ fbBase \in Nat /\ fbEnd \in Nat
  BY KernelTypes DEF KernelInv, TypeOK
<1>3. InProgress = {} /\ InProgress' = {}
  BY <1>1 DEF InProgress
<1>4. CallInv'
  BY <1>1 DEF CallInv
<1>5. CASE phase = "identity"
  <2>1. phase' = "framebuffer" /\ next' = fbBase
    BY <1>5 DEF EndLoop
  <2>2. Paging' = Paging
    BY <1>5, <2>1 DEF Paging
  <2>3. MappedPages' \ InProgress' \subseteq MappedPages \ InProgress
    BY <1>1, <1>2, <1>3, <1>5, <2>1 DEF MappedPages, LoopEnd
  <2>4. TreeInv' /\ MapsInv' /\ IdentityOnly'
    BY <1>1, <1>2, <1>5, <2>1, <2>2, <2>3, SameMaps DEF Mapping
  <2> QED
    BY <1>4, <2>4 DEF SoundMaps
<1>6. CASE phase = "framebuffer"
  <2>1. phase' = "pci" /\ next' = next /\ next > fbEnd /\ fbBase <= next
    BY <1>1, <1>2, <1>6 DEF EndLoop, LoopEnd, SoundMaps, MapsInv
  <2>2. ~Paging /\ Paging'
    BY <1>6, <2>1 DEF Paging
  <2>3. IdentityMapped \subseteq MappedPages /\ IdentityMapped' = IdentityMapped
    BY <1>1, <1>2, <1>6, <2>1 DEF IdentityMapped, MappedPages
  <2>4. MappedPages' = IdentityMapped
    BY <2>1, <2>2, <2>3 DEF MappedPages
  <2>5. \A v : Walk(v)' = Walk(v)
    BY <1>1, SameTables
  <2>6. MapsInv'
    BY <1>1, <1>3, <2>1, <2>3, <2>4, <2>5, MapsStay DEF SoundMaps
  <2>7. TreeInv'
    <3>1. /\ \A page : InTree(PML4', tables', page)
                         <=> InTree(PML4, tables, page)
          /\ Tree(PML4', tables') <=> Tree(PML4, tables)
      BY <1>1, SameTables
    <3>2. ASSUME NEW page \in Nat, InTree(PML4', tables', page)
          PROVE  page \in granted' /\ TableHome(page)'
      <4>1. page \in granted /\ TableHome(page)
        BY <3>1, <3>2 DEF SoundMaps, TreeInv
      <4>2. page # NoPage /\ page \in IdentityMapped
        BY <2>2, <4>1 DEF TableHome
      <4>3. Walk(page)' = page
        BY <1>3, <2>3, <2>5, <4>2 DEF SoundMaps, MapsInv
      <4> QED
        BY <1>1, <2>2, <4>1, <4>2, <4>3 DEF TableHome
    <3>3. Tree(PML4', tables')
      BY <3>1 DEF SoundMaps, TreeInv
    <3> QED
      BY <3>2, <3>3 DEF TreeInv
  <2>8. IdentityOnly'
    BY <1>1, <1>6, SameTables DEF SoundMaps, IdentityOnly, Mapping
  <2> QED
    BY <1>4, <2>6, <2>7, <2>8 DEF SoundMaps
<1> QED
  BY <1>1, <1>5, <1>6

LEMMA EnumerateFunctionMaps ==
  ASSUME KernelInv, SoundMaps, NEW page \in ConfigPages, EnumerateFunction(page)
  PROVE  SoundMaps'
<1>1. /\ phase = "pci" /\ phase' = "pci"
      /\ stack = << >> /\ stack' = <<Call(page, page, 1)>>
      /\ PML4' = PML4 /\ tables' = tables /\ memoryMap' = memoryMap
      /\ granted' = granted /\ enumerated' = enumerated
      /\ recovered' = recovered
  BY DEF EnumerateFunction, allocVars
<1>2. page \in Virtual /\ PML4 \in Nat
  BY KernelAssumption, KernelTypes DEF TablesOK
<1>3. Paging /\ Paging' /\ Paging' = Paging
  BY <1>1 DEF Paging
<1>4. MappedPages' \ InProgress' \subseteq MappedPages \ InProgress
  BY <1>1, <1>3 DEF MappedPages, InProgress, IdentityMapped
<1>5. TreeInv' /\ MapsInv' /\ IdentityOnly'
  BY <1>1, <1>3, <1>4, SameMaps DEF Mapping
<1>6. CallInv'
  <2>1. 1 \in 0 .. 1 /\ ~(1 = 0)
    OBVIOUS
  <2> QED
    BY <1>1, <1>2, <1>3, <2>1, NewCall
<1> QED
  BY <1>5, <1>6 DEF SoundMaps

LEMMA PageFaultMaps ==
  ASSUME KernelInv, SoundMaps, NEW virtual \in Touched, PageFault(virtual)
  PROVE  SoundMaps'
<1>1. /\ phase = "running" /\ phase' = "running"
      /\ stack = << >> /\ stack' = <<Call(virtual, NoPage, 0)>>
      /\ Walk(virtual) = Absent
      /\ PML4' = PML4 /\ tables' = tables /\ memoryMap' = memoryMap
      /\ granted' = granted /\ enumerated' = enumerated
      /\ recovered' = recovered
  BY DEF PageFault, allocVars
<1>2. virtual \in Virtual /\ PML4 \in Nat
  BY KernelAssumption, KernelTypes DEF TablesOK
<1>3. Paging /\ Paging' /\ Paging' = Paging
  BY <1>1 DEF Paging
<1>4. MappedPages' \ InProgress' \subseteq MappedPages \ InProgress
  BY <1>1, <1>3 DEF MappedPages, InProgress, IdentityMapped
<1>5. TreeInv' /\ MapsInv' /\ IdentityOnly'
  BY <1>1, <1>3, <1>4, SameMaps DEF Mapping
<1>6. CallInv'
  <2>1. 0 \in 0 .. 1
    OBVIOUS
  <2>2. Walk(virtual)' = Absent
    BY <1>1, SameTables
  <2> QED
    BY <1>1, <1>2, <1>3, <2>1, <2>2, NewCall
<1> QED
  BY <1>5, <1>6 DEF SoundMaps

(* With no call in progress, the end of EnumeratePCI and the page of the   *)
(* IDT leave the tables alone.                                             *)
LEMMA PrepareInterruptsMaps ==
  ASSUME KernelInv, SoundMaps, EndPCI \/ PrepareInterrupts
  PROVE  SoundMaps'
<1>1. /\ phase \in {"pci", "idt"}
      /\ phase' \in {"idt", "reset", "running"}
      /\ stack = << >> /\ stack' = << >>
      /\ PML4' = PML4 /\ tables' = tables
      /\ enumerated' = enumerated /\ recovered' = recovered
  BY DEF EndPCI, PrepareInterrupts, KernelInv, Idle
<1>2. memoryMap' = memoryMap /\ granted \subseteq granted'
  <2>1. AllocInv
    BY DEF KernelInv
  <2>2. CASE EndPCI
    BY <2>2 DEF EndPCI, allocVars
  <2>3. CASE PrepareInterrupts
    BY <2>1, <2>3, BorrowStep, BorrowGives DEF PrepareInterrupts
  <2> QED
    BY <2>2, <2>3
<1>3. Paging /\ Paging' /\ Paging' = Paging
  BY <1>1 DEF Paging
<1>4. MappedPages' \ InProgress' \subseteq MappedPages \ InProgress
  BY <1>1, <1>2, <1>3 DEF MappedPages, InProgress, IdentityMapped
<1>5. TreeInv' /\ MapsInv' /\ IdentityOnly'
  BY <1>1, <1>2, <1>3, <1>4, SameMaps DEF Mapping
<1>6. CallInv'
  BY <1>1 DEF CallInv
<1> QED
  BY <1>5, <1>6 DEF SoundMaps

(* The address a call maps stays with the call.                            *)
LEMMA SameAddress ==
  ASSUME stack # << >>, NEW d, stack' = <<d>>, d.virtual = Top.virtual,
         phase' = phase, memoryMap' = memoryMap, next' = next
  PROVE  /\ Top' = d
         /\ InProgress' = InProgress
         /\ MappedPages' = MappedPages
         /\ Paging' = Paging
         /\ Mapping' = Mapping
<1>1. Top' = d
  BY SingleCallNext
<1>2. Paging' = Paging /\ Mapping' = Mapping
  BY DEF Paging, Mapping
<1>3. stack' # << >>
  OBVIOUS
<1>4. InProgress' = InProgress
  BY <1>1, <1>2, <1>3 DEF InProgress
<1>5. MappedPages' = MappedPages
  BY <1>2 DEF MappedPages, IdentityMapped
<1> QED
  BY <1>1, <1>2, <1>4, <1>5

LEMMA DescendMaps ==
  ASSUME KernelInv, SoundMaps, Descend
  PROVE  SoundMaps'
<1>1. /\ stack # << >> /\ Top.level \in 1 .. 3
      /\ Top.fresh = Nothing /\ TopEntry >= 0
      /\ stack' = ReplaceTop([Top EXCEPT !.table = TopEntry, !.level = @ + 1])
      /\ phase' = phase /\ next' = next
      /\ PML4' = PML4 /\ tables' = tables /\ memoryMap' = memoryMap
      /\ granted' = granted /\ enumerated' = enumerated
      /\ recovered' = recovered
  BY DEF Descend, allocVars
<1>2. /\ stack = <<Top>> /\ CallOK(Top) /\ Top \in Calls
      /\ TopEntry = Reach(PML4, tables, Path(Top.virtual), Top.level + 1)
  BY <1>1, CallTables, CallFacts DEF LiveCalls
<1> DEFINE top == Top
           entry == TopEntry
           d == [top EXCEPT !.table = entry, !.level = @ + 1]
<1>3. stack' = <<d>>
  BY <1>1, <1>2, SingleCall
<1>4. top \in Calls /\ ~top.zeroed /\ top.fresh = Nothing
  BY <1>1, <1>2, CallFacts DEF CallOK
<1> HIDE DEF top, entry
<1>5. /\ d.virtual = top.virtual /\ d.physical = top.physical
      /\ d.level = top.level + 1 /\ d.table = entry
      /\ d.fresh = Nothing /\ ~d.zeroed
  BY <1>4 DEF Calls
<1> HIDE DEF d
<1>6. /\ Top' = d /\ InProgress' = InProgress /\ MappedPages' = MappedPages
      /\ Paging' = Paging /\ Mapping' = Mapping
  BY <1>1, <1>3, <1>5, SameAddress DEF top
<1>7. TreeInv' /\ MapsInv' /\ IdentityOnly'
  <2>1. phase' = "framebuffer" => fbBase <= next'
    BY <1>1 DEF SoundMaps, MapsInv
  <2> QED
    BY <1>1, <1>6, <2>1, SameMaps
<1>8. CallOK(Top)'
  <2>1. d.level \in 2 .. 4 /\ entry # Absent
    BY <1>1, <1>5 DEF top, entry, Absent
  <2>2. Reach(PML4', tables', Path(d.virtual), d.level) = entry
    BY <1>1, <1>2, <1>5 DEF top, entry
  <2> QED
    BY <1>1, <1>2, <1>5, <1>6, <2>1, <2>2 DEF CallOK, top
<1> QED
  BY <1>3, <1>6, <1>7, <1>8 DEF SoundMaps, CallInv

(* Every page of memory but page 0 is a place for a table.                 *)
LEMMA MemoryHomes ==
  ASSUME KernelInv, SoundMaps
  PROVE  \A p \in 0 .. GetMemorySize(memoryMap) - 1 :
            p # NoPage => TableHome(p)
<1> SUFFICES ASSUME NEW p \in 0 .. GetMemorySize(memoryMap) - 1, p # NoPage
             PROVE  TableHome(p)
  OBVIOUS
<1>1. p \in IdentityMapped
  BY DEF IdentityMapped
<1>2. CASE Paging
  <2>1. MappedPages = IdentityMapped /\ InProgress = {}
    BY <1>2 DEF MappedPages, InProgress, Paging
  <2> QED
    BY <1>1, <1>2, <2>1 DEF SoundMaps, MapsInv, TableHome
<1>3. CASE ~Paging
  BY <1>1, <1>3 DEF TableHome
<1> QED
  BY <1>2, <1>3

LEMMA BorrowTableMaps ==
  ASSUME KernelInv, SoundMaps, ~spoiled, BorrowTable
  PROVE  /\ ~spoiled' => SoundMaps'
         /\ spoiled' => Exhausted'
<1>1. /\ stack # << >> /\ Top.level \in 1 .. 3
      /\ Top.fresh = Nothing /\ TopEntry = Absent
      /\ Borrow
      /\ stack' = ReplaceTop([Top EXCEPT !.fresh = returned'])
      /\ phase' = phase /\ next' = next
      /\ PML4' = PML4 /\ tables' = tables
      /\ enumerated' = enumerated /\ recovered' = recovered
  BY DEF BorrowTable
<1>2. spoiled' <=> ~TableHome(returned')
  <2>1. spoiled' = (spoiled \/ ~TableHome(returned'))
    BY Zenon DEF BorrowTable
  <2> QED
    BY <2>1, Zenon
<1>3. AllocInv /\ memoryMap' = memoryMap /\ granted \subseteq granted'
      /\ returned' \in Nat
  BY <1>1, BorrowStep, BorrowGives DEF KernelInv
<1>4. spoiled' => Exhausted'
  BY <1>1, <1>2, <1>3, MemoryHomes, BorrowExhausts DEF Paging
<1>5. ASSUME ~spoiled'
      PROVE  SoundMaps'
  <2>1. TableHome(returned')
    BY <1>2, <1>5
  <2>2. returned' \notin granted /\ returned' \in granted'
    BY <1>1, <1>3, <2>1, BorrowGives DEF TableHome
  <2>3. ~InTree(PML4, tables, returned')
    BY <1>3, <2>2 DEF SoundMaps, TreeInv
  <2>4. /\ stack = <<Top>> /\ CallOK(Top) /\ Top \in Calls
        /\ TopEntry = Reach(PML4, tables, Path(Top.virtual), Top.level + 1)
    BY <1>1, CallTables, CallFacts DEF LiveCalls
  <2>11. PICK page : page = returned'
    OBVIOUS
  <2> DEFINE top == Top
             d == [top EXCEPT !.fresh = page]
  <2>5. stack' = <<d>>
    BY <1>1, <2>4, <2>11, SingleCall
  <2>6. top \in Calls /\ ~top.zeroed
    BY <1>1, <2>4, CallFacts DEF CallOK
  <2> HIDE DEF top
  <2>7. /\ d.virtual = top.virtual /\ d.physical = top.physical
        /\ d.level = top.level /\ d.table = top.table
        /\ d.fresh = page /\ ~d.zeroed
    BY <2>6 DEF Calls
  <2> HIDE DEF d
  <2>8. /\ Top' = d /\ InProgress' = InProgress /\ MappedPages' = MappedPages
        /\ Paging' = Paging /\ Mapping' = Mapping
    BY <1>1, <1>3, <2>5, <2>7, SameAddress DEF top
  <2>9. TreeInv' /\ MapsInv' /\ IdentityOnly'
    <3>1. phase' = "framebuffer" => fbBase <= next'
      BY <1>1 DEF SoundMaps, MapsInv
    <3> QED
      BY <1>1, <1>3, <2>8, <3>1, SameMaps
  <2>10. CallOK(Top)'
    <3>1. d.level \in 1 .. 3
      BY <1>1, <2>7 DEF top
    <3>2. Reach(PML4', tables', Path(d.virtual), d.level) = d.table
          /\ d.table # Absent
      BY <1>1, <2>4, <2>7 DEF top, CallOK
    <3>3. Reach(PML4', tables', Path(d.virtual), d.level + 1) = Absent
      BY <1>1, <2>4, <2>7 DEF top
    <3>4. page \in granted' /\ ~InTree(PML4', tables', page)
      BY <1>1, <2>2, <2>3, <2>11, SameTables
    <3>5. TableHome(page)'
      <4>1. Walk(page)' = Walk(page)
        BY <1>1, SameTables
      <4>2. TableHome(page)
        BY <2>1, <2>11
      <4> QED
        BY <1>3, <2>8, <4>1, <4>2, HomeStays
    <3> QED
      BY <1>1, <2>4, <2>7, <2>8, <3>1, <3>2, <3>3, <3>4, <3>5
      DEF CallOK, top
  <2> QED
    BY <2>5, <2>8, <2>9, <2>10 DEF SoundMaps, CallInv
<1> QED
  BY <1>4, <1>5

(* Every address has four indices.                                         *)
LEMMA NatPath ==
  ASSUME NEW v \in Nat
  PROVE  Path(v) \in Paths
  BY IndexType DEF Path, Paths

(* The tree invariant over a step that writes tables: the tables stay      *)
(* where they are, and what is added is a page granted and at home.        *)
LEMMA HomesStay ==
  ASSUME TreeInv, granted \subseteq granted', Tree(PML4', tables'),
         NEW added,
         \A page \in Nat : InTree(PML4', tables', page) =>
            \/ InTree(PML4, tables, page)
            \/ page = added /\ page \in granted /\ TableHome(page),
         \A page \in Nat : TableHome(page) => TableHome(page)'
  PROVE  TreeInv'
<1>1. ASSUME NEW page \in Nat, InTree(PML4', tables', page)
      PROVE  page \in granted' /\ TableHome(page)'
  <2>1. page \in granted /\ TableHome(page)
    BY <1>1 DEF TreeInv
  <2> QED
    BY <2>1
<1> QED
  BY <1>1 DEF TreeInv

(* The walks after memset of a new table: as before.                       *)
LEMMA ClearTableWalks ==
  ASSUME KernelInv, SoundMaps, ClearTable
  PROVE  \E page \in Nat :
            /\ page = Top.fresh /\ ~InTree(PML4, tables, page)
            /\ tables' = Put(tables, page, ZeroTable)
            /\ Tree(PML4', tables')
            /\ \A p \in Paths, k \in 1 .. 5 :
                 Reach(PML4', tables', p, k) = Reach(PML4, tables, p, k)
<1>1. /\ stack # << >> /\ Top.fresh # Nothing
      /\ tables' = Put(tables, Physical(Top.fresh), ZeroTable)
      /\ PML4' = PML4
  BY DEF ClearTable
<1>2. /\ CallOK(Top) /\ Top.fresh \in Nat
      /\ Physical(Top.fresh) = Top.fresh
      /\ PML4 \in Nat /\ TabsOK(tables)
  BY <1>1, CallTables
<1>3. PICK page : page = Top.fresh
  OBVIOUS
<1>4. /\ page \in Nat /\ ~InTree(PML4, tables, page)
      /\ tables' = Put(tables, page, ZeroTable)
  BY <1>1, <1>2, <1>3 DEF CallOK
<1>5. /\ Tree(PML4', tables')
      /\ \A p \in Paths, k \in 1 .. 5 :
           Reach(PML4', tables', p, k) = Reach(PML4, tables, p, k)
  BY <1>1, <1>2, <1>4, ClearEffect DEF SoundMaps, TreeInv
<1> QED
  BY <1>3, <1>4, <1>5

LEMMA ClearTableMaps ==
  ASSUME KernelInv, SoundMaps, ClearTable
  PROVE  SoundMaps'
<1>1. /\ stack # << >> /\ Top.fresh # Nothing
      /\ tables' = Put(tables, Physical(Top.fresh), ZeroTable)
      /\ stack' = ReplaceTop([Top EXCEPT !.zeroed = TRUE])
      /\ phase' = phase /\ next' = next
      /\ PML4' = PML4 /\ memoryMap' = memoryMap
      /\ granted' = granted /\ enumerated' = enumerated
      /\ recovered' = recovered
  BY DEF ClearTable, allocVars
<1>2. /\ stack = <<Top>> /\ CallOK(Top) /\ Top \in Calls
      /\ Top.level \in 1 .. 3 /\ Top.fresh \in Nat
      /\ Physical(Top.fresh) = Top.fresh
      /\ Path(Top.virtual) \in Paths
      /\ PML4 \in Nat /\ TabsOK(tables)
  BY <1>1, CallTables, CallFacts DEF LiveCalls
<1>3. PICK page \in Nat :
         /\ page = Top.fresh /\ ~InTree(PML4, tables, page)
         /\ tables' = Put(tables, page, ZeroTable)
         /\ Tree(PML4', tables')
         /\ \A p \in Paths, k \in 1 .. 5 :
              Reach(PML4', tables', p, k) = Reach(PML4, tables, p, k)
  BY ClearTableWalks
<1>4. /\ page \in Nat /\ ~InTree(PML4, tables, page)
      /\ tables' = Put(tables, page, ZeroTable)
  BY <1>3
<1>5. /\ Tree(PML4', tables')
      /\ \A p \in Paths, k \in 1 .. 5 :
           Reach(PML4', tables', p, k) = Reach(PML4, tables, p, k)
  BY <1>3
<1>6. \A q \in Nat : InTree(PML4', tables', q) <=> InTree(PML4, tables, q)
  <2>1. \A k \in 1 .. 4 : k \in 1 .. 5
    OBVIOUS
  <2> QED
    BY <1>5, <2>1 DEF InTree
<1>7. ASSUME NEW q \in Nat
      PROVE  Walk(q)' = Walk(q)
  <2>1. 5 \in 1 .. 5
    OBVIOUS
  <2> QED
    BY <1>5, <2>1, NatPath, WalkReach, WalkReachNext
<1> DEFINE top == Top
           d == [top EXCEPT !.zeroed = TRUE]
<1>8. stack' = <<d>>
  BY <1>1, <1>2, SingleCall
<1>9. top \in Calls
  BY <1>2
<1> HIDE DEF top
<1>10. /\ d.virtual = top.virtual /\ d.physical = top.physical
       /\ d.level = top.level /\ d.table = top.table
       /\ d.fresh = top.fresh /\ d.zeroed
  BY <1>9 DEF Calls
<1> HIDE DEF d
<1>11. /\ Top' = d /\ InProgress' = InProgress /\ MappedPages' = MappedPages
       /\ Paging' = Paging /\ Mapping' = Mapping
  BY <1>1, <1>8, <1>10, SameAddress DEF top
<1>12. TreeInv'
  <2>1. \A q \in Nat : TableHome(q) => TableHome(q)'
    BY <1>1, <1>7, <1>11, HomeStays
  <2> QED
    BY <1>1, <1>5, <1>6, <2>1, HomesStay DEF SoundMaps
<1>13. MapsInv'
  <2>1. \A v \in Virtual : Walk(v)' = Walk(v)
    BY <1>7 DEF Virtual
  <2>2. phase' = "framebuffer" => fbBase <= next'
    BY <1>1 DEF SoundMaps, MapsInv
  <2> QED
    BY <1>1, <1>11, <2>1, <2>2, MapsStay DEF SoundMaps
<1>14. IdentityOnly'
  <2>1. 5 \in 1 .. 5
    OBVIOUS
  <2> QED
    BY <1>1, <1>5, <1>11, <2>1 DEF SoundMaps, IdentityOnly
<1>15. CallOK(Top)'
  <2>1. top.level \in 1 .. 3 /\ top.level \in 1 .. 5 /\ top.level + 1 \in 1 .. 5
    BY <1>2 DEF top
  <2>2. /\ Reach(PML4', tables', Path(d.virtual), d.level) = d.table
        /\ d.table # Absent
        /\ Reach(PML4', tables', Path(d.virtual), d.level + 1) = Absent
    BY <1>1, <1>2, <1>5, <1>10, <2>1 DEF top, CallOK
  <2>3. /\ d.fresh = page /\ page \in granted' /\ page # Nothing
        /\ ~InTree(PML4', tables', page)
    BY <1>1, <1>2, <1>3, <1>4, <1>6, <1>10 DEF top, CallOK
  <2>4. TableHome(page)'
    <3>1. TableHome(page)
      BY <1>1, <1>2, <1>3 DEF CallOK
    <3> QED
      BY <1>1, <1>4, <1>7, <1>11, <3>1, HomeStays
  <2>5. page \in DOMAIN tables' /\ tables'[page] = ZeroTable
    BY <1>4 DEF Put
  <2>6. phase = "running" =>
          Reach(PML4', tables', Path(d.virtual), 5) = Absent
    BY <1>1, <1>2, <1>5, <1>10, <2>1 DEF top, CallOK
  <2> QED
    BY <1>1, <1>2, <1>10, <1>11, <2>1, <2>2, <2>3, <2>4, <2>5, <2>6
    DEF CallOK, top
<1> QED
  BY <1>8, <1>11, <1>12, <1>13, <1>14, <1>15 DEF SoundMaps, CallInv

(* The walks after a new table is linked.                                  *)
LEMMA LinkTableWalks ==
  ASSUME KernelInv, SoundMaps, LinkTable
  PROVE  \E page \in Nat, path \in Paths, level \in 1 .. 3, table \in Nat :
            /\ page = Top.fresh /\ path = Path(Top.virtual)
            /\ level = Top.level /\ table = Top.table
            /\ table = Reach(PML4, tables, path, level)
            /\ Reach(PML4, tables, path, level + 1) = Absent
            /\ page \in granted /\ TableHome(page)
            /\ DOMAIN tables' = DOMAIN tables
            /\ Tree(PML4', tables')
            /\ \A p \in Paths, k \in 1 .. 5 :
                 Reach(PML4', tables', p, k)
                   = IF SamePath(p, path, level + 1) /\ k = level + 1 THEN page
                     ELSE Reach(PML4, tables, p, k)
<1>1. /\ stack # << >> /\ Top.fresh # Nothing /\ Top.zeroed
      /\ tables' = Write(Physical(Top.table), Index(Top.virtual, Top.level),
                         Top.fresh)
      /\ PML4' = PML4
  BY DEF LinkTable
<1>2. /\ CallOK(Top)
      /\ Top.level \in 1 .. 3 /\ Top.fresh \in Nat
      /\ Top.table \in Nat /\ Top.table # Absent
      /\ Top.table = Reach(PML4, tables, Path(Top.virtual), Top.level)
      /\ Physical(Top.table) = Top.table
      /\ Path(Top.virtual) \in Paths
      /\ PML4 \in Nat /\ TabsOK(tables)
  BY <1>1, CallTables
<1>3. PICK page, path, level, table :
         page = Top.fresh /\ path = Path(Top.virtual) /\ level = Top.level
         /\ table = Top.table
  OBVIOUS
<1>4. /\ page \in Nat /\ path \in Paths /\ level \in 1 .. 3
      /\ table = Reach(PML4, tables, path, level) /\ table # Absent
      /\ Reach(PML4, tables, path, level + 1) = Absent
      /\ page \in DOMAIN tables /\ tables[page] = ZeroTable
      /\ ~InTree(PML4, tables, page)
      /\ page \in granted /\ TableHome(page) /\ page # Absent
  BY <1>1, <1>2, <1>3 DEF CallOK, Absent
<1>5. tables' = Overwrite(tables, table, path[level], page)
  <2>1. path[level] = Index(Top.virtual, Top.level)
    BY <1>3, <1>4 DEF Path
  <2>2. tables' = Write(table, path[level], page)
    BY <1>1, <1>2, <1>3, <2>1
  <2> QED
    BY <2>2, Zenon DEF Write, Overwrite
<1>6. /\ DOMAIN tables' = DOMAIN tables
      /\ Tree(PML4', tables')
      /\ \A p \in Paths, k \in 1 .. 5 :
           Reach(PML4', tables', p, k)
             = IF SamePath(p, path, level + 1) /\ k = level + 1 THEN page
               ELSE Reach(PML4, tables, p, k)
  <2>1. Tree(PML4, tables)
    BY DEF SoundMaps, TreeInv
  <2>2. PML4' = PML4 /\ PML4 \in Nat /\ TabsOK(tables)
    BY <1>1, <1>2
  <2> QED
    BY <1>4, <1>5, <2>1, <2>2, LinkEffect
<1> QED
  BY <1>2, <1>3, <1>4, <1>6

LEMMA LinkTableMaps ==
  ASSUME KernelInv, SoundMaps, LinkTable
  PROVE  SoundMaps'
<1>1. /\ stack # << >> /\ Top.fresh # Nothing /\ Top.zeroed
      /\ tables' = Write(Physical(Top.table), Index(Top.virtual, Top.level),
                         Top.fresh)
      /\ stack' = ReplaceTop([Top EXCEPT !.table = Top.fresh, !.level = @ + 1,
                                         !.fresh = Nothing, !.zeroed = FALSE])
      /\ phase' = phase /\ next' = next
      /\ PML4' = PML4 /\ memoryMap' = memoryMap
      /\ granted' = granted /\ enumerated' = enumerated
      /\ recovered' = recovered
  BY DEF LinkTable, allocVars
<1>2. /\ stack = <<Top>> /\ CallOK(Top) /\ Top \in Calls
      /\ Top.level \in 1 .. 3 /\ Top.fresh \in Nat
      /\ Top.table \in Nat /\ Top.table # Absent
      /\ Top.table = Reach(PML4, tables, Path(Top.virtual), Top.level)
      /\ Physical(Top.table) = Top.table
      /\ Path(Top.virtual) \in Paths
      /\ PML4 \in Nat /\ TabsOK(tables)
  BY <1>1, CallTables, CallFacts DEF LiveCalls
<1>3. PICK page \in Nat, path \in Paths, level \in 1 .. 3, table \in Nat :
         /\ page = Top.fresh /\ path = Path(Top.virtual)
         /\ level = Top.level /\ table = Top.table
         /\ table = Reach(PML4, tables, path, level)
         /\ Reach(PML4, tables, path, level + 1) = Absent
         /\ page \in granted /\ TableHome(page)
         /\ DOMAIN tables' = DOMAIN tables
         /\ Tree(PML4', tables')
         /\ \A p \in Paths, k \in 1 .. 5 :
              Reach(PML4', tables', p, k)
                = IF SamePath(p, path, level + 1) /\ k = level + 1 THEN page
                  ELSE Reach(PML4, tables, p, k)
  BY LinkTableWalks
<1>4. page # Absent /\ page \in granted /\ TableHome(page)
  BY <1>3 DEF Absent
<1>6. /\ Tree(PML4', tables')
      /\ \A p \in Paths, k \in 1 .. 5 :
           Reach(PML4', tables', p, k)
             = IF SamePath(p, path, level + 1) /\ k = level + 1 THEN page
               ELSE Reach(PML4, tables, p, k)
  BY <1>3
<1>7. \A q \in Nat : InTree(PML4', tables', q) =>
         \/ InTree(PML4, tables, q)
         \/ q = page /\ q \in granted /\ TableHome(q)
  <2>1. \A k \in 1 .. 4 : k \in 1 .. 5
    OBVIOUS
  <2> QED
    BY <1>4, <1>6, <2>1 DEF InTree
<1>8. \A p \in Paths : Reach(PML4', tables', p, 5) = Reach(PML4, tables, p, 5)
  <2>1. 5 \in 1 .. 5 /\ 5 # level + 1
    BY <1>4
  <2> QED
    BY <1>6, <2>1
<1>9. ASSUME NEW q \in Nat
      PROVE  Walk(q)' = Walk(q)
  BY <1>8, NatPath, WalkReach, WalkReachNext
<1> DEFINE top == Top
           d == [top EXCEPT !.table = page, !.level = @ + 1,
                            !.fresh = Nothing, !.zeroed = FALSE]
<1>10. stack' = <<d>>
  BY <1>1, <1>2, <1>3, SingleCall
<1>11. top \in Calls
  BY <1>2
<1> HIDE DEF top
<1>12. /\ d.virtual = top.virtual /\ d.physical = top.physical
       /\ d.level = top.level + 1 /\ d.table = page
       /\ d.fresh = Nothing /\ ~d.zeroed
  BY <1>11 DEF Calls
<1> HIDE DEF d
<1>13. /\ Top' = d /\ InProgress' = InProgress /\ MappedPages' = MappedPages
       /\ Paging' = Paging /\ Mapping' = Mapping
  BY <1>1, <1>10, <1>12, SameAddress DEF top
<1>14. TreeInv'
  <2>1. \A q \in Nat : TableHome(q) => TableHome(q)'
    BY <1>1, <1>9, <1>13, HomeStays
  <2>2. TreeInv /\ granted \subseteq granted' /\ Tree(PML4', tables')
    BY <1>1, <1>6 DEF SoundMaps
  <2> QED
    BY <1>7, <2>1, <2>2, HomesStay
<1>15. MapsInv'
  <2>1. \A v \in Virtual : Walk(v)' = Walk(v)
    BY <1>9 DEF Virtual
  <2>2. phase' = "framebuffer" => fbBase <= next'
    BY <1>1 DEF SoundMaps, MapsInv
  <2> QED
    BY <1>1, <1>13, <2>1, <2>2, MapsStay DEF SoundMaps
<1>16. IdentityOnly'
  BY <1>1, <1>8, <1>13 DEF SoundMaps, IdentityOnly
<1>17. CallOK(Top)'
  <2>1. d.level = level + 1 /\ level + 1 \in 1 .. 5 /\ Path(d.virtual) = path
    BY <1>3, <1>4, <1>12 DEF top
  <2>2. Reach(PML4', tables', path, level + 1) = page
    <3>1. SamePath(path, path, level + 1)
      BY DEF SamePath
    <3> QED
      BY <1>4, <1>6, <2>1, <3>1
  <2>3. phase = "running" => Reach(PML4', tables', path, 5) = Absent
    BY <1>2, <1>3, <1>4, <1>8 DEF CallOK
  <2> QED
    BY <1>1, <1>2, <1>4, <1>12, <1>13, <2>1, <2>2, <2>3 DEF CallOK, top
<1> QED
  BY <1>10, <1>13, <1>14, <1>15, <1>16, <1>17 DEF SoundMaps, CallInv

(* The walks after the last level's entry is written.                      *)
LEMMA MapPageWalks ==
  ASSUME KernelInv, SoundMaps, MapPage
  PROVE  \E v \in Virtual, page \in Nat, path \in Paths :
            /\ v = Top.virtual /\ page = Top.physical /\ path = Path(v)
            /\ phase = "running" => Reach(PML4, tables, path, 5) = Absent
            /\ phase # "running" => page = v
            /\ DOMAIN tables' = DOMAIN tables
            /\ Tree(PML4', tables')
            /\ \A p \in Paths : \A k \in 1 .. 4 :
                 Reach(PML4', tables', p, k) = Reach(PML4, tables, p, k)
            /\ Reach(PML4', tables', path, 5) = page
            /\ \A p \in Paths : p # path =>
                 Reach(PML4', tables', p, 5) = Reach(PML4, tables, p, 5)
<1>1. /\ stack # << >> /\ Top.level = 4
      /\ tables' = Write(Physical(Top.table), Index(Top.virtual, 4),
                         Top.physical)
      /\ stack' = Below
      /\ phase' = phase /\ next' = next
      /\ PML4' = PML4 /\ memoryMap' = memoryMap /\ granted' = granted
      /\ enumerated' = IF phase = "pci" THEN enumerated \cup {Top.virtual}
                       ELSE enumerated
      /\ recovered' = IF phase = "running"
                      THEN Put(recovered, Top.virtual, Top.physical)
                      ELSE recovered
  BY DEF MapPage, allocVars
<1>2. /\ stack = <<Top>> /\ CallOK(Top)
      /\ Top.table \in Nat /\ Top.table # Absent
      /\ Top.table = Reach(PML4, tables, Path(Top.virtual), 4)
      /\ Physical(Top.table) = Top.table
      /\ Top.virtual \in Virtual /\ Path(Top.virtual) \in Paths
      /\ PML4 \in Nat /\ TabsOK(tables)
      /\ Top.physical \in Nat
      /\ phase \in {"identity", "framebuffer", "pci", "running"}
  BY <1>1, CallTables, CallFacts
<1>3. PICK v, page, path, table :
         v = Top.virtual /\ page = Top.physical /\ path = Path(Top.virtual)
         /\ table = Top.table
  OBVIOUS
<1>4. /\ v \in Virtual /\ page \in Nat /\ path \in Paths /\ path = Path(v)
      /\ table = Reach(PML4, tables, path, 4) /\ table # Absent
      /\ phase = "running" => Reach(PML4, tables, path, 5) = Absent
      /\ phase # "running" => page = v
  BY <1>1, <1>2, <1>3 DEF CallOK
<1>5. tables' = Overwrite(tables, table, path[4], page)
  <2>1. path[4] = Index(Top.virtual, 4)
    BY <1>3 DEF Path
  <2>2. tables' = Write(table, path[4], page)
    BY <1>1, <1>2, <1>3, <2>1
  <2> QED
    BY <2>2, Zenon DEF Write, Overwrite
<1>6. /\ DOMAIN tables' = DOMAIN tables
      /\ Tree(PML4', tables')
      /\ \A p \in Paths : \A k \in 1 .. 4 :
           Reach(PML4', tables', p, k) = Reach(PML4, tables, p, k)
      /\ Reach(PML4', tables', path, 5) = page
      /\ \A p \in Paths : p # path =>
           Reach(PML4', tables', p, 5) = Reach(PML4, tables, p, 5)
  <2>1. Tree(PML4, tables)
    BY DEF SoundMaps, TreeInv
  <2>2. PML4' = PML4 /\ PML4 \in Nat /\ TabsOK(tables)
    BY <1>1, <1>2
  <2> QED
    BY <1>4, <1>5, <2>1, <2>2, MapEffect DEF Overwrite
<1> QED
  BY <1>3, <1>4, <1>6

LEMMA MapPageMaps ==
  ASSUME KernelInv, SoundMaps, MapPage
  PROVE  SoundMaps'
<1>1. /\ stack # << >> /\ Top.level = 4
      /\ tables' = Write(Physical(Top.table), Index(Top.virtual, 4),
                         Top.physical)
      /\ stack' = Below
      /\ phase' = phase /\ next' = next
      /\ PML4' = PML4 /\ memoryMap' = memoryMap /\ granted' = granted
      /\ enumerated' = IF phase = "pci" THEN enumerated \cup {Top.virtual}
                       ELSE enumerated
      /\ recovered' = IF phase = "running"
                      THEN Put(recovered, Top.virtual, Top.physical)
                      ELSE recovered
  BY DEF MapPage, allocVars
<1>2. /\ stack = <<Top>> /\ CallOK(Top)
      /\ Top.table \in Nat /\ Top.table # Absent
      /\ Top.table = Reach(PML4, tables, Path(Top.virtual), 4)
      /\ Physical(Top.table) = Top.table
      /\ Top.virtual \in Virtual /\ Path(Top.virtual) \in Paths
      /\ PML4 \in Nat /\ TabsOK(tables)
      /\ Top.physical \in Nat
      /\ phase \in {"identity", "framebuffer", "pci", "running"}
  BY <1>1, CallTables, CallFacts
<1>3. PICK v \in Virtual, page \in Nat, path \in Paths :
         /\ v = Top.virtual /\ page = Top.physical /\ path = Path(v)
         /\ phase = "running" => Reach(PML4, tables, path, 5) = Absent
         /\ phase # "running" => page = v
         /\ DOMAIN tables' = DOMAIN tables
         /\ Tree(PML4', tables')
         /\ \A p \in Paths : \A k \in 1 .. 4 :
              Reach(PML4', tables', p, k) = Reach(PML4, tables, p, k)
         /\ Reach(PML4', tables', path, 5) = page
         /\ \A p \in Paths : p # path =>
              Reach(PML4', tables', p, 5) = Reach(PML4, tables, p, 5)
  BY MapPageWalks
<1>4. stack' = << >>
  BY <1>1, <1>2, SingleCall
<1>6. /\ Tree(PML4', tables')
      /\ \A p \in Paths : \A k \in 1 .. 4 :
           Reach(PML4', tables', p, k) = Reach(PML4, tables, p, k)
      /\ Reach(PML4', tables', path, 5) = page
      /\ \A p \in Paths : p # path =>
           Reach(PML4', tables', p, 5) = Reach(PML4, tables, p, 5)
  BY <1>3
<1>7. ASSUME NEW q \in Nat, Path(q) # path
      PROVE  Walk(q)' = Walk(q)
  BY <1>6, <1>7, NatPath, WalkReach, WalkReachNext
<1>8. ASSUME NEW q \in Nat, Path(q) = path
      PROVE  Walk(q)' = page /\ Walk(q) = Reach(PML4, tables, path, 5)
  BY <1>6, <1>8, WalkReach, WalkReachNext
<1>9. Virtual \subseteq Nat
  BY DEF Virtual
<1>10. /\ Paging' = Paging /\ Mapping' = Mapping /\ InProgress' = {}
       /\ MappedPages' = MappedPages
  <2>1. Paging' = Paging /\ Mapping' = Mapping
    BY <1>1 DEF Paging, Mapping
  <2> QED
    BY <1>1, <1>3, <1>4, <2>1 DEF InProgress, MappedPages, IdentityMapped
<1>11. \A q \in Virtual : q # v => Walk(q)' = Walk(q)
  BY <1>3, <1>4, <1>7, <1>9, PathInjective
<1>12. Walk(v)' = page
  BY <1>3, <1>4, <1>8, <1>9
<1>13. phase = "running" => Walk(v) = Absent
  BY <1>3, <1>4, <1>8, <1>9
<1>14. TreeInv'
  <2>1. ASSUME NEW q \in Nat, TableHome(q)
        PROVE  TableHome(q)'
    <3>1. CASE ~Paging
      BY <1>1, <1>10, <2>1, <3>1 DEF TableHome, IdentityMapped
    <3>2. CASE Paging /\ Path(q) # path
      BY <1>1, <1>7, <1>10, <2>1, <3>2, HomeStays
    <3>3. CASE Paging /\ Path(q) = path
      <4>1. Walk(q) = q /\ q # NoPage /\ q # Absent
        BY <2>1, <3>3 DEF TableHome, Absent
      <4>2. phase # "running"
        BY <1>3, <1>4, <1>8, <3>3, <4>1
      <4>3. q \in Virtual
        BY <1>2, <1>3, <1>4, <1>8, <3>3, <4>1, <4>2
        DEF SoundMaps, IdentityOnly, Mapping
      <4>4. q = v
        BY <1>3, <1>4, <3>3, <4>3, PathInjective
      <4>5. Walk(q)' = q
        BY <1>3, <1>4, <1>12, <4>2, <4>4
      <4> QED
        BY <1>10, <3>3, <4>1, <4>5 DEF TableHome
    <3> QED
      BY <3>1, <3>2, <3>3
  <2>2. \A q \in Nat : InTree(PML4', tables', q) => InTree(PML4, tables, q)
    BY <1>6 DEF InTree
  <2> QED
    BY <1>1, <1>6, <2>1, <2>2, HomesStay DEF SoundMaps
<1>15. MapsInv'
  <2>1. MapsInv /\ MappedPages \subseteq Virtual /\ enumerated \subseteq Virtual
        /\ DOMAIN recovered \subseteq Virtual
    BY MappedVirtual, KernelAssumption DEF SoundMaps, MapsInv, KernelInv, TypeOK
  <2>2. phase' = "framebuffer" => fbBase <= next'
    BY <1>1, <2>1 DEF MapsInv
  <2>3. ASSUME NEW p \in MappedPages
        PROVE  Walk(p)' = p
    <3>1. p # v => Walk(p)' = Walk(p) /\ p \notin InProgress
      BY <1>3, <1>11, <2>1, <2>3 DEF InProgress
    <3>2. CASE p # v
      BY <2>1, <2>3, <3>1, <3>2 DEF MapsInv
    <3>3. CASE p = v /\ phase # "running"
      BY <1>3, <1>4, <1>12, <3>3
    <3>4. CASE p = v /\ phase = "running"
      <4>1. InProgress = {}
        BY <3>4 DEF InProgress, Paging
      <4>2. Walk(p) = p /\ p \in Nat
        BY <1>9, <2>1, <2>3, <4>1 DEF MapsInv
      <4> QED
        BY <1>13, <3>4, <4>2 DEF Absent
    <3> QED
      BY <3>2, <3>3, <3>4
  <2>4. ASSUME NEW p \in enumerated'
        PROVE  Walk(p)' = p
    <3>1. CASE p = v /\ phase # "running"
      BY <1>3, <1>4, <1>12, <3>1
    <3>2. CASE p = v /\ phase = "running"
      <4>1. Walk(p) = p /\ p \in Nat
        BY <1>1, <1>9, <2>1, <2>4, <3>2 DEF MapsInv
      <4> QED
        BY <1>13, <3>2, <4>1 DEF Absent
    <3>3. CASE p # v
      <4>1. p \in enumerated
        BY <1>1, <1>3, <2>4, <3>3
      <4> QED
        BY <1>11, <2>1, <3>3, <4>1 DEF MapsInv
    <3> QED
      BY <3>1, <3>2, <3>3
  <2>5. ASSUME NEW w \in DOMAIN recovered'
        PROVE  w \in Virtual /\ Walk(w)' = recovered'[w]
    <3>1. CASE phase = "running"
      <4>1. recovered' = Put(recovered, v, page)
        BY <1>1, <1>3, <3>1
      <4>2. /\ w \in DOMAIN recovered \cup {v}
            /\ recovered'[w] = IF w = v THEN page ELSE recovered[w]
        BY <2>5, <4>1 DEF Put
      <4> QED
        BY <1>3, <1>4, <1>11, <1>12, <2>1, <4>2 DEF MapsInv
    <3>2. CASE phase # "running"
      <4>1. DOMAIN recovered' = {}
        BY <1>1, <1>2, <3>2 DEF SoundMaps, IdentityOnly, Mapping
      <4> QED
        BY <2>5, <4>1
    <3> QED
      BY <3>1, <3>2
  <2> QED
    BY <1>10, <2>2, <2>3, <2>4, <2>5 DEF MapsInv
<1>16. IdentityOnly'
  <2> SUFFICES ASSUME Mapping
               PROVE  /\ DOMAIN recovered' = {}
                      /\ \A p \in Paths :
                           Reach(PML4', tables', p, 5) \in Virtual \cup {Absent}
    BY <1>10 DEF IdentityOnly
  <2>1. phase # "running"
    BY DEF Mapping
  <2> QED
    BY <1>1, <1>3, <1>4, <1>6, <2>1 DEF SoundMaps, IdentityOnly
<1> QED
  BY <1>3, <1>4, <1>14, <1>15, <1>16 DEF SoundMaps, CallInv

LEMMA BorrowNewPageMaps ==
  ASSUME KernelInv, SoundMaps, BorrowNewPage
  PROVE  SoundMaps'
<1>1. /\ stack # << >> /\ phase = "running" /\ Borrow
      /\ PML4' = PML4 /\ tables' = tables
      /\ enumerated' = enumerated /\ recovered' = recovered
      /\ \/ phase' = "panic" /\ stack' = << >>
         \/ /\ phase' = "running"
            /\ stack' = ReplaceTop(Call(Top.virtual, returned', 1))
  BY DEF BorrowNewPage
<1>2. /\ memoryMap' = memoryMap /\ granted \subseteq granted'
      /\ PML4 \in Nat
  BY <1>1, BorrowStep, BorrowGives, KernelTypes DEF KernelInv, TablesOK
<1>3. Paging /\ Paging' /\ Paging' = Paging /\ ~Mapping'
  BY <1>1 DEF Paging, Mapping
<1>4. MappedPages' \ InProgress' \subseteq MappedPages \ InProgress
  BY <1>1, <1>2, <1>3 DEF MappedPages, InProgress, IdentityMapped
<1>5. TreeInv' /\ MapsInv' /\ IdentityOnly'
  BY <1>1, <1>2, <1>3, <1>4, SameMaps
<1>6. CASE stack' = << >>
  BY <1>5, <1>6 DEF SoundMaps, CallInv
<1>7. CASE phase' = "running" /\ stack' = ReplaceTop(Call(Top.virtual, returned', 1))
  <2>1. /\ stack = <<Top>> /\ CallOK(Top)
        /\ Top.virtual \in Virtual
    BY <1>1, CallTables
  <2>2. PICK v, page : v = Top.virtual /\ page = returned'
    OBVIOUS
  <2>3. stack' = <<Call(v, page, 1)>>
    BY <1>7, <2>1, <2>2, SingleCall
  <2>4. Walk(v)' = Absent
    BY <1>1, <2>1, <2>2, WalkReachNext DEF CallOK
  <2>5. 1 \in 0 .. 1 /\ ~(1 = 0)
    OBVIOUS
  <2>6. CallInv'
    BY <1>1, <1>2, <1>3, <1>7, <2>1, <2>2, <2>3, <2>4, <2>5, NewCall
  <2> QED
    BY <1>5, <2>6 DEF SoundMaps
<1> QED
  BY <1>1, <1>6, <1>7

LEMMA BorrowPML4Maps ==
  ASSUME TranslationInv, BorrowPML4
  PROVE  /\ ~spoiled' => SoundMaps'
         /\ spoiled' => Exhausted'
<1>1. /\ phase = "pml4" /\ phase' = "identity" /\ Borrow
      /\ PML4' = returned' /\ tables' = [t \in {PML4'} |-> ZeroTable]
      /\ next' = next /\ stack' = stack
      /\ enumerated' = enumerated /\ recovered' = recovered
      /\ spoiled' = ~TableHome(returned')
  BY DEF BorrowPML4
<1>2. /\ KernelInv /\ AllocInv /\ next = 0 /\ stack = << >>
      /\ enumerated = {} /\ DOMAIN recovered = {}
  BY <1>1 DEF TranslationInv, Started, KernelInv, Idle
<1>3. memoryMap' = memoryMap /\ granted \subseteq granted' /\ returned' \in Nat
  BY <1>1, <1>2, BorrowStep, BorrowGives
<1>4. ~Paging /\ ~Paging' /\ IdentityMapped' = IdentityMapped
  BY <1>1, <1>3 DEF Paging, IdentityMapped
<1>5. spoiled' <=> ~TableHome(returned')
  BY <1>1, Zenon
<1>6. ASSUME spoiled'
      PROVE  Exhausted'
  <2>1. \A p \in 0 .. GetMemorySize(memoryMap) - 1 :
           p # NoPage => TableHome(p)
    BY <1>4 DEF TableHome, IdentityMapped
  <2>2. ~TableHome(returned')
    BY <1>5, <1>6, Zenon
  <2> QED
    BY <1>1, <1>2, <2>1, <2>2, BorrowExhausts
<1>7. ASSUME ~spoiled'
      PROVE  SoundMaps'
  <2>1. TableHome(returned')
    BY <1>5, <1>7, Zenon
  <2>2. PICK page : page = returned'
    OBVIOUS
  <2>3. /\ page \in Nat /\ PML4' = page /\ page \in granted'
        /\ page # NoPage /\ page \in IdentityMapped
    BY <1>1, <1>2, <1>3, <1>4, <2>1, <2>2, BorrowGives DEF TableHome
  <2>4. tables' = [t \in {page} |-> ZeroTable]
    BY <1>1, <2>3
  <2>5. /\ Tree(PML4', tables')
        /\ \A p \in Paths, k \in 1 .. 5 :
             Reach(PML4', tables', p, k) = IF k = 1 THEN page ELSE Absent
    BY <2>3, <2>4, RootTree
  <2>6. TreeInv'
    <3>1. ASSUME NEW q \in Nat, InTree(PML4', tables', q)
          PROVE  q \in granted' /\ TableHome(q)'
      <4>1. q = page
        <5>1. \A k \in 1 .. 4 : k \in 1 .. 5
          OBVIOUS
        <5> QED
          BY <2>5, <3>1, <5>1 DEF InTree
      <4> QED
        BY <1>4, <2>3, <4>1 DEF TableHome
    <3> QED
      BY <2>5, <3>1 DEF TreeInv
  <2>7. CallInv'
    BY <1>1, <1>2 DEF CallInv
  <2>8. MapsInv'
    <3>1. MappedPages' = {}
      BY <1>1, <1>2 DEF MappedPages
    <3>2. enumerated' = {} /\ DOMAIN recovered' = {} /\ phase' # "framebuffer"
      BY <1>1, <1>2
    <3> QED
      BY <3>1, <3>2 DEF MapsInv
  <2>9. IdentityOnly'
    <3>1. 5 \in 1 .. 5 /\ ~(5 = 1)
      OBVIOUS
    <3> QED
      BY <1>1, <1>2, <2>5, <3>1 DEF IdentityOnly
  <2> QED
    BY <2>6, <2>7, <2>8, <2>9 DEF SoundMaps
<1> QED
  BY <1>6, <1>7

LEMMA InitTranslationInv == Init => TranslationInv
<1> SUFFICES ASSUME Init
             PROVE  TranslationInv
  OBVIOUS
<1>1. phase = "map" /\ enumerated = {} /\ recovered = << >> /\ ~spoiled
  BY DEF Init
<1>2. DOMAIN recovered = {}
  BY <1>1
<1> QED
  BY <1>1, <1>2, InitKernelInv DEF TranslationInv, Started

(* The steps that leave "spoiled" alone keep the maps sound.               *)
LEMMA OtherStepMaps ==
  ASSUME KernelInv, Started, ~spoiled, SoundMaps, Next, ~BorrowTable
  PROVE  SoundMaps' /\ ~spoiled'
<1>1. CASE Prepare
  <2>1. ~ReadMap /\ ~StealKernel /\ ~BorrowPML4
    BY DEF Started, ReadMap, StealKernel, BorrowPML4
  <2>2. CASE CallMapMemory
    BY <2>2, CallMapMemoryMaps DEF CallMapMemory
  <2>3. CASE EndLoop
    BY <2>3, EndLoopMaps DEF EndLoop
  <2>4. ASSUME NEW page \in ConfigPages, EnumerateFunction(page)
        PROVE  SoundMaps' /\ ~spoiled'
    BY <2>4, EnumerateFunctionMaps DEF EnumerateFunction
  <2>5. CASE EndPCI \/ PrepareInterrupts
    BY <2>5, PrepareInterruptsMaps DEF EndPCI, PrepareInterrupts
  <2> QED
    BY <1>1, <2>1, <2>2, <2>3, <2>4, <2>5 DEF Prepare
<1>2. CASE MapMemory
  <2>1. ~TableFault /\ ~UnhandledFault /\ ~Runaway
    BY NoTableFault
  <2>2. CASE Descend
    BY <2>2, DescendMaps DEF Descend
  <2>3. CASE ClearTable
    BY <2>3, ClearTableMaps DEF ClearTable
  <2>4. CASE LinkTable
    BY <2>4, LinkTableMaps DEF LinkTable
  <2>5. CASE MapPage
    BY <2>5, MapPageMaps DEF MapPage
  <2> QED
    BY <1>2, <2>1, <2>2, <2>3, <2>4, <2>5 DEF MapMemory
<1>3. CASE BorrowNewPage
  BY <1>3, BorrowNewPageMaps DEF BorrowNewPage
<1>4. ASSUME NEW virtual \in Touched, PageFault(virtual)
      PROVE  SoundMaps' /\ ~spoiled'
  BY <1>4, PageFaultMaps DEF PageFault
<1> QED
  BY <1>1, <1>2, <1>3, <1>4 DEF Next

(* The steps before there is a PML4.                                       *)
LEMMA EarlyStepMaps ==
  ASSUME TranslationInv, ~Started, Next
  PROVE  TranslationInv'
<1>1. KernelInv /\ ~spoiled /\ enumerated = {} /\ DOMAIN recovered = {}
      /\ stack = << >>
  BY DEF TranslationInv, Started, KernelInv, Idle
<1>2. KernelInv'
  BY <1>1, NextKernelInv
<1>3. CASE ReadMap \/ StealKernel
  BY <1>1, <1>2, <1>3 DEF ReadMap, StealKernel, TranslationInv, Started
<1>4. CASE BorrowPML4
  <2>1. Started'
    BY <1>4 DEF BorrowPML4, Started
  <2> QED
    BY <1>2, <1>4, <2>1, BorrowPML4Maps DEF TranslationInv
<1>5. ReadMap \/ StealKernel \/ BorrowPML4
  <2>1. phase \in {"map", "kernel", "pml4"}
    BY DEF Started
  <2>2. ~MapMemory
    BY <1>1, <2>1 DEF MapMemory, Descend, BorrowTable, ClearTable, LinkTable,
      TableFault, UnhandledFault, Runaway, MapPage
  <2>3. ~BorrowNewPage /\ \A virtual \in Touched : ~PageFault(virtual)
    BY <1>1, <2>1 DEF BorrowNewPage, PageFault
  <2>4. /\ ~CallMapMemory /\ ~EndLoop /\ ~EndPCI /\ ~PrepareInterrupts
        /\ \A page \in ConfigPages : ~EnumerateFunction(page)
    BY <2>1
    DEF CallMapMemory, EndLoop, EndPCI, PrepareInterrupts, EnumerateFunction
  <2> QED
    BY <2>2, <2>3, <2>4 DEF Next, Prepare
<1> QED
  BY <1>3, <1>4, <1>5

LEMMA NextTranslationInv ==
  ASSUME TranslationInv, [Next]_vars
  PROVE  TranslationInv'
<1>1. KernelInv'
  BY NextKernelInv DEF TranslationInv
<1>2. CASE UNCHANGED vars
  <2>1. PML4' = PML4 /\ tables' = tables /\ memoryMap' = memoryMap
        /\ phase' = phase /\ stack' = stack /\ next' = next
        /\ granted' = granted /\ corgiAlloc' = corgiAlloc
        /\ enumerated' = enumerated /\ recovered' = recovered
        /\ spoiled' = spoiled
    BY <1>2 DEF vars, allocVars, kernelVars
  <2>2. Paging' = Paging /\ Mapping' = Mapping /\ Started' = Started
        /\ InProgress' = InProgress /\ MappedPages' = MappedPages
    BY <2>1 DEF Paging, Mapping, Started, InProgress, MappedPages,
      IdentityMapped, Top
  <2>3. Exhausted' = Exhausted
    BY <2>1 DEF Exhausted, Clear, Tracked
  <2>4. ASSUME KernelInv, SoundMaps
        PROVE  SoundMaps'
    <3>1. phase' = "framebuffer" => fbBase <= next'
      BY <2>1, <2>4 DEF SoundMaps, MapsInv
    <3>2. TreeInv' /\ MapsInv' /\ IdentityOnly'
      BY <2>1, <2>2, <2>4, <3>1, SameMaps
    <3>3. CallInv'
      <4>1. CallInv
        BY <2>4 DEF SoundMaps
      <4>2. Top' = Top
        BY <2>1 DEF Top
      <4>3. CallOK(Top)' <=> CallOK(Top)
        <5>1. \A q : TableHome(q) <=> TableHome(q)'
          BY <2>1, <2>2, HomeStays, SameTables
        <5> QED
          BY <2>1, <2>2, <4>2, <5>1 DEF CallOK
      <4> QED
        BY <2>1, <4>1, <4>2, <4>3 DEF CallInv
    <3> QED
      BY <3>2, <3>3 DEF SoundMaps
  <2> QED
    BY <1>1, <2>1, <2>2, <2>3, <2>4 DEF TranslationInv
<1>3. CASE Next /\ ~Started
  BY <1>3, EarlyStepMaps
<1>4. CASE Next /\ spoiled
  BY <1>4, SpoiledInv
<1>5. CASE Next /\ Started /\ ~spoiled
  <2>1. KernelInv /\ SoundMaps
    BY <1>5 DEF TranslationInv
  <2>2. Started'
    BY <1>5, LateStep
  <2>3. (~spoiled' => SoundMaps') /\ (spoiled' => Exhausted')
    BY <1>5, <2>1, BorrowTableMaps, OtherStepMaps
  <2> QED
    BY <1>1, <2>2, <2>3 DEF TranslationInv
<1> QED
  BY <1>2, <1>3, <1>4, <1>5

(* While no table had to be put on page 0 or outside the identity map, and *)
(* whatever pages of memory, framebuffer, PCI configuration and faulting   *)
(* addresses MapMemory is called for: once CR3 is loaded all of memory and *)
(* the framebuffer translate to themselves, every configuration page       *)
(* enumerated does, and every address the handler recovered translates to  *)
(* the page it borrowed for it.  No later call breaks an earlier one.      *)
THEOREM KernelTranslations == Spec => []TranslationIntact
<1>1. TranslationInv => TranslationIntact
  <2> SUFFICES ASSUME TranslationInv, ~spoiled
               PROVE  /\ Paging => \A p \in IdentityMapped : Walk(p) = p
                      /\ \A p \in enumerated : Walk(p) = p
                      /\ \A v \in DOMAIN recovered : Walk(v) = recovered[v]
    BY DEF TranslationIntact
  <2>1. CASE Started
    <3>1. MapsInv
      BY <2>1 DEF TranslationInv, SoundMaps
    <3>2. Paging => MappedPages = IdentityMapped /\ InProgress = {}
      BY DEF MappedPages, InProgress, Paging
    <3> QED
      BY <3>1, <3>2 DEF MapsInv
  <2>2. CASE ~Started
    BY <2>2 DEF TranslationInv, Started, Paging
  <2> QED
    BY <2>1, <2>2
<1> QED
  BY <1>1, InitTranslationInv, NextTranslationInv, PTL DEF Spec

(* MapMemory never checks the page it borrows for a table, and need not    *)
(* while memory lasts: a table lands where no table can be, and a call is  *)
(* interrupted by a fault, only when the allocator has not one page of     *)
(* memory left.                                                            *)
THEOREM KernelExhaustion == Spec => []OnlyExhaustionSpoils
<1>1. TranslationInv => OnlyExhaustionSpoils
  <2> SUFFICES ASSUME TranslationInv, spoiled \/ Len(stack) > 1
               PROVE  Exhausted
    BY DEF OnlyExhaustionSpoils, Exhausted
  <2>1. ASSUME ~spoiled
        PROVE  ~ Len(stack) > 1
    <3>1. CASE stack = << >>
      BY <3>1
    <3>2. CASE stack # << >>
      <4>1. Started
        BY <3>2 DEF TranslationInv, KernelInv, Idle, Started
      <4>2. stack = <<Top>>
        BY <2>1, <3>2, <4>1 DEF TranslationInv, SoundMaps, CallInv
      <4>3. PICK call : call = Top
        OBVIOUS
      <4>4. Len(<<call>>) = 1
        OBVIOUS
      <4> QED
        BY <4>2, <4>3, <4>4
    <3> QED
      BY <3>1, <3>2
  <2> QED
    BY <2>1 DEF TranslationInv
<1> QED
  BY <1>1, InitTranslationInv, NextTranslationInv, PTL DEF Spec

-----------------------------------------------------------------------------
(* The links of the tree *)

Nodes(root, tabs) == {page \in Nat : InTree(root, tabs, page)}

Links(root, tabs) ==
  {link \in Nat \X Indices :
     \E p \in Paths, k \in 1 .. 3 :
        /\ link = <<Reach(root, tabs, p, k), p[k]>>
        /\ Reach(root, tabs, p, k + 1) # Absent}

(* Both only depend on where the walks go above the last level.            *)
LEMMA SameNodes ==
  ASSUME NEW root, NEW tabs, NEW root2, NEW tabs2,
         \A p \in Paths : \A k \in 1 .. 4 :
            Reach(root2, tabs2, p, k) = Reach(root, tabs, p, k)
  PROVE  /\ Nodes(root2, tabs2) = Nodes(root, tabs)
         /\ Links(root2, tabs2) = Links(root, tabs)
<1>1. \A page : InTree(root2, tabs2, page) <=> InTree(root, tabs, page)
  BY DEF InTree
<1>2. \A k \in 1 .. 3 : k \in 1 .. 4 /\ k + 1 \in 1 .. 4
  OBVIOUS
<1>3. \A link :
         (\E p \in Paths, k \in 1 .. 3 :
             /\ link = <<Reach(root2, tabs2, p, k), p[k]>>
             /\ Reach(root2, tabs2, p, k + 1) # Absent)
         <=>
         (\E p \in Paths, k \in 1 .. 3 :
             /\ link = <<Reach(root, tabs, p, k), p[k]>>
             /\ Reach(root, tabs, p, k + 1) # Absent)
  <2> SUFFICES ASSUME NEW p \in Paths, NEW k \in 1 .. 3
               PROVE  /\ Reach(root2, tabs2, p, k) = Reach(root, tabs, p, k)
                      /\ Reach(root2, tabs2, p, k + 1)
                           = Reach(root, tabs, p, k + 1)
    OBVIOUS
  <2> QED
    BY <1>2
<1>4. Nodes(root2, tabs2) = Nodes(root, tabs)
  BY <1>1 DEF Nodes
<1>5. Links(root2, tabs2) = Links(root, tabs)
  BY <1>3 DEF Links
<1> QED
  BY <1>4, <1>5

(* One empty table has no links.                                           *)
LEMMA RootNodes ==
  ASSUME NEW root \in Nat, NEW tabs, tabs = [t \in {root} |-> ZeroTable]
  PROVE  Nodes(root, tabs) = {root} /\ Links(root, tabs) = {}
<1>1. \A p \in Paths, k \in 1 .. 5 :
         Reach(root, tabs, p, k) = IF k = 1 THEN root ELSE Absent
  BY RootTree
<1>2. \A k \in 1 .. 4 : k \in 1 .. 5
  OBVIOUS
<1>3. \A k \in 1 .. 3 : k + 1 \in 1 .. 5 /\ k + 1 # 1
  OBVIOUS
<1>4. Links(root, tabs) = {}
  BY <1>1, <1>3 DEF Links
<1>5. \E p \in Paths : TRUE
  <2>1. Fan \in Nat \ {0}
    BY KernelAssumption
  <2>2. 0 \in Indices
    BY <2>1 DEF Indices
  <2>3. [l \in 1 .. 4 |-> 0] \in Paths
    BY <2>2 DEF Paths
  <2> QED
    BY <2>3
<1>6. InTree(root, tabs, root)
  BY <1>1, <1>2, <1>5, Levels DEF InTree, Absent
<1>7. \A page : InTree(root, tabs, page) => page = root
  BY <1>1, <1>2 DEF InTree
<1>8. Nodes(root, tabs) = {root}
  BY <1>6, <1>7 DEF Nodes
<1> QED
  BY <1>4, <1>8

(* root2 and tabs2 are the tables with one more: "page", linked by the      *)
(* entry of "table" that path v leads through at this level.               *)
Grown(root, tabs, root2, tabs2, v, level, page, table) ==
  /\ root \in Nat /\ TabsOK(tabs) /\ Tree(root, tabs)
  /\ v \in Paths /\ level \in 1 .. 3 /\ page \in Nat /\ table \in Nat
  /\ table = Reach(root, tabs, v, level)
  /\ Reach(root, tabs, v, level + 1) = Absent
  /\ \A p \in Paths, k \in 1 .. 5 :
       Reach(root2, tabs2, p, k)
         = IF SamePath(p, v, level + 1) /\ k = level + 1 THEN page
           ELSE Reach(root, tabs, p, k)

(* Linking a table adds one node and one link.                             *)
LEMMA LinkNodes ==
  ASSUME NEW root, NEW tabs, NEW root2, NEW tabs2, NEW v, NEW level, NEW page,
         NEW table, Grown(root, tabs, root2, tabs2, v, level, page, table)
  PROVE  /\ Nodes(root2, tabs2) = Nodes(root, tabs) \cup {page}
         /\ Links(root2, tabs2) = Links(root, tabs) \cup {<<table, v[level]>>}
         /\ <<table, v[level]>> \notin Links(root, tabs)
<1> USE DEF Grown
<1> DEFINE new == <<table, v[level]>>
           R(p, k) == Reach(root, tabs, p, k)
           S(p, k) == Reach(root2, tabs2, p, k)
<1>1. /\ level + 1 \in 1 .. 4 /\ level + 1 \in 1 .. 5
      /\ \A k \in 1 .. 4 : k \in 1 .. 5
      /\ \A k \in 1 .. 3 : k \in 1 .. 4 /\ k + 1 \in 1 .. 4
      /\ \A k \in 1 .. 3 : k \in 1 .. 5 /\ k + 1 \in 1 .. 5 /\ k # k + 1
  OBVIOUS
<1>2. page # Absent /\ table # Absent /\ v[level] \in Indices
  BY <1>1 DEF Absent, Paths
<1>3. \A p \in Paths, k \in 1 .. 5 :
         S(p, k) = IF SamePath(p, v, level + 1) /\ k = level + 1 THEN page
                   ELSE R(p, k)
  OBVIOUS
<1>4. \A p \in Paths : SamePath(p, v, level + 1) =>
         /\ SamePath(p, v, level) /\ p[level] = v[level]
         /\ R(p, level) = table /\ R(p, level + 1) = Absent
  <2> SUFFICES ASSUME NEW p \in Paths, SamePath(p, v, level + 1)
               PROVE  /\ SamePath(p, v, level) /\ p[level] = v[level]
                      /\ R(p, level) = table /\ R(p, level + 1) = Absent
    OBVIOUS
  <2>1. SamePath(p, v, level) /\ p[level] = v[level]
    BY <1>1, SamePathFacts
  <2>2. R(p, level) = table
    <3>1. level \in 1 .. 5
      OBVIOUS
    <3> QED
      BY <2>1, <3>1, SamePathReach
  <2>3. R(p, level + 1) = Absent
    BY <1>1, SamePathReach
  <2> QED
    BY <2>1, <2>2, <2>3
<1>5. SamePath(v, v, level + 1)
  BY DEF SamePath
<1>6. \A p \in Paths, k \in 1 .. 4 : k >= level + 1 /\ SamePath(p, v, level + 1)
         => R(p, k) = Absent
  <2> SUFFICES ASSUME NEW p \in Paths, NEW k \in 1 .. 4, k >= level + 1,
                      SamePath(p, v, level + 1)
               PROVE  R(p, k) = Absent
    OBVIOUS
  <2>1. \A i \in 1 .. 5, j \in 1 .. 5 :
           i <= j /\ Reach(root, tabs, p, i) = Absent
             => Reach(root, tabs, p, j) = Absent
    <3>1. root \in Values
      BY DEF Values
    <3> QED
      BY <3>1, ReachType
  <2>2. Reach(root, tabs, p, level + 1) = Absent
    BY <1>4
  <2>3. level + 1 <= k
    OBVIOUS
  <2> QED
    BY <1>1, <2>1, <2>2, <2>3, Zenon
<1>7. \A p \in Paths, k \in 1 .. 4 : R(p, k) = table =>
         k = level /\ SamePath(p, v, level)
  <2>1. level \in 1 .. 4
    OBVIOUS
  <2> QED
    BY <1>2, <2>1 DEF Tree
<1> HIDE DEF R, S
<1>8. Nodes(root2, tabs2) = Nodes(root, tabs) \cup {page}
  <2>1. \A q : InTree(root2, tabs2, q) <=> q # Absent /\ \E p \in Paths, k \in 1 .. 4 : S(p, k) = q
    BY DEF InTree, S
  <2>2. \A q : InTree(root, tabs, q) <=> q # Absent /\ \E p \in Paths, k \in 1 .. 4 : R(p, k) = q
    BY DEF InTree, R
  <2>3. ASSUME NEW q \in Nat, InTree(root2, tabs2, q)
        PROVE  q = page \/ InTree(root, tabs, q)
    BY <1>1, <1>3, <2>1, <2>2, <2>3
  <2>4. ASSUME NEW q \in Nat, InTree(root, tabs, q)
        PROVE  InTree(root2, tabs2, q)
    <3>1. PICK p \in Paths, k \in 1 .. 4 : R(p, k) = q /\ q # Absent
      BY <2>2, <2>4
    <3>2. ~(SamePath(p, v, level + 1) /\ k = level + 1)
      BY <1>4, <3>1
    <3>3. S(p, k) = q
      BY <1>1, <1>3, <3>1, <3>2
    <3> QED
      BY <2>1, <3>1, <3>3
  <2>5. InTree(root2, tabs2, page)
    <3>1. S(v, level + 1) = page
      BY <1>1, <1>3, <1>5
    <3> QED
      BY <1>1, <1>2, <2>1, <3>1
  <2> QED
    BY <2>3, <2>4, <2>5 DEF Nodes
<1>9. ASSUME NEW link
      PROVE  (\E p \in Paths, k \in 1 .. 3 :
                 link = <<S(p, k), p[k]>> /\ S(p, k + 1) # Absent)
             <=> \/ \E p \in Paths, k \in 1 .. 3 :
                       link = <<R(p, k), p[k]>> /\ R(p, k + 1) # Absent
                 \/ link = new
  <2>1. ASSUME NEW p \in Paths, NEW k \in 1 .. 3,
               link = <<S(p, k), p[k]>>, S(p, k + 1) # Absent,
               ~(link = <<R(p, k), p[k]>> /\ R(p, k + 1) # Absent)
        PROVE  link = new
    <3>1. SamePath(p, v, level + 1) /\ (k = level + 1 \/ k + 1 = level + 1)
      BY <1>1, <1>3, <2>1
    <3>2. CASE k = level + 1
      <4>1. k + 1 >= level + 1 /\ k + 1 \in 1 .. 4 /\ k + 1 # level + 1
        BY <1>1, <3>2
      <4>2. R(p, k + 1) = Absent
        BY <1>6, <3>1, <4>1
      <4>3. S(p, k + 1) = R(p, k + 1)
        BY <1>1, <1>3, <4>1
      <4> QED
        BY <2>1, <4>2, <4>3
    <3>3. CASE k + 1 = level + 1
      <4>1. k = level
        BY <3>3
      <4>2. S(p, k) = R(p, k)
        BY <1>1, <1>3, <4>1
      <4>3. R(p, k) = table /\ p[k] = v[level]
        BY <1>4, <3>1, <4>1
      <4> QED
        BY <2>1, <4>2, <4>3
    <3> QED
      BY <3>1, <3>2, <3>3
  <2>2. ASSUME NEW p \in Paths, NEW k \in 1 .. 3,
               link = <<R(p, k), p[k]>>, R(p, k + 1) # Absent
        PROVE  link = <<S(p, k), p[k]>> /\ S(p, k + 1) # Absent
    <3>1. S(p, k + 1) # Absent
      BY <1>1, <1>2, <1>3, <2>2
    <3>2. S(p, k) = R(p, k)
      <4>1. ~(SamePath(p, v, level + 1) /\ k = level + 1)
        <5> SUFFICES ASSUME SamePath(p, v, level + 1), k = level + 1
                     PROVE  FALSE
          OBVIOUS
        <5>1. k + 1 >= level + 1 /\ k + 1 \in 1 .. 4
          BY <1>1
        <5> QED
          BY <1>6, <2>2, <5>1
      <4> QED
        BY <1>1, <1>3, <4>1
    <3> QED
      BY <2>2, <3>1, <3>2
  <2>3. ASSUME link = new
        PROVE  link = <<S(v, level), v[level]>> /\ S(v, level + 1) # Absent
    <3>1. S(v, level + 1) = page
      BY <1>1, <1>3, <1>5
    <3>2. S(v, level) = R(v, level)
      BY <1>1, <1>3
    <3>3. R(v, level) = table
      BY <1>4, <1>5
    <3> QED
      BY <1>2, <2>3, <3>1, <3>2, <3>3
  <2> QED
    BY <2>1, <2>2, <2>3
<1>10. Links(root2, tabs2) = Links(root, tabs) \cup {new}
  <2>1. new \in Nat \X Indices
    BY <1>2
  <2>2. Links(root2, tabs2) =
          {link \in Nat \X Indices : \E p \in Paths, k \in 1 .. 3 :
             link = <<S(p, k), p[k]>> /\ S(p, k + 1) # Absent}
    BY DEF Links, S
  <2>3. Links(root, tabs) =
          {link \in Nat \X Indices : \E p \in Paths, k \in 1 .. 3 :
             link = <<R(p, k), p[k]>> /\ R(p, k + 1) # Absent}
    BY DEF Links, R
  <2> HIDE DEF new
  <2> QED
    BY <1>9, <2>1, <2>2, <2>3
<1>11. new \notin Links(root, tabs)
  <2> SUFFICES ASSUME NEW p \in Paths, NEW k \in 1 .. 3,
                      new = <<R(p, k), p[k]>>, R(p, k + 1) # Absent
               PROVE  FALSE
    BY DEF Links, R
  <2>1. R(p, k) = table /\ p[k] = v[level]
    OBVIOUS
  <2>2. k = level /\ SamePath(p, v, level)
    BY <1>1, <1>7, <2>1
  <2>3. SamePath(p, v, level + 1)
    BY <1>1, <2>1, <2>2, SamePathFacts
  <2> QED
    BY <1>4, <2>2, <2>3
<1> QED
  BY <1>8, <1>10, <1>11

(* The tables of one level, and the links out of them.                     *)
Level(k) == {page \in Nat : \E p \in Paths : Reach(PML4, tables, p, k) = page}

LevelLinks(k) ==
  {link \in Nat \X Indices :
     \E p \in Paths : /\ link = <<Reach(PML4, tables, p, k), p[k]>>
                      /\ Reach(PML4, tables, p, k + 1) # Absent}

LEMMA LevelFacts ==
  ASSUME TablesOK, Tree(PML4, tables), NEW k \in 1 .. 3
  PROVE  /\ LinksOf(Level(k)) = LevelLinks(k)
         /\ Targets(LevelLinks(k)) = Level(k + 1)
<1> DEFINE R(p, j) == Reach(PML4, tables, p, j)
<1>1. k \in 1 .. 4 /\ k + 1 \in 1 .. 4 /\ k \in 1 .. 5
  OBVIOUS
<1>2. DOMAIN tables \subseteq Nat
  BY DEF TablesOK
<1>3. \A p \in Paths : R(p, k) \in DOMAIN tables \cup {Absent}
                       /\ R(p, k + 1) \in DOMAIN tables \cup {Absent}
  BY <1>1 DEF Tree
<1>4. \A p \in Paths : R(p, k + 1) = Follow(tables, R(p, k), p[k])
  BY <1>1, ReachStep
<1>5. ASSUME NEW p \in Paths, R(p, k) # Absent
      PROVE  R(p, k + 1) = Entry(R(p, k), p[k])
  <2>1. R(p, k) \in DOMAIN tables /\ ~(R(p, k) < 0)
    BY <1>2, <1>3, <1>5
  <2>2. R(p, k + 1) = Follow(tables, R(p, k), p[k])
    BY <1>4
  <2> HIDE DEF R
  <2> QED
    BY <2>1, <2>2 DEF Follow, Entry
<1>6. ASSUME NEW p \in Paths, R(p, k) = Absent
      PROVE  R(p, k + 1) = Absent
  <2>1. R(p, k + 1) = Follow(tables, R(p, k), p[k])
    BY <1>4
  <2> HIDE DEF R
  <2> QED
    BY <1>6, <2>1 DEF Follow, Absent
<1>7. ASSUME NEW p \in Paths, NEW i \in Indices
      PROVE  \E q \in Paths : R(q, k) = R(p, k) /\ q[k] = i
  <2> DEFINE q == [p EXCEPT ![k] = i]
  <2>1. q \in Paths /\ q[k] = i
    BY <1>1 DEF Paths
  <2>2. SamePath(q, p, k)
    BY <1>1 DEF SamePath, Paths
  <2> HIDE DEF q
  <2>3. R(q, k) = R(p, k)
    BY <1>1, <2>1, <2>2, SamePathReach
  <2> QED
    BY <2>1, <2>3
<1>8. \A p \in Paths : p[k] \in Indices
  BY <1>1 DEF Paths
<1>9. Level(k) = {page \in Nat : \E p \in Paths : R(p, k) = page}
      /\ Level(k + 1) = {page \in Nat : \E p \in Paths : R(p, k + 1) = page}
  BY DEF Level
<1>10. LevelLinks(k) =
         {link \in Nat \X Indices :
            \E p \in Paths : link = <<R(p, k), p[k]>> /\ R(p, k + 1) # Absent}
  BY DEF LevelLinks
<1> HIDE DEF R
<1>11. ASSUME NEW link \in LinksOf(Level(k))
       PROVE  link \in LevelLinks(k)
  <2>1. /\ link \in Level(k) \X Indices
        /\ Entry(link[1], link[2]) >= 0
    BY DEF LinksOf
  <2>2. PICK page \in Level(k), i \in Indices : link = <<page, i>>
    BY <2>1
  <2>3. page \in Nat /\ Entry(page, i) >= 0
    BY <1>9, <2>1, <2>2
  <2>4. PICK p \in Paths : R(p, k) = page
    BY <1>9, <2>2
  <2>5. PICK q \in Paths : R(q, k) = page /\ q[k] = i
    BY <1>7, <2>4
  <2>6. R(q, k + 1) = Entry(page, i)
    BY <1>5, <2>3, <2>5 DEF Absent
  <2>7. R(q, k + 1) # Absent
    BY <2>3, <2>6 DEF Absent
  <2> QED
    BY <1>10, <2>2, <2>3, <2>5, <2>7
<1>12. ASSUME NEW link \in LevelLinks(k)
       PROVE  /\ link \in LinksOf(Level(k))
              /\ Entry(link[1], link[2]) \in Level(k + 1)
  <2>1. PICK p \in Paths : link = <<R(p, k), p[k]>> /\ R(p, k + 1) # Absent
    BY <1>10
  <2>2. R(p, k) # Absent /\ R(p, k + 1) \in Nat
    BY <1>2, <1>3, <1>6, <2>1
  <2>3. R(p, k) \in Nat /\ R(p, k) \in Level(k) /\ R(p, k + 1) \in Level(k + 1)
    BY <1>2, <1>3, <1>9, <2>2
  <2>4. Entry(R(p, k), p[k]) = R(p, k + 1)
    BY <1>5, <2>2
  <2>5. link[1] = R(p, k) /\ link[2] = p[k] /\ link \in Level(k) \X Indices
    BY <1>8, <2>1, <2>3
  <2> QED
    BY <2>2, <2>3, <2>4, <2>5 DEF LinksOf
<1>13. ASSUME NEW page \in Level(k + 1)
       PROVE  \E link \in LevelLinks(k) : Entry(link[1], link[2]) = page
  <2>1. PICK p \in Paths : R(p, k + 1) = page
    BY <1>9
  <2>2. page \in Nat /\ page # Absent
    BY <1>9 DEF Absent
  <2>3. R(p, k) # Absent
    BY <1>6, <2>1, <2>2
  <2>4. R(p, k) \in Nat /\ Entry(R(p, k), p[k]) = page
    BY <1>2, <1>3, <1>5, <2>1, <2>3
  <2> DEFINE link == <<R(p, k), p[k]>>
  <2>5. link \in LevelLinks(k)
    BY <1>8, <1>10, <2>1, <2>2, <2>4
  <2>6. Entry(link[1], link[2]) = page
    BY <2>4
  <2> QED
    BY <2>5, <2>6
<1> QED
  BY <1>11, <1>12, <1>13 DEF Targets

(* The directory of the model's property is the tree of the walks.         *)
LEMMA DirectoryTree ==
  ASSUME TablesOK, Tree(PML4, tables)
  PROVE  /\ DirectoryLinks = Links(PML4, tables)
         /\ {PML4} \cup Targets(DirectoryLinks) = Nodes(PML4, tables)
<1>1. /\ LinksOf(Level(1)) = LevelLinks(1) /\ Targets(LevelLinks(1)) = Level(2)
      /\ LinksOf(Level(2)) = LevelLinks(2) /\ Targets(LevelLinks(2)) = Level(3)
      /\ LinksOf(Level(3)) = LevelLinks(3) /\ Targets(LevelLinks(3)) = Level(4)
  <2>1. 1 \in 1 .. 3 /\ 2 \in 1 .. 3 /\ 3 \in 1 .. 3
        /\ 1 + 1 = 2 /\ 2 + 1 = 3 /\ 3 + 1 = 4
    OBVIOUS
  <2>2. /\ Targets(LevelLinks(1)) = Level(1 + 1)
        /\ Targets(LevelLinks(2)) = Level(2 + 1)
        /\ Targets(LevelLinks(3)) = Level(3 + 1)
        /\ LinksOf(Level(1)) = LevelLinks(1)
        /\ LinksOf(Level(2)) = LevelLinks(2)
        /\ LinksOf(Level(3)) = LevelLinks(3)
    BY <2>1, LevelFacts, Zenon
  <2> QED
    BY <2>1, <2>2
<1>2. Level(1) = {PML4}
  <2>1. \A p : Reach(PML4, tables, p, 1) = PML4
    BY ReachStep
  <2>2. \E p \in Paths : TRUE
    <3>1. Fan \in Nat \ {0}
      BY KernelAssumption
    <3>2. 0 \in Indices
      BY <3>1 DEF Indices
    <3>3. [l \in 1 .. 4 |-> 0] \in Paths
      BY <3>2 DEF Paths
    <3> QED
      BY <3>3
  <2> QED
    BY <2>1, <2>2 DEF Level, TablesOK
<1>3. DirectoryLinks = LevelLinks(1) \cup LevelLinks(2) \cup LevelLinks(3)
  BY <1>1, <1>2 DEF DirectoryLinks
<1>4. Targets(DirectoryLinks) = Level(2) \cup Level(3) \cup Level(4)
  <2>1. \A A, B, C : Targets(A \cup B \cup C)
                       = Targets(A) \cup Targets(B) \cup Targets(C)
    BY DEF Targets
  <2> QED
    BY <1>1, <1>3, <2>1
<1>5. DirectoryLinks = Links(PML4, tables)
  <2>1. \A k \in 1 .. 3 : k = 1 \/ k = 2 \/ k = 3
    OBVIOUS
  <2>2. 1 \in 1 .. 3 /\ 2 \in 1 .. 3 /\ 3 \in 1 .. 3
    OBVIOUS
  <2> QED
    BY <1>3, <2>1, <2>2 DEF LevelLinks, Links
<1>6. Level(1) \cup Level(2) \cup Level(3) \cup Level(4) = Nodes(PML4, tables)
  <2>1. \A page \in Nat : page # Absent
    BY DEF Absent
  <2> QED
    BY <2>1, Levels DEF Level, Nodes, InTree
<1> QED
  BY <1>2, <1>4, <1>5, <1>6

-----------------------------------------------------------------------------
(* Counting the pages the kernel holds *)

Image == KernelImage \ PermanentlyLocked(memoryMap)
Backing == {recovered[v] : v \in DOMAIN recovered}
Gates == {idt} \ {NoPage}

(* EveryBorrowedPageHasOneUse in terms of the tree, and that what it       *)
(* counts can be counted.                                                  *)
OneUse ==
  /\ DOMAIN tables = Nodes(PML4, tables) \cup ClearedTables
  /\ granted = Image \cup Nodes(PML4, tables) \cup Backing \cup Gates
                 \cup PendingTables \cup PendingPages
  /\ Cardinality(granted) =
        Cardinality(Image) + 1 + Cardinality(Links(PML4, tables))
          + Cardinality(DOMAIN recovered) + Cardinality(Gates)
          + Cardinality(PendingTables) + Cardinality(PendingPages)
  /\ IsFiniteSet(Links(PML4, tables))
  /\ IsFiniteSet(DOMAIN recovered)

(* Until PrepareInterrupts there is no page for the IDT, and until the     *)
(* PML4 is borrowed the kernel holds its image and nothing else.           *)
UsesInv ==
  /\ phase \in {"map", "kernel"} => granted = {}
  /\ phase = "kernel" => initialized
  /\ phase = "pml4" => granted = Image
  /\ ~Started \/ Mapping \/ phase = "idt" => idt = NoPage
  /\ Started /\ ~spoiled => OneUse

LEMMA CountTypes ==
  ASSUME AllocInv, OneUse
  PROVE  /\ IsFiniteSet(granted)
         /\ Cardinality(granted) \in Nat
         /\ Cardinality(Image) \in Nat
         /\ Cardinality(Links(PML4, tables)) \in Nat
         /\ Cardinality(DOMAIN recovered) \in Nat
         /\ Cardinality(Gates) \in Nat
         /\ Cardinality(PendingTables) \in Nat
         /\ Cardinality(PendingPages) \in Nat
<1>1. IsFiniteSet(granted)
  <2>1. /\ granted \in SUBSET Tracked(corgiAlloc)
        /\ IsFiniteSet(Tracked(corgiAlloc))
    BY TrackedFacts DEF AllocInv, AllocTypeOK, Allocator
  <2> QED
    BY <2>1, FS_Subset
<1>2. /\ Image \in SUBSET granted /\ Gates \in SUBSET granted
      /\ PendingTables \in SUBSET granted /\ PendingPages \in SUBSET granted
  BY DEF OneUse
<1>3. \A S : IsFiniteSet(S) => Cardinality(S) \in Nat
  BY FS_CardinalityType
<1>4. \A S \in SUBSET granted : Cardinality(S) \in Nat
  BY <1>1, <1>3, FS_Subset
<1> QED
  BY <1>1, <1>2, <1>3, <1>4 DEF OneUse

(* What the calls in progress hold.                                        *)
LEMMA PendingNone ==
  /\ stack = << >> =>
       PendingTables = {} /\ ClearedTables = {} /\ PendingPages = {}
  /\ stack' = << >> =>
       PendingTables' = {} /\ ClearedTables' = {} /\ PendingPages' = {}
<1>1. DOMAIN << >> = {}
  OBVIOUS
<1> QED
  BY <1>1 DEF PendingTables, ClearedTables, PendingPages, Calling

LEMMA PendingOne ==
  ASSUME NEW c
  PROVE  /\ stack = <<c>> =>
              /\ PendingTables = IF c.fresh # Nothing THEN {c.fresh} ELSE {}
              /\ ClearedTables = IF c.zeroed THEN {c.fresh} ELSE {}
              /\ PendingPages = IF phase = "running" /\ c.level > 0
                                THEN {c.physical} ELSE {}
         /\ stack' = <<c>> =>
              /\ PendingTables' = IF c.fresh # Nothing THEN {c.fresh} ELSE {}
              /\ ClearedTables' = IF c.zeroed THEN {c.fresh} ELSE {}
              /\ PendingPages' = IF phase' = "running" /\ c.level > 0
                                 THEN {c.physical} ELSE {}
<1>1. DOMAIN <<c>> = {1} /\ <<c>>[1] = c
  OBVIOUS
<1>2. stack = <<c>> => Calling = {c}
  BY <1>1 DEF Calling
<1>3. stack' = <<c>> => Calling' = {c}
  BY <1>1 DEF Calling
<1> QED
  BY <1>2, <1>3 DEF PendingTables, ClearedTables, PendingPages

(* A step that moves no page from one use to another.                      *)
LEMMA SameUses ==
  ASSUME OneUse,
         Nodes(PML4', tables') = Nodes(PML4, tables),
         Links(PML4', tables') = Links(PML4, tables),
         DOMAIN tables' = Nodes(PML4, tables) \cup ClearedTables',
         recovered' = recovered, idt' = idt, memoryMap' = memoryMap,
         granted' = granted,
         PendingTables' = PendingTables, PendingPages' = PendingPages
  PROVE  OneUse'
<1>1. Image' = Image /\ Backing' = Backing /\ Gates' = Gates
  BY DEF Image, Backing, Gates
<1> QED
  BY <1>1 DEF OneUse

(* One element more.                                                       *)
LEMMA AddOne ==
  ASSUME NEW S, NEW x, IsFiniteSet(S), x \notin S
  PROVE  /\ IsFiniteSet(S \cup {x})
         /\ Cardinality(S \cup {x}) = Cardinality(S) + 1
         /\ Cardinality(S) \in Nat
  BY FS_AddElement, FS_CardinalityType

LEMMA CountOne ==
  /\ Cardinality({}) = 0
  /\ \A x : Cardinality({x}) = 1
  BY FS_EmptySet, FS_Singleton

(* A page is borrowed for the IDT, for a table or for a faulting address.  *)
LEMMA BorrowUses ==
  ASSUME AllocInv, OneUse,
         Nodes(PML4', tables') = Nodes(PML4, tables),
         Links(PML4', tables') = Links(PML4, tables),
         DOMAIN tables' = Nodes(PML4, tables) \cup ClearedTables',
         recovered' = recovered, memoryMap' = memoryMap,
         NEW page, page \notin granted, granted' = granted \cup {page},
         \/ /\ Gates = {} /\ Gates' = {page}
            /\ PendingTables' = PendingTables /\ PendingPages' = PendingPages
         \/ /\ PendingTables = {} /\ PendingTables' = {page}
            /\ Gates' = Gates /\ PendingPages' = PendingPages
         \/ /\ PendingPages = {} /\ PendingPages' = {page}
            /\ PendingTables' = PendingTables /\ Gates' = Gates
  PROVE  OneUse'
<1>1. Image' = Image /\ Backing' = Backing
  BY DEF Image, Backing
<1>2. granted' = Image' \cup Nodes(PML4', tables') \cup Backing' \cup Gates'
                   \cup PendingTables' \cup PendingPages'
  BY <1>1 DEF OneUse
<1>3. /\ Cardinality(granted') = Cardinality(granted) + 1
      /\ Cardinality(granted) \in Nat
  BY CountTypes, AddOne
<1> DEFINE g == Cardinality(Gates)
           t == Cardinality(PendingTables)
           p == Cardinality(PendingPages)
           g2 == Cardinality(Gates')
           t2 == Cardinality(PendingTables')
           p2 == Cardinality(PendingPages')
           i == Cardinality(Image)
           l == Cardinality(Links(PML4, tables))
           r == Cardinality(DOMAIN recovered)
           n == Cardinality(granted)
<1>4. /\ g \in Nat /\ t \in Nat /\ p \in Nat /\ i \in Nat /\ l \in Nat
      /\ r \in Nat /\ n \in Nat
  BY CountTypes
<1>5. \/ g = 0 /\ g2 = 1 /\ t2 = t /\ p2 = p
      \/ t = 0 /\ t2 = 1 /\ g2 = g /\ p2 = p
      \/ p = 0 /\ p2 = 1 /\ g2 = g /\ t2 = t
  <2>1. CASE /\ Gates = {} /\ Gates' = {page}
             /\ PendingTables' = PendingTables /\ PendingPages' = PendingPages
    BY <2>1, CountOne
  <2>2. CASE /\ PendingTables = {} /\ PendingTables' = {page}
             /\ Gates' = Gates /\ PendingPages' = PendingPages
    BY <2>2, CountOne
  <2>3. CASE /\ PendingPages = {} /\ PendingPages' = {page}
             /\ PendingTables' = PendingTables /\ Gates' = Gates
    BY <2>3, CountOne
  <2> QED
    BY <2>1, <2>2, <2>3
<1>6. n = i + 1 + l + r + g + t + p
  BY DEF OneUse
<1>7. n + 1 = i + 1 + l + r + g2 + t2 + p2
  <2> HIDE DEF g, t, p, g2, t2, p2, i, l, r, n
  <2> QED
    BY <1>4, <1>5, <1>6
<1>8. Cardinality(granted') =
        Cardinality(Image') + 1 + Cardinality(Links(PML4', tables'))
          + Cardinality(DOMAIN recovered') + Cardinality(Gates')
          + Cardinality(PendingTables') + Cardinality(PendingPages')
  BY <1>1, <1>3, <1>7
<1> QED
  BY <1>2, <1>8 DEF OneUse

(* A table borrowed is linked, or a page borrowed is put behind the        *)
(* address that faulted.                                                   *)
LEMMA MoveUses ==
  ASSUME AllocInv, OneUse,
         DOMAIN tables' = Nodes(PML4', tables') \cup ClearedTables',
         idt' = idt, memoryMap' = memoryMap, granted' = granted,
         NEW page,
         \/ /\ PendingTables = {page} /\ PendingTables' = {}
            /\ Nodes(PML4', tables') = Nodes(PML4, tables) \cup {page}
            /\ \E link : /\ Links(PML4', tables')
                              = Links(PML4, tables) \cup {link}
                         /\ link \notin Links(PML4, tables)
            /\ recovered' = recovered /\ PendingPages' = PendingPages
         \/ /\ PendingPages = {page} /\ PendingPages' = {}
            /\ \E v : /\ recovered' = Put(recovered, v, page)
                      /\ v \notin DOMAIN recovered
            /\ Nodes(PML4', tables') = Nodes(PML4, tables)
            /\ Links(PML4', tables') = Links(PML4, tables)
            /\ PendingTables' = PendingTables
  PROVE  OneUse'
<1>1. Image' = Image /\ Gates' = Gates
  BY DEF Image, Gates
<1> DEFINE g == Cardinality(Gates)
           t == Cardinality(PendingTables)
           p == Cardinality(PendingPages)
           t2 == Cardinality(PendingTables')
           p2 == Cardinality(PendingPages')
           i == Cardinality(Image)
           l == Cardinality(Links(PML4, tables))
           l2 == Cardinality(Links(PML4', tables'))
           r == Cardinality(DOMAIN recovered)
           r2 == Cardinality(DOMAIN recovered')
           n == Cardinality(granted)
<1>2. /\ g \in Nat /\ t \in Nat /\ p \in Nat /\ i \in Nat /\ l \in Nat
      /\ r \in Nat /\ n \in Nat
      /\ n = i + 1 + l + r + g + t + p
  BY CountTypes DEF OneUse
<1>3. CASE /\ PendingTables = {page} /\ PendingTables' = {}
           /\ Nodes(PML4', tables') = Nodes(PML4, tables) \cup {page}
           /\ \E link : /\ Links(PML4', tables')
                             = Links(PML4, tables) \cup {link}
                        /\ link \notin Links(PML4, tables)
           /\ recovered' = recovered /\ PendingPages' = PendingPages
  <2>1. Backing' = Backing
    BY <1>3 DEF Backing
  <2>2. granted' = Image' \cup Nodes(PML4', tables') \cup Backing' \cup Gates'
                     \cup PendingTables' \cup PendingPages'
    BY <1>1, <1>3, <2>1 DEF OneUse
  <2>3. l2 = l + 1 /\ IsFiniteSet(Links(PML4', tables'))
    BY <1>3, AddOne DEF OneUse
  <2>4. t = 1 /\ t2 = 0
    BY <1>3, CountOne
  <2>5. n = i + 1 + l2 + r + g + t2 + p
    <3> HIDE DEF g, t, p, t2, i, l, l2, r, n
    <3> QED
      BY <1>2, <2>3, <2>4
  <2> QED
    BY <1>1, <1>3, <2>2, <2>3, <2>5 DEF OneUse
<1>4. CASE /\ PendingPages = {page} /\ PendingPages' = {}
           /\ \E v : /\ recovered' = Put(recovered, v, page)
                     /\ v \notin DOMAIN recovered
           /\ Nodes(PML4', tables') = Nodes(PML4, tables)
           /\ Links(PML4', tables') = Links(PML4, tables)
           /\ PendingTables' = PendingTables
  <2>1. PICK v : recovered' = Put(recovered, v, page) /\ v \notin DOMAIN recovered
    BY <1>4
  <2>2. /\ DOMAIN recovered' = DOMAIN recovered \cup {v}
        /\ \A w \in DOMAIN recovered : recovered'[w] = recovered[w]
        /\ recovered'[v] = page
    BY <2>1 DEF Put
  <2>3. Backing' = Backing \cup {page}
    BY <2>2 DEF Backing
  <2>4. granted' = Image' \cup Nodes(PML4', tables') \cup Backing' \cup Gates'
                     \cup PendingTables' \cup PendingPages'
    BY <1>1, <1>4, <2>3 DEF OneUse
  <2>5. r2 = r + 1 /\ IsFiniteSet(DOMAIN recovered')
    BY <2>1, <2>2, AddOne DEF OneUse
  <2>6. p = 1 /\ p2 = 0
    BY <1>4, CountOne
  <2>7. n = i + 1 + l + r2 + g + t + p2
    <3> HIDE DEF g, t, p, p2, i, l, r, r2, n
    <3> QED
      BY <1>2, <2>5, <2>6
  <2> QED
    BY <1>1, <1>4, <2>4, <2>5, <2>7 DEF OneUse
<1> QED
  BY <1>3, <1>4

(* A call begins or a loop ends: nothing is borrowed.                      *)
LEMMA QuietUses ==
  ASSUME OneUse, stack = << >>,
         \/ CallMapMemory
         \/ EndLoop
         \/ \E page \in ConfigPages : EnumerateFunction(page)
         \/ EndPCI
         \/ \E virtual \in Touched : PageFault(virtual)
  PROVE  OneUse'
<1>1. /\ PML4' = PML4 /\ tables' = tables /\ recovered' = recovered
      /\ idt' = idt /\ memoryMap' = memoryMap /\ granted' = granted
  BY DEF CallMapMemory, EndLoop, EnumerateFunction, EndPCI, PageFault, allocVars
<1>2. PendingTables = {} /\ ClearedTables = {} /\ PendingPages = {}
  BY PendingNone
<1>3. \/ stack' = << >>
      \/ \E v, physical : \/ stack' = <<Call(v, physical, 0)>>
                          \/ /\ stack' = <<Call(v, physical, 1)>>
                             /\ phase' # "running"
  BY DEF CallMapMemory, EndLoop, EnumerateFunction, EndPCI, PageFault
<1>4. PendingTables' = {} /\ ClearedTables' = {} /\ PendingPages' = {}
  <2>1. CASE stack' = << >>
    BY <2>1, PendingNone
  <2>2. ASSUME NEW v, NEW physical, NEW level \in {0, 1},
               stack' = <<Call(v, physical, level)>>,
               level = 0 \/ phase' # "running"
        PROVE  PendingTables' = {} /\ ClearedTables' = {} /\ PendingPages' = {}
    <3> DEFINE c == Call(v, physical, level)
    <3>1. c.fresh = Nothing /\ ~c.zeroed /\ c.level = level
      BY DEF Call
    <3> HIDE DEF c
    <3>2. stack' = <<c>>
      BY <2>2 DEF c
    <3>3. ~(phase' = "running" /\ c.level > 0)
      BY <2>2, <3>1
    <3> QED
      BY <3>1, <3>2, <3>3, PendingOne
  <2> QED
    BY <1>3, <2>1, <2>2
<1>5. /\ Nodes(PML4', tables') = Nodes(PML4, tables)
      /\ Links(PML4', tables') = Links(PML4, tables)
      /\ DOMAIN tables' = Nodes(PML4, tables) \cup ClearedTables'
  BY <1>1, <1>2, <1>4 DEF OneUse
<1> QED
  BY <1>1, <1>2, <1>4, <1>5, SameUses

LEMMA DescendUses ==
  ASSUME KernelInv, SoundMaps, OneUse, Descend
  PROVE  OneUse'
<1>1. /\ stack # << >> /\ Top.level \in 1 .. 3 /\ Top.fresh = Nothing
      /\ stack' = ReplaceTop([Top EXCEPT !.table = TopEntry, !.level = @ + 1])
      /\ phase' = phase
      /\ PML4' = PML4 /\ tables' = tables /\ recovered' = recovered
      /\ idt' = idt /\ memoryMap' = memoryMap /\ granted' = granted
  BY DEF Descend, allocVars
<1>2. stack = <<Top>> /\ Top \in Calls
  BY <1>1, CallTables, CallFacts DEF LiveCalls
<1> DEFINE top == Top
           entry == TopEntry
           d == [top EXCEPT !.table = entry, !.level = @ + 1]
<1>3. stack' = <<d>> /\ stack = <<top>>
  BY <1>1, <1>2, SingleCall
<1>4. top \in Calls /\ top.level \in 1 .. 3 /\ top.fresh = Nothing
  BY <1>1, <1>2
<1> HIDE DEF top, entry
<1>5. /\ d.physical = top.physical /\ d.level = top.level + 1
      /\ d.fresh = Nothing /\ d.zeroed = top.zeroed
      /\ top.level > 0 /\ d.level > 0
  BY <1>4 DEF Calls
<1> HIDE DEF d
<1>6. /\ PendingTables' = PendingTables /\ PendingPages' = PendingPages
      /\ ClearedTables' = ClearedTables
  BY <1>1, <1>3, <1>4, <1>5, PendingOne
<1>7. /\ Nodes(PML4', tables') = Nodes(PML4, tables)
      /\ Links(PML4', tables') = Links(PML4, tables)
      /\ DOMAIN tables' = Nodes(PML4, tables) \cup ClearedTables'
  BY <1>1, <1>6 DEF OneUse
<1> QED
  BY <1>1, <1>6, <1>7, SameUses

LEMMA PrepareInterruptsUses ==
  ASSUME KernelInv, OneUse, UsesInv, PrepareInterrupts
  PROVE  OneUse'
<1>1. /\ phase = "idt" /\ stack = << >> /\ stack' = << >> /\ Borrow
      /\ PML4' = PML4 /\ tables' = tables /\ recovered' = recovered
      /\ idt' = returned' /\ idt = NoPage
  BY DEF PrepareInterrupts, KernelInv, Idle, UsesInv
<1>2. /\ PendingTables = {} /\ ClearedTables = {} /\ PendingPages = {}
      /\ PendingTables' = {} /\ ClearedTables' = {} /\ PendingPages' = {}
  BY <1>1, PendingNone
<1>3. /\ Nodes(PML4', tables') = Nodes(PML4, tables)
      /\ Links(PML4', tables') = Links(PML4, tables)
      /\ DOMAIN tables' = Nodes(PML4, tables) \cup ClearedTables'
  BY <1>1, <1>2 DEF OneUse
<1>4. AllocInv /\ memoryMap' = memoryMap
  BY <1>1, BorrowStep DEF KernelInv
<1>5. PICK page : page = returned'
  OBVIOUS
<1>6. CASE page = NoPage
  <2>1. granted' = granted /\ idt' = idt
    BY <1>1, <1>4, <1>5, <1>6, BorrowGives
  <2> QED
    BY <1>1, <1>2, <1>3, <1>4, <2>1, SameUses
<1>7. CASE page # NoPage
  <2>1. page \notin granted /\ granted' = granted \cup {page}
    BY <1>1, <1>4, <1>5, <1>7, BorrowGives
  <2>2. Gates = {} /\ Gates' = {page}
    BY <1>1, <1>5, <1>7 DEF Gates
  <2> QED
    BY <1>1, <1>2, <1>3, <1>4, <2>1, <2>2, BorrowUses
<1> QED
  BY <1>6, <1>7

LEMMA BorrowTableUses ==
  ASSUME KernelInv, SoundMaps, OneUse, BorrowTable, ~spoiled'
  PROVE  OneUse'
<1>1. /\ stack # << >> /\ Top.level \in 1 .. 3 /\ Top.fresh = Nothing
      /\ Borrow
      /\ stack' = ReplaceTop([Top EXCEPT !.fresh = returned'])
      /\ phase' = phase /\ PML4' = PML4 /\ tables' = tables
      /\ recovered' = recovered /\ idt' = idt
  BY DEF BorrowTable
<1>2. stack = <<Top>> /\ CallOK(Top) /\ Top \in Calls
  BY <1>1, CallTables, CallFacts DEF LiveCalls
<1>3. returned' # NoPage
  <2>1. spoiled' = (spoiled \/ ~TableHome(returned'))
    BY Zenon DEF BorrowTable
  <2>2. TableHome(returned')
    BY <2>1, Zenon
  <2> QED
    BY <2>2 DEF TableHome
<1>4. PICK page : page = returned'
  OBVIOUS
<1>5. /\ AllocInv /\ memoryMap' = memoryMap
      /\ page \notin granted /\ granted' = granted \cup {page}
      /\ page \in Nat
  BY <1>1, <1>3, <1>4, BorrowGives, BorrowStep DEF KernelInv
<1> DEFINE top == Top
           d == [top EXCEPT !.fresh = page]
<1>6. stack' = <<d>> /\ stack = <<top>>
  BY <1>1, <1>2, <1>4, SingleCall
<1>7. top \in Calls /\ top.fresh = Nothing /\ ~top.zeroed
  BY <1>1, <1>2, CallFacts DEF CallOK
<1> HIDE DEF top
<1>8. /\ d.physical = top.physical /\ d.level = top.level
      /\ d.fresh = page /\ ~d.zeroed /\ page # Nothing
  BY <1>5, <1>7 DEF Calls, Nothing
<1> HIDE DEF d
<1>9. /\ PendingTables = {} /\ PendingTables' = {page}
      /\ PendingPages' = PendingPages
      /\ ClearedTables = {} /\ ClearedTables' = {}
  BY <1>1, <1>6, <1>7, <1>8, PendingOne
<1>10. /\ Nodes(PML4', tables') = Nodes(PML4, tables)
       /\ Links(PML4', tables') = Links(PML4, tables)
       /\ DOMAIN tables' = Nodes(PML4, tables) \cup ClearedTables'
       /\ Gates' = Gates
  BY <1>1, <1>9 DEF OneUse, Gates
<1> QED
  BY <1>1, <1>5, <1>9, <1>10, BorrowUses

LEMMA BorrowNewPageUses ==
  ASSUME KernelInv, SoundMaps, OneUse, BorrowNewPage
  PROVE  OneUse'
<1>1. /\ stack # << >> /\ phase = "running" /\ Borrow /\ Top.level = 0
      /\ PML4' = PML4 /\ tables' = tables
      /\ recovered' = recovered /\ idt' = idt
      /\ \/ returned' = NoPage /\ stack' = << >>
         \/ /\ returned' # NoPage /\ phase' = "running"
            /\ stack' = ReplaceTop(Call(Top.virtual, returned', 1))
  BY DEF BorrowNewPage
<1>2. stack = <<Top>> /\ CallOK(Top)
  BY <1>1, CallTables
<1>3. PICK page, v : page = returned' /\ v = Top.virtual
  OBVIOUS
<1>4. /\ AllocInv /\ memoryMap' = memoryMap
      /\ page = NoPage => granted' = granted
      /\ page # NoPage =>
           page \notin granted /\ granted' = granted \cup {page}
  BY <1>1, <1>3, BorrowGives, BorrowStep DEF KernelInv
<1>5. PendingTables = {} /\ ClearedTables = {} /\ PendingPages = {}
  <2> DEFINE top == Top
  <2>1. stack = <<top>> /\ top.fresh = Nothing /\ ~top.zeroed /\ ~(top.level > 0)
    BY <1>1, <1>2, CallFacts DEF CallOK
  <2> HIDE DEF top
  <2> QED
    BY <2>1, PendingOne
<1>6. PendingTables' = {} /\ ClearedTables' = {}
      /\ PendingPages' = IF page = NoPage THEN {} ELSE {page}
  <2>1. CASE page = NoPage
    BY <1>1, <1>3, <2>1, PendingNone
  <2>2. CASE page # NoPage
    <3> DEFINE c == Call(v, page, 1)
    <3>1. c.fresh = Nothing /\ ~c.zeroed /\ c.level > 0 /\ c.physical = page
      BY DEF Call
    <3> HIDE DEF c
    <3>2. stack' = <<c>> /\ phase' = "running"
      BY <1>1, <1>2, <1>3, <2>2, SingleCall DEF c
    <3> QED
      BY <2>2, <3>1, <3>2, PendingOne
  <2> QED
    BY <2>1, <2>2
<1>7. /\ Nodes(PML4', tables') = Nodes(PML4, tables)
      /\ Links(PML4', tables') = Links(PML4, tables)
      /\ DOMAIN tables' = Nodes(PML4, tables) \cup ClearedTables'
      /\ Gates' = Gates
  BY <1>1, <1>5, <1>6 DEF OneUse, Gates
<1>8. CASE page = NoPage
  BY <1>1, <1>4, <1>5, <1>6, <1>7, <1>8, SameUses
<1>9. CASE page # NoPage
  BY <1>1, <1>4, <1>5, <1>6, <1>7, <1>9, BorrowUses
<1> QED
  BY <1>8, <1>9

LEMMA ClearTableUses ==
  ASSUME KernelInv, SoundMaps, OneUse, ClearTable
  PROVE  OneUse'
<1>1. /\ stack # << >> /\ Top.fresh # Nothing /\ ~Top.zeroed
      /\ stack' = ReplaceTop([Top EXCEPT !.zeroed = TRUE])
      /\ phase' = phase /\ recovered' = recovered
      /\ idt' = idt /\ memoryMap' = memoryMap /\ granted' = granted
  BY DEF ClearTable, allocVars
<1>2. stack = <<Top>> /\ Top \in Calls
  BY <1>1, CallTables, CallFacts DEF LiveCalls
<1>3. PICK page \in Nat :
         /\ page = Top.fresh
         /\ tables' = Put(tables, page, ZeroTable)
         /\ \A p \in Paths, k \in 1 .. 5 :
              Reach(PML4', tables', p, k) = Reach(PML4, tables, p, k)
  BY ClearTableWalks
<1> DEFINE top == Top
           d == [top EXCEPT !.zeroed = TRUE]
<1>4. stack' = <<d>> /\ stack = <<top>>
  BY <1>1, <1>2, SingleCall
<1>5. top \in Calls /\ top.fresh = page /\ page # Nothing /\ ~top.zeroed
  BY <1>1, <1>2, <1>3
<1> HIDE DEF top
<1>6. /\ d.physical = top.physical /\ d.level = top.level
      /\ d.fresh = page /\ d.zeroed
  BY <1>5 DEF Calls
<1> HIDE DEF d
<1>7. /\ PendingTables' = PendingTables /\ PendingPages' = PendingPages
      /\ ClearedTables = {} /\ ClearedTables' = {page}
  BY <1>1, <1>4, <1>5, <1>6, PendingOne
<1>8. /\ Nodes(PML4', tables') = Nodes(PML4, tables)
      /\ Links(PML4', tables') = Links(PML4, tables)
  <2>1. \A k \in 1 .. 4 : k \in 1 .. 5
    OBVIOUS
  <2>2. \A p \in Paths : \A k \in 1 .. 4 :
           Reach(PML4', tables', p, k) = Reach(PML4, tables, p, k)
    BY <1>3, <2>1
  <2> QED
    BY <2>2, SameNodes
<1>9. DOMAIN tables' = Nodes(PML4, tables) \cup ClearedTables'
  <2>1. DOMAIN tables' = DOMAIN tables \cup {page}
    BY <1>3 DEF Put
  <2> QED
    BY <1>7, <2>1 DEF OneUse
<1> QED
  BY <1>1, <1>7, <1>8, <1>9, SameUses

LEMMA LinkTableUses ==
  ASSUME KernelInv, SoundMaps, OneUse, LinkTable
  PROVE  OneUse'
<1>1. /\ stack # << >> /\ Top.fresh # Nothing /\ Top.zeroed
      /\ stack' = ReplaceTop([Top EXCEPT !.table = Top.fresh, !.level = @ + 1,
                                         !.fresh = Nothing, !.zeroed = FALSE])
      /\ phase' = phase /\ PML4' = PML4 /\ recovered' = recovered
      /\ idt' = idt /\ memoryMap' = memoryMap /\ granted' = granted
  BY DEF LinkTable, allocVars
<1>2. /\ stack = <<Top>> /\ Top \in Calls
      /\ PML4 \in Nat /\ TabsOK(tables) /\ AllocInv
      /\ Top.table \in Nat
  BY <1>1, CallTables, CallFacts DEF LiveCalls, KernelInv
<1>3. PICK page \in Nat, path \in Paths, level \in 1 .. 3, table \in Nat :
         /\ page = Top.fresh /\ path = Path(Top.virtual)
         /\ level = Top.level /\ table = Top.table
         /\ table = Reach(PML4, tables, path, level)
         /\ Reach(PML4, tables, path, level + 1) = Absent
         /\ page \in granted /\ TableHome(page)
         /\ DOMAIN tables' = DOMAIN tables
         /\ Tree(PML4', tables')
         /\ \A p \in Paths, k \in 1 .. 5 :
              Reach(PML4', tables', p, k)
                = IF SamePath(p, path, level + 1) /\ k = level + 1 THEN page
                  ELSE Reach(PML4, tables, p, k)
  BY LinkTableWalks
<1>4. /\ Nodes(PML4', tables') = Nodes(PML4, tables) \cup {page}
      /\ \E link : /\ Links(PML4', tables') = Links(PML4, tables) \cup {link}
                   /\ link \notin Links(PML4, tables)
  <2>1. Tree(PML4, tables)
    BY DEF SoundMaps, TreeInv
  <2>2. /\ Nodes(PML4', tables') = Nodes(PML4, tables) \cup {page}
        /\ Links(PML4', tables')
             = Links(PML4, tables) \cup {<<table, path[level]>>}
        /\ <<table, path[level]>> \notin Links(PML4, tables)
    <3>1. PICK root, tabs, root2, tabs2 :
             root = PML4 /\ tabs = tables /\ root2 = PML4' /\ tabs2 = tables'
      OBVIOUS
    <3>2. /\ root \in Nat /\ TabsOK(tabs) /\ Tree(root, tabs)
          /\ page \in Nat /\ path \in Paths /\ level \in 1 .. 3 /\ table \in Nat
          /\ table = Reach(root, tabs, path, level)
          /\ Reach(root, tabs, path, level + 1) = Absent
      BY <1>2, <1>3, <2>1, <3>1
    <3>3. Grown(root, tabs, root2, tabs2, path, level, page, table)
      <4>1. \A p \in Paths, k \in 1 .. 5 :
              Reach(root2, tabs2, p, k)
                = IF SamePath(p, path, level + 1) /\ k = level + 1 THEN page
                  ELSE Reach(root, tabs, p, k)
        BY <1>3, <3>1
      <4> QED
        BY <3>2, <4>1 DEF Grown
    <3>4. /\ Nodes(root2, tabs2) = Nodes(root, tabs) \cup {page}
          /\ Links(root2, tabs2)
               = Links(root, tabs) \cup {<<table, path[level]>>}
          /\ <<table, path[level]>> \notin Links(root, tabs)
      BY <3>3, LinkNodes
    <3> QED
      BY <3>1, <3>4
  <2> QED
    BY <2>2
<1> DEFINE top == Top
           d == [top EXCEPT !.table = page, !.level = @ + 1,
                            !.fresh = Nothing, !.zeroed = FALSE]
<1>5. stack' = <<d>> /\ stack = <<top>>
  BY <1>1, <1>2, <1>3, SingleCall
<1>6. /\ top \in Calls /\ top.fresh = page /\ page # Nothing /\ top.zeroed
      /\ top.level \in 1 .. 3
  BY <1>1, <1>2, <1>3
<1> HIDE DEF top
<1>7. /\ d.physical = top.physical /\ d.level = top.level + 1
      /\ d.fresh = Nothing /\ ~d.zeroed
      /\ top.level > 0 /\ d.level > 0
  BY <1>6 DEF Calls
<1> HIDE DEF d
<1>8. /\ PendingTables = {page} /\ PendingTables' = {}
      /\ ClearedTables = {page} /\ ClearedTables' = {}
      /\ PendingPages' = PendingPages
  BY <1>1, <1>5, <1>6, <1>7, PendingOne
<1>9. DOMAIN tables' = Nodes(PML4', tables') \cup ClearedTables'
  BY <1>3, <1>4, <1>8 DEF OneUse
<1> QED
  BY <1>1, <1>2, <1>4, <1>8, <1>9, MoveUses

LEMMA MapPageUses ==
  ASSUME KernelInv, SoundMaps, OneUse, MapPage
  PROVE  OneUse'
<1>1. /\ stack # << >> /\ Top.level = 4
      /\ stack' = Below
      /\ phase' = phase /\ PML4' = PML4
      /\ idt' = idt /\ memoryMap' = memoryMap /\ granted' = granted
      /\ recovered' = IF phase = "running"
                      THEN Put(recovered, Top.virtual, Top.physical)
                      ELSE recovered
  BY DEF MapPage, allocVars
<1>2. stack = <<Top>> /\ Top \in Calls /\ CallOK(Top) /\ AllocInv
  BY <1>1, CallTables, CallFacts DEF LiveCalls, KernelInv
<1>3. PICK v \in Virtual, page \in Nat, path \in Paths :
         /\ v = Top.virtual /\ page = Top.physical /\ path = Path(v)
         /\ phase = "running" => Reach(PML4, tables, path, 5) = Absent
         /\ phase # "running" => page = v
         /\ DOMAIN tables' = DOMAIN tables
         /\ Tree(PML4', tables')
         /\ \A p \in Paths : \A k \in 1 .. 4 :
              Reach(PML4', tables', p, k) = Reach(PML4, tables, p, k)
         /\ Reach(PML4', tables', path, 5) = page
         /\ \A p \in Paths : p # path =>
              Reach(PML4', tables', p, 5) = Reach(PML4, tables, p, 5)
  BY MapPageWalks
<1>4. stack' = << >>
  BY <1>1, <1>2, SingleCall
<1> DEFINE top == Top
<1>5. /\ stack = <<top>> /\ top.fresh = Nothing /\ ~top.zeroed
      /\ top.level > 0 /\ top.physical = page
  BY <1>1, <1>2, <1>3, CallFacts DEF CallOK
<1> HIDE DEF top
<1>6. /\ PendingTables = {} /\ PendingTables' = {}
      /\ ClearedTables = {} /\ ClearedTables' = {}
      /\ PendingPages = IF phase = "running" THEN {page} ELSE {}
      /\ PendingPages' = {}
  BY <1>4, <1>5, PendingOne, PendingNone
<1>7. /\ Nodes(PML4', tables') = Nodes(PML4, tables)
      /\ Links(PML4', tables') = Links(PML4, tables)
  BY <1>3, SameNodes
<1>8. /\ DOMAIN tables' = Nodes(PML4, tables) \cup ClearedTables'
      /\ DOMAIN tables' = Nodes(PML4', tables') \cup ClearedTables'
  BY <1>3, <1>6, <1>7 DEF OneUse
<1>9. CASE phase = "running"
  <2>1. recovered' = Put(recovered, v, page)
    BY <1>1, <1>3, <1>9
  <2>2. v \notin DOMAIN recovered
    <3> SUFFICES ASSUME v \in DOMAIN recovered
                 PROVE  FALSE
      OBVIOUS
    <3>1. Walk(v) = recovered[v]
      BY DEF SoundMaps, MapsInv
    <3>2. Walk(v) = Absent
      <4>1. Virtual \subseteq Nat
        BY DEF Virtual
      <4> QED
        BY <1>3, <1>9, <4>1, WalkReach
    <3>3. recovered[v] \in Nat
      <4>1. recovered \in [DOMAIN recovered -> Tracked(corgiAlloc)]
        BY DEF KernelInv, TypeOK
      <4>2. Tracked(corgiAlloc) \subseteq Nat
        BY <1>2, TrackedFacts DEF AllocInv, AllocTypeOK, Allocator
      <4> QED
        BY <4>1, <4>2
    <3> QED
      BY <3>1, <3>2, <3>3 DEF Absent
  <2>3. PendingPages = {page}
    BY <1>6, <1>9
  <2>4. \E w : recovered' = Put(recovered, w, page) /\ w \notin DOMAIN recovered
    BY <2>1, <2>2
  <2> QED
    BY <1>1, <1>2, <1>6, <1>7, <1>8, <2>3, <2>4, MoveUses
<1>10. CASE phase # "running"
  <2>1. recovered' = recovered /\ PendingPages' = PendingPages
    BY <1>1, <1>6, <1>10
  <2> QED
    BY <1>1, <1>6, <1>7, <1>8, <2>1, SameUses
<1> QED
  BY <1>9, <1>10

(* The PML4 is the first page put to use.                                  *)
LEMMA BorrowPML4Uses ==
  ASSUME KernelInv, UsesInv, BorrowPML4, DOMAIN recovered = {}, ~spoiled'
  PROVE  OneUse'
<1>1. /\ phase = "pml4" /\ Borrow
      /\ PML4' = returned' /\ tables' = [t \in {PML4'} |-> ZeroTable]
      /\ stack' = stack /\ idt' = idt /\ recovered' = recovered
      /\ spoiled' = ~TableHome(returned')
  BY DEF BorrowPML4
<1>2. stack = << >> /\ AllocInv /\ granted = Image /\ idt = NoPage
  BY <1>1 DEF KernelInv, Idle, UsesInv, Started
<1>3. returned' # NoPage
  <2>1. TableHome(returned')
    BY <1>1, Zenon
  <2> QED
    BY <2>1 DEF TableHome
<1>4. PICK page : page = returned'
  OBVIOUS
<1>5. /\ page \in Nat /\ page \notin granted
      /\ granted' = granted \cup {page} /\ memoryMap' = memoryMap
  BY <1>1, <1>2, <1>3, <1>4, BorrowGives, BorrowStep
<1>6. PendingTables' = {} /\ ClearedTables' = {} /\ PendingPages' = {}
  BY <1>1, <1>2, PendingNone
<1>7. Image' = Image /\ Gates' = {} /\ Backing' = {}
  BY <1>1, <1>2, <1>5 DEF Image, Gates, Backing
<1>8. PML4' = page /\ tables' = [t \in {page} |-> ZeroTable]
  BY <1>1, <1>4
<1>9. Nodes(PML4', tables') = {page} /\ Links(PML4', tables') = {}
  BY <1>5, <1>8, RootNodes
<1>10. DOMAIN tables' = Nodes(PML4', tables') \cup ClearedTables'
  BY <1>6, <1>8, <1>9
<1>11. granted' = Image' \cup Nodes(PML4', tables') \cup Backing' \cup Gates'
                    \cup PendingTables' \cup PendingPages'
  BY <1>2, <1>5, <1>6, <1>7, <1>9
<1>12. IsFiniteSet(granted)
  <2>1. /\ granted \in SUBSET Tracked(corgiAlloc)
        /\ IsFiniteSet(Tracked(corgiAlloc))
    BY <1>2, TrackedFacts DEF AllocInv, AllocTypeOK, Allocator
  <2> QED
    BY <2>1, FS_Subset
<1>13. /\ Cardinality(granted') = Cardinality(Image) + 1
       /\ Cardinality(Image) \in Nat
  BY <1>2, <1>5, <1>12, AddOne
<1>14. /\ Cardinality(Links(PML4', tables')) = 0
       /\ Cardinality(DOMAIN recovered') = 0
       /\ Cardinality(Gates') = 0
       /\ Cardinality(PendingTables') = 0
       /\ Cardinality(PendingPages') = 0
       /\ IsFiniteSet(Links(PML4', tables')) /\ IsFiniteSet(DOMAIN recovered')
  BY <1>1, <1>6, <1>7, <1>9, CountOne, FS_EmptySet
<1>15. Cardinality(granted') =
         Cardinality(Image') + 1 + Cardinality(Links(PML4', tables'))
           + Cardinality(DOMAIN recovered') + Cardinality(Gates')
           + Cardinality(PendingTables') + Cardinality(PendingPages')
  BY <1>7, <1>13, <1>14
<1> QED
  BY <1>10, <1>11, <1>14, <1>15 DEF OneUse

(* StealPages takes the whole image but for what boot locked already.      *)
LEMMA StealKernelUses ==
  ASSUME AllocInv, StealKernel, granted = {}
  PROVE  granted' = Image'
<1>1. /\ initialized /\ memoryMap' = memoryMap
      /\ granted' = granted \cup (KernelImage \cap Clear(corgiAlloc))
  BY DEF StealKernel, Steal
<1>2. Clear(corgiAlloc) = Tracked(corgiAlloc) \ PermanentlyLocked(memoryMap)
  BY <1>1 DEF AllocInv, EveryBitHasOneOwner, Clear
<1>3. KernelImage \subseteq Tracked(corgiAlloc)
  <2> DEFINE total == GetMemorySize(memoryMap)
             q == total \div BitsPerByte
  <2>1. memoryMap \in MemoryMaps /\ corgiAlloc.Size = ClearBitmap(memoryMap).Size
    BY <1>1 DEF AllocInv, AllocTypeOK, BootShape
  <2>2. total \in Nat /\ KernelImage \subseteq 0 .. total - 1
    BY <2>1, MemoryMapsAssumption, KernelAssumption
  <2>3. corgiAlloc.Size = q + 1
    BY <2>1 DEF ClearBitmap, EmptyAllocator
  <2>4. /\ BitsPerByte \in Nat \ {0}
        /\ q \in Nat /\ total % BitsPerByte \in 0 .. BitsPerByte - 1
        /\ total = BitsPerByte * q + (total % BitsPerByte)
    BY <2>2, SizesAssumption, Division
  <2> HIDE DEF total, q
  <2>5. total < (q + 1) * BitsPerByte
    <3>1. PICK r \in 0 .. BitsPerByte - 1 : total = BitsPerByte * q + r
      BY <2>4
    <3>2. (q + 1) * BitsPerByte = BitsPerByte * q + BitsPerByte
      BY <2>4
    <3>3. BitsPerByte * q \in Nat
      BY <2>4
    <3> QED
      BY <2>2, <2>4, <3>1, <3>2, <3>3
  <2>6. corgiAlloc.Size \in Nat
    BY <2>3, <2>4
  <2>7. \A p : p \in Tracked(corgiAlloc) <=> p \in Nat /\ p < (q + 1) * BitsPerByte
    BY <2>3, <2>6, TrackedFacts
  <2>8. (q + 1) * BitsPerByte \in Nat
    BY <2>4
  <2> QED
    BY <2>2, <2>5, <2>7, <2>8
<1> QED
  BY <1>1, <1>2, <1>3 DEF Image

LEMMA InitUsesInv == Init => UsesInv
  BY DEF Init, AllocInit, UsesInv, Started

(* The steps before there is a PML4.                                       *)
LEMMA EarlyStepUses ==
  ASSUME TranslationInv, UsesInv, ~Started, Next
  PROVE  UsesInv'
<1>1. KernelInv /\ DOMAIN recovered = {} /\ idt = NoPage /\ ~spoiled
      /\ phase \in {"map", "kernel", "pml4"} /\ stack = << >>
  BY DEF TranslationInv, UsesInv, Started, KernelInv, Idle
<1>2. ReadMap \/ StealKernel \/ BorrowPML4
  <2>1. ~MapMemory
    BY <1>1 DEF MapMemory, Descend, BorrowTable, ClearTable, LinkTable,
      TableFault, UnhandledFault, Runaway, MapPage
  <2>2. ~BorrowNewPage /\ \A virtual \in Touched : ~PageFault(virtual)
    BY <1>1 DEF BorrowNewPage, PageFault
  <2>3. /\ ~CallMapMemory /\ ~EndLoop /\ ~EndPCI /\ ~PrepareInterrupts
        /\ \A page \in ConfigPages : ~EnumerateFunction(page)
    BY <1>1
    DEF CallMapMemory, EndLoop, EndPCI, PrepareInterrupts, EnumerateFunction
  <2> QED
    BY <2>1, <2>2, <2>3 DEF Next, Prepare
<1>3. CASE ReadMap
  BY <1>1, <1>3 DEF ReadMap, Boot, UsesInv, Started
<1>4. CASE StealKernel
  <2>1. granted' = Image'
    BY <1>1, <1>4, StealKernelUses DEF StealKernel, UsesInv, KernelInv
  <2> QED
    BY <1>1, <1>4, <2>1 DEF StealKernel, UsesInv, Started
<1>5. CASE BorrowPML4
  <2>1. phase' = "identity" /\ idt' = idt
    BY <1>5 DEF BorrowPML4
  <2>2. ~spoiled' => OneUse'
    BY <1>1, <1>5, BorrowPML4Uses
  <2> QED
    BY <1>1, <2>1, <2>2 DEF UsesInv
<1> QED
  BY <1>2, <1>3, <1>4, <1>5

LEMMA LateStepUses ==
  ASSUME TranslationInv, UsesInv, Started, Next, ~spoiled'
  PROVE  OneUse'
<1>1. ~spoiled /\ KernelInv /\ SoundMaps /\ OneUse
  <2>1. ~spoiled
    BY LateStep, Zenon
  <2> QED
    BY <2>1 DEF TranslationInv, UsesInv
<1>2. CASE Prepare
  <2>1. ~ReadMap /\ ~StealKernel /\ ~BorrowPML4
    BY DEF Started, ReadMap, StealKernel, BorrowPML4
  <2>2. CASE \/ CallMapMemory
             \/ EndLoop
             \/ \E page \in ConfigPages : EnumerateFunction(page)
             \/ EndPCI
    <3>1. stack = << >>
      BY <2>2 DEF CallMapMemory, EndLoop, EnumerateFunction, EndPCI
    <3> QED
      BY <1>1, <2>2, <3>1, QuietUses
  <2>3. CASE PrepareInterrupts
    BY <1>1, <2>3, PrepareInterruptsUses
  <2> QED
    BY <1>2, <2>1, <2>2, <2>3 DEF Prepare
<1>3. CASE MapMemory
  <2>1. ~TableFault /\ ~UnhandledFault /\ ~Runaway
    BY <1>1, NoTableFault
  <2>2. CASE Descend
    BY <1>1, <2>2, DescendUses
  <2>3. CASE BorrowTable
    BY <1>1, <2>3, BorrowTableUses
  <2>4. CASE ClearTable
    BY <1>1, <2>4, ClearTableUses
  <2>5. CASE LinkTable
    BY <1>1, <2>5, LinkTableUses
  <2>6. CASE MapPage
    BY <1>1, <2>6, MapPageUses
  <2> QED
    BY <1>3, <2>1, <2>2, <2>3, <2>4, <2>5, <2>6 DEF MapMemory
<1>4. CASE BorrowNewPage
  BY <1>1, <1>4, BorrowNewPageUses
<1>5. CASE \E virtual \in Touched : PageFault(virtual)
  <2>1. stack = << >>
    BY <1>5 DEF PageFault
  <2> QED
    BY <1>1, <1>5, <2>1, QuietUses
<1> QED
  BY <1>2, <1>3, <1>4, <1>5 DEF Next

(* Only PrepareInterrupts gives the IDT a page.                            *)
LEMMA GatesWait ==
  ASSUME UsesInv, Started, Next
  PROVE  Mapping' \/ phase' = "idt" => idt' = NoPage
<1>1. CASE PrepareInterrupts
  <2>1. phase' = "reset" \/ phase' = "running"
    BY <1>1 DEF PrepareInterrupts
  <2> QED
    BY <2>1 DEF Mapping
<1>2. CASE Prepare /\ ~PrepareInterrupts
  <2>1. ~ReadMap /\ ~StealKernel /\ ~BorrowPML4
    BY DEF Started, ReadMap, StealKernel, BorrowPML4
  <2>2. idt' = idt /\ Mapping
    BY <1>2, <2>1 DEF Prepare, CallMapMemory, EndLoop, EnumerateFunction,
      EndPCI, Mapping
  <2> QED
    BY <2>2 DEF UsesInv
<1>3. CASE MapMemory \/ BorrowNewPage \/ \E virtual \in Touched : PageFault(virtual)
  <2>1. idt' = idt /\ (phase' = phase \/ phase' \in {"reset", "runaway", "panic"})
    BY <1>3 DEF MapMemory, Descend, BorrowTable, ClearTable, LinkTable,
      TableFault, UnhandledFault, Runaway, MapPage, BorrowNewPage, PageFault
  <2> QED
    BY <2>1 DEF UsesInv, Mapping
<1> QED
  BY <1>1, <1>2, <1>3 DEF Next

LEMMA NextUsesInv ==
  ASSUME TranslationInv, UsesInv, [Next]_vars
  PROVE  UsesInv'
<1>1. CASE Next /\ ~Started
  BY <1>1, EarlyStepUses
<1>2. CASE Next /\ Started
  <2>1. Started'
    BY <1>2, LateStep
  <2>2. ~spoiled' => OneUse'
    BY <1>2, LateStepUses
  <2>3. Mapping' \/ phase' = "idt" => idt' = NoPage
    BY <1>2, GatesWait
  <2> QED
    BY <2>1, <2>2, <2>3 DEF UsesInv, Started
<1>3. CASE UNCHANGED vars
  <2>1. /\ UNCHANGED allocVars /\ UNCHANGED kernelVars
        /\ memoryMap' = memoryMap /\ granted' = granted
        /\ initialized' = initialized
    BY <1>3 DEF vars, allocVars
  <2>2. OneUse => OneUse'
    BY <2>1 DEF kernelVars, OneUse, Image, Backing, Gates, PendingTables,
      PendingPages, ClearedTables, Calling
  <2> QED
    BY <2>1, <2>2 DEF kernelVars, UsesInv, Started, Mapping, Image
<1> QED
  BY <1>1, <1>2, <1>3

(* While no table had to be put on page 0 or outside the identity map,     *)
(* every page the kernel borrowed has exactly one use, and no page leaks:  *)
(* it is the PML4, the table of one directory entry, the page of one       *)
(* recovered address, the IDT, or held by the call in progress.            *)
THEOREM KernelPages == Spec => []EveryBorrowedPageHasOneUse
<1>1. TranslationInv /\ UsesInv => EveryBorrowedPageHasOneUse
  <2> SUFFICES ASSUME TranslationInv, UsesInv,
                      phase \notin {"map", "kernel", "pml4"}, ~spoiled
               PROVE  LET directory == {PML4} \cup Targets(DirectoryLinks)
                          backing == {recovered[v] : v \in DOMAIN recovered}
                          gates == {idt} \ {NoPage}
                      IN  /\ DOMAIN tables = directory \cup ClearedTables
                          /\ granted =
                               (KernelImage \ PermanentlyLocked(memoryMap))
                                 \cup directory \cup backing \cup gates
                                 \cup PendingTables \cup PendingPages
                          /\ Cardinality(granted) =
                               Cardinality(KernelImage
                                             \ PermanentlyLocked(memoryMap))
                                 + 1 + Cardinality(DirectoryLinks)
                                 + Cardinality(DOMAIN recovered)
                                 + Cardinality(gates)
                                 + Cardinality(PendingTables)
                                 + Cardinality(PendingPages)
    BY DEF EveryBorrowedPageHasOneUse
  <2>1. Started /\ OneUse
    BY DEF Started, UsesInv
  <2>2. TablesOK /\ Tree(PML4, tables)
    BY <2>1, KernelTypes DEF TranslationInv, SoundMaps, TreeInv
  <2>3. /\ DirectoryLinks = Links(PML4, tables)
        /\ {PML4} \cup Targets(DirectoryLinks) = Nodes(PML4, tables)
    BY <2>2, DirectoryTree
  <2> QED
    BY <2>1, <2>3 DEF OneUse, Image, Backing, Gates
<1> QED
  BY <1>1, InitTranslationInv, NextTranslationInv, InitUsesInv, NextUsesInv,
     PTL DEF Spec
===============================================================================
