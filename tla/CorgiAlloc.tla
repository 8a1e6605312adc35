------------------------------ MODULE CorgiAlloc ------------------------------
(***************************************************************************)
(* The physical page allocator of the CorgiOS kernel: class CorgiAlloc     *)
(* (kernel/src/Memory/corgiAlloc.cpp) over class Memory::Bitmap            *)
(* (memory.cpp).  It reads the EFI memory map once, keeps one bit per page *)
(* in a bitmap that it stores in the largest free segment, and serves      *)
(* BorrowPage, LockPages (alias StealPages) and FreePages (alias           *)
(* DropPages).                                                             *)
(*                                                                         *)
(* Addresses are page numbers and sizes are numbers of pages: the code     *)
(* only ever multiplies and divides them by 4096.  nullptr is page 0.  The *)
(* bitmap is the set of pages whose bit is 1.  The three byte counters are *)
(* uint64_t: they are kept here in pages, modulo CounterRange.             *)
(*                                                                         *)
(* The operators of the first half are functions from allocator values to  *)
(* allocator values, so that the modules that compose the allocator with   *)
(* the page tables can run several of them in one step.                    *)
(***************************************************************************)
EXTENDS Integers, Sequences, FiniteSets, FiniteSetsExt

CONSTANTS
  MemoryMaps,    (* the EFI memory maps the firmware may hand over          *)
  BitsPerByte,   (* pages per bitmap byte: 8                                *)
  PageBytes,     (* bytes per page: 4096                                    *)
  LowPages,      (* pages kept back at address 0: 0x100                     *)
  CounterRange,  (* 2^64 / 4096                                             *)
  MaxRun         (* bound: longest page run a client passes in one call     *)

NoPage == 0               \* nullptr
EfiConventionalMemory == 7

Descriptor ==
  [Type : Nat, PhysicalAddress : Nat, NumberOfPages : Nat]

Frames(desc) ==
  desc.PhysicalAddress .. desc.PhysicalAddress + desc.NumberOfPages - 1

IsConventional(desc) == desc.Type = EfiConventionalMemory

(* Memory::GetMemorySize: every descriptor counts, whatever its type.      *)
GetMemorySize(mMap) ==
  MapThenSumSet(LAMBDA i : mMap[i].NumberOfPages, DOMAIN mMap)

ConventionalPages(mMap) ==
  UNION {Frames(mMap[i]) : i \in {j \in DOMAIN mMap : IsConventional(mMap[j])}}

(* The first of the largest conventional segments; nullptr without one.    *)
LargestFreeSegment(mMap) ==
  LET conventional == {i \in DOMAIN mMap : IsConventional(mMap[i])
                                           /\ mMap[i].NumberOfPages > 0}
      largest == {i \in conventional :
                    \A j \in conventional :
                       mMap[j].NumberOfPages <= mMap[i].NumberOfPages}
  IN  IF conventional = {} THEN NoPage
      ELSE mMap[Min(largest)].PhysicalAddress

ASSUME SizesAssumption ==
  /\ BitsPerByte \in Nat \ {0}
  /\ PageBytes \in Nat \ {0}
  /\ LowPages \in Nat \ {0}
  /\ CounterRange \in Nat \ {0}

ASSUME MemoryMapsAssumption ==
  \A mMap \in MemoryMaps :
     /\ mMap \in Seq(Descriptor)
     /\ GetMemorySize(mMap) \in Nat
     /\ LargestFreeSegment(mMap) \in Nat

-----------------------------------------------------------------------------
(* Memory::Bitmap *)

Wrap(n) == n % CounterRange

(* The indices Get and Set accept: index < Size * 8.                       *)
Tracked(a) == 0 .. a.Size * BitsPerByte - 1

(* The pages whose bit is 0: Get says false of an index it does not accept,*)
(* but Set refuses such an index, so it is never taken.                    *)
Clear(a) == Tracked(a) \ a.bits

(* The pages the bitmap's own bytes occupy.                                *)
BitmapPages(a) == a.Buffer .. a.Buffer + a.Size \div PageBytes

-----------------------------------------------------------------------------
(* The page operations.  Each is the loop of the plural form over a run of *)
(* pages; a page already in the wanted state is skipped, counters and all. *)

(* Mutant: LockPage moves the counters before it looks at the bit.         *)
LockPagesCountingAll(a, pages) ==
  [a EXCEPT !.bits = @ \cup (pages \cap Clear(a)),
            !.freeMemory = Wrap(@ - Cardinality(pages)),
            !.usedMemory = Wrap(@ + Cardinality(pages))]

LockPages(a, pages) ==
  LET locked == pages \cap Clear(a)
      n == Cardinality(locked)
  IN  [a EXCEPT !.bits = @ \cup locked,
                !.freeMemory = Wrap(@ - n),
                !.usedMemory = Wrap(@ + n)]

ReservePages(a, pages) ==
  LET locked == pages \cap Clear(a)
      n == Cardinality(locked)
  IN  [a EXCEPT !.bits = @ \cup locked,
                !.freeMemory = Wrap(@ - n),
                !.reservedMemory = Wrap(@ + n)]

(* Mutant: FreePage leaves the cursor alone.                               *)
FreePagesKeepingCursor(a, pages) ==
  LET freed == pages \cap a.bits
      n == Cardinality(freed)
  IN  [a EXCEPT !.bits = @ \ freed,
                !.freeMemory = Wrap(@ + n),
                !.usedMemory = Wrap(@ - n)]

FreePages(a, pages) ==
  LET freed == pages \cap a.bits
      n == Cardinality(freed)
  IN  [a EXCEPT !.bits = @ \ freed,
                !.freeMemory = Wrap(@ + n),
                !.usedMemory = Wrap(@ - n),
                !.pageBitmapIndex = Min({@} \cup freed)]

UnreservePages(a, pages) ==
  LET freed == pages \cap a.bits
      n == Cardinality(freed)
  IN  [a EXCEPT !.bits = @ \ freed,
                !.freeMemory = Wrap(@ + n),
                !.reservedMemory = Wrap(@ - n),
                !.pageBitmapIndex = Min({@} \cup freed)]

(* Mutant: the scan tests index <= Size * 8.                               *)
BorrowPagePastEnd(a) ==
  LET ahead == {p \in Clear(a) \cup {a.Size * BitsPerByte} :
                  p >= a.pageBitmapIndex}
      page == Min(ahead)
  IN  IF ahead = {}
      THEN [page |-> NoPage, alloc |-> a]
      ELSE [page |-> page,
            alloc |-> LockPages([a EXCEPT !.pageBitmapIndex = page], {page})]

(* Mutant: BorrowPage returns the page without locking it.                 *)
BorrowPageUnlocked(a) ==
  LET ahead == {p \in Clear(a) : p >= a.pageBitmapIndex}
      page == Min(ahead)
  IN  IF ahead = {}
      THEN [page |-> NoPage,
            alloc |-> [a EXCEPT !.pageBitmapIndex = a.Size * BitsPerByte]]
      ELSE [page |-> page, alloc |-> [a EXCEPT !.pageBitmapIndex = page]]

(* The scan of BorrowPage: the first clear bit at or after the cursor.     *)
(* The result pairs the page returned with the allocator left behind.      *)
BorrowPage(a) ==
  LET ahead == {p \in Clear(a) : p >= a.pageBitmapIndex}
      page == Min(ahead)
  IN  IF ahead = {}
      THEN [page |-> NoPage,
            alloc |-> [a EXCEPT !.pageBitmapIndex = a.Size * BitsPerByte]]
      ELSE [page |-> page,
            alloc |-> LockPages([a EXCEPT !.pageBitmapIndex = page], {page})]

(* corgiAlloc = CorgiAlloc() over zeroed statics.                          *)
EmptyAllocator ==
  [Size |-> 0, Buffer |-> NoPage, bits |-> {}, pageBitmapIndex |-> 0,
   freeMemory |-> 0, usedMemory |-> 0, reservedMemory |-> 0]

(* The allocator just after InitializeBitmap.                              *)
ClearBitmap(mMap) ==
  LET total == GetMemorySize(mMap)
  IN  [EmptyAllocator EXCEPT !.Size = total \div BitsPerByte + 1,
                             !.Buffer = LargestFreeSegment(mMap),
                             !.freeMemory = Wrap(total)]

(* Mutant: the bitmap's own pages are left for BorrowPage to hand out.     *)
ReadEFIMemoryMapBitmapUnlocked(mMap) ==
  LET all == ReservePages(ClearBitmap(mMap), 0 .. GetMemorySize(mMap))
      released == UnreservePages(all, ConventionalPages(mMap))
  IN  ReservePages(released, 0 .. LowPages - 1)

(* ReadEFIMemoryMap: reserve everything, release the conventional          *)
(* descriptors, take back the low pages, lock the bitmap's own pages.      *)
ReadEFIMemoryMap(mMap) ==
  LET all == ReservePages(ClearBitmap(mMap), 0 .. GetMemorySize(mMap))
      released == UnreservePages(all, ConventionalPages(mMap))
      low == ReservePages(released, 0 .. LowPages - 1)
  IN  LockPages(low, BitmapPages(low))

-----------------------------------------------------------------------------
(* The allocator and its clients as a state machine.                       *)

VARIABLES
  memoryMap,     (* bootInfo->mMap                                          *)
  initialized,   (* the guard of ReadEFIMemoryMap                           *)
  corgiAlloc,    (* the allocator and the three counters                    *)
  granted,       (* history: pages the clients got and have not dropped     *)
  returned       (* what the last BorrowPage returned                       *)

allocVars == <<memoryMap, initialized, corgiAlloc, granted, returned>>

AllocInit ==
  /\ memoryMap \in MemoryMaps
  /\ initialized = FALSE
  /\ corgiAlloc = EmptyAllocator
  /\ granted = {}
  /\ returned = NoPage

(* A second call returns at once: the guard.                               *)
Boot ==
  /\ ~initialized
  /\ initialized' = TRUE
  /\ corgiAlloc' = ReadEFIMemoryMap(memoryMap)
  /\ UNCHANGED <<memoryMap, granted, returned>>

Borrow ==
  /\ initialized
  /\ LET borrowed == BorrowPage(corgiAlloc)
     IN  /\ corgiAlloc' = borrowed.alloc
         /\ returned' = borrowed.page
         /\ granted' = granted \cup ({borrowed.page} \ {NoPage})
  /\ UNCHANGED <<memoryMap, initialized>>

(* StealPages says nothing of the pages it skipped: the client owns only   *)
(* those that were clear.                                                  *)
Steal(pages) ==
  /\ initialized
  /\ corgiAlloc' = LockPages(corgiAlloc, pages)
  /\ granted' = granted \cup (pages \cap Clear(corgiAlloc))
  /\ UNCHANGED <<memoryMap, initialized, returned>>

(* A client drops only what it was granted.                                *)
Drop(pages) ==
  /\ initialized
  /\ pages \subseteq granted
  /\ corgiAlloc' = FreePages(corgiAlloc, pages)
  /\ granted' = granted \ pages
  /\ UNCHANGED <<memoryMap, initialized, returned>>

(* The runs a client may name, one page past the bitmap included.          *)
Runs ==
  {first .. first + n - 1 : first \in Tracked(corgiAlloc) \cup
                                      {corgiAlloc.Size * BitsPerByte},
                            n \in 1 .. MaxRun}

AllocNext ==
  \/ Boot
  \/ Borrow
  \/ \E pages \in Runs : Steal(pages)
  \/ \E pages \in Runs : Drop(pages)

AllocSpec == AllocInit /\ [][AllocNext]_allocVars

-----------------------------------------------------------------------------
(* Correctness *)

Allocator ==
  [Size : Nat, Buffer : Nat, bits : SUBSET Nat, pageBitmapIndex : Nat,
   freeMemory : 0 .. CounterRange - 1, usedMemory : 0 .. CounterRange - 1,
   reservedMemory : 0 .. CounterRange - 1]

(* The type of the state; every bit set, every page out and the cursor lie *)
(* in the bitmap's range (the loop bound of BorrowPage, the index check of *)
(* Bitmap::Set).                                                           *)
AllocTypeOK ==
  /\ memoryMap \in MemoryMaps
  /\ initialized \in BOOLEAN
  /\ corgiAlloc \in Allocator
  /\ corgiAlloc.bits \subseteq Tracked(corgiAlloc)
  /\ corgiAlloc.pageBitmapIndex <= corgiAlloc.Size * BitsPerByte
  /\ granted \subseteq Tracked(corgiAlloc)
  /\ returned \in {NoPage} \cup Tracked(corgiAlloc)

(* The pages no client may ever own: the low pages, what the map does not  *)
(* list as conventional, and the pages that hold the bitmap.               *)
NotConventional(mMap) == (0 .. GetMemorySize(mMap)) \ ConventionalPages(mMap)

KeptBack(mMap) ==
  Tracked(ClearBitmap(mMap))
    \cap (0 .. LowPages - 1 \cup NotConventional(mMap))

BitmapOwn(mMap) ==
  (Tracked(ClearBitmap(mMap)) \cap BitmapPages(ClearBitmap(mMap)))
    \ KeptBack(mMap)

PermanentlyLocked(mMap) == KeptBack(mMap) \cup BitmapOwn(mMap)

(* A bit is set exactly when the page is out to a client or permanently    *)
(* locked, and never for both reasons: no sequence of BorrowPage,          *)
(* StealPages and DropPages leaks a page, loses one, or lets a client own  *)
(* reserved memory or the pages the bitmap itself is stored in.            *)
EveryBitHasOneOwner ==
  initialized =>
    /\ corgiAlloc.bits = granted \cup PermanentlyLocked(memoryMap)
    /\ granted \cap PermanentlyLocked(memoryMap) = {}

(* No page below pageBitmapIndex is free, so the scan that starts at the   *)
(* cursor misses nothing.                                                  *)
NothingFreeBehindCursor ==
  \A p \in Clear(corgiAlloc) : p >= corgiAlloc.pageBitmapIndex

(* The three counters agree with the bitmap after any history of calls,    *)
(* runs with pages already in the wanted state included: GetUsedRAM is     *)
(* what clients hold and the bitmap's own pages, GetReservedRAM what boot  *)
(* kept back, GetFreeRAM the memory size less every bit set.               *)
CountersAgree ==
  initialized =>
    /\ corgiAlloc.freeMemory =
         Wrap(GetMemorySize(memoryMap) - Cardinality(corgiAlloc.bits))
    /\ corgiAlloc.usedMemory =
         Wrap(Cardinality(granted) + Cardinality(BitmapOwn(memoryMap)))
    /\ corgiAlloc.reservedMemory = Wrap(Cardinality(KeptBack(memoryMap)))

(* The allocator implements the abstract pool of PagePool: a borrowed page *)
(* was free and becomes held, nullptr means that no page was free, a       *)
(* stolen page is held by one client, a dropped page can be had again.     *)
FreePool == IF initialized THEN Clear(corgiAlloc) ELSE {}

Pool == INSTANCE PagePool
          WITH Null <- NoPage, open <- initialized, free <- FreePool,
               held <- granted, answer <- returned

PoolImplemented == Pool!Spec
=============================================================================
