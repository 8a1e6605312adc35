--------------------------- MODULE BootLoaderProofs ---------------------------
(***************************************************************************)
(* Machine-checked proofs about BootLoader for every kernel image, page    *)
(* size, set of configuration tables and behaviour of the firmware.        *)
(***************************************************************************)
EXTENDS BootLoader, FiniteSetTheorems, WellFoundedInduction, TLAPS

-----------------------------------------------------------------------------
(* Pages and addresses *)

LEMMA Quotient ==
  ASSUME NEW x \in Nat, NEW m \in Nat \ {0}
  PROVE  /\ x \div m \in Nat
         /\ x % m \in 0 .. m - 1
         /\ x = m * (x \div m) + (x % m)
  BY SMT

(* A multiple of m between two neighbours of 0 and m is on their side.     *)
LEMMA Multiple ==
  ASSUME NEW m \in Nat \ {0}, NEW k \in Int
  PROVE  /\ m * k < m => k <= 0
         /\ m * k > -m => k >= 0
<1>1. k >= 1 => m * k >= m
  BY SMT
<1>2. k <= -1 => m * k <= -m
  BY SMT
<1> QED
  BY <1>1, <1>2

(* The pages of a header are those that hold its addresses, the last page  *)
(* that is not full included.                                              *)
LEMMA AddressPage ==
  ASSUME NEW header, header.address \in Nat, header.size \in Nat,
         NEW d \in 0 .. header.size - 1, header.address % PageSize = 0
  PROVE  (header.address + d) \div PageSize \in PagesOf(header)
<1> DEFINE P == PageSize
           a == header.address
           q == a \div P
           top == header.size + P - 1
           n == top \div P
           x == (a + d) \div P
           r == (a + d) % P
           s == top % P
<1>1. P \in Nat \ {0} /\ a \in Nat /\ a + d \in Nat /\ top \in Nat /\ d \in Nat
  BY BootLoaderAssumption
<1>2. q \in Nat /\ a = P * q
  <2>1. a % P = 0
    OBVIOUS
  <2> HIDE DEF a, P
  <2>2. q \in Nat /\ a = P * q + (a % P)
    BY <1>1, Quotient DEF q
  <2> HIDE DEF q
  <2>3. P * q \in Nat
    BY <1>1, <2>2
  <2> QED
    BY <2>1, <2>2, <2>3
<1>3. x \in Nat /\ r \in 0 .. P - 1 /\ a + d = P * x + r
  <2> DEFINE z == a + d
  <2>1. z \in Nat
    BY <1>1
  <2> HIDE DEF a, P, z
  <2>2. z \div P \in Nat /\ z % P \in 0 .. P - 1 /\ z = P * (z \div P) + (z % P)
    BY <1>1, <2>1, Quotient
  <2> QED
    BY <2>2 DEF x, r, z
<1>4. n \in Nat /\ s \in 0 .. P - 1 /\ top = P * n + s
  <2> HIDE DEF top, P
  <2> QED
    BY <1>1, Quotient DEF n, s
<1>5. top = header.size + P - 1 /\ d <= header.size - 1 /\ header.size \in Nat
  OBVIOUS
<1>6. PagesOf(header) = {q + i : i \in 0 .. n - 1}
  BY DEF PagesOf, Pages
<1> HIDE DEF P, a, q, top, n, x, r, s
<1>7. P * (x - q) = d - r
  <2>1. P * (x - q) = P * x - P * q /\ P * x \in Int /\ P * q \in Int
    BY <1>1, <1>2, <1>3
  <2> QED
    BY <1>1, <1>2, <1>3, <2>1
<1>8. x - q >= 0
  <2>1. P * (x - q) > -P
    BY <1>1, <1>3, <1>7
  <2> QED
    BY <1>1, <1>2, <1>3, <2>1, Multiple
<1>9. x - q - n + 1 <= 0
  <2>1. /\ P * (x - q - n + 1) = P * (x - q) - P * n + P
        /\ P * (x - q) \in Int /\ P * n \in Int
    BY <1>1, <1>2, <1>3, <1>4
  <2>2. P * (x - q - n + 1) < P
    BY <1>1, <1>3, <1>4, <1>5, <1>7, <2>1
  <2>3. x - q - n + 1 \in Int
    BY <1>2, <1>3, <1>4
  <2> QED
    BY <1>1, <2>2, <2>3, Multiple
<1>10. x = q + (x - q) /\ x - q \in 0 .. n - 1
  BY <1>2, <1>3, <1>4, <1>8, <1>9
<1>11. x \in PagesOf(header)
  BY <1>6, <1>10
<1> QED
  BY <1>11 DEF x, a, P

(* The greatest of the numbers up to n in a nonempty set.                  *)
LEMMA MaxUpTo ==
  ASSUME NEW n \in Nat, NEW S \in SUBSET (1 .. n), S # {}
  PROVE  Max(S) \in S
<1> DEFINE less == {ss \in Nat \X Nat : ss[1] < ss[2]}
           T == {n - x : x \in S}
<1>1. IsWellFoundedOn(less, Nat)
  BY NatLessThanWellFounded DEF OpToRel
<1>2. T \in SUBSET Nat /\ T # {}
  <2>1. \A x \in S : n - x \in Nat
    OBVIOUS
  <2> QED
    BY <2>1
<1>3. PICK t \in T : \A y \in T : ~ (<<y, t>> \in less)
  <2> HIDE DEF less, T
  <2> QED
    BY <1>1, <1>2, WFMin
<1>4. PICK x \in S : t = n - x
  BY <1>3
<1>5. \A y \in S : x >= y
  <2> SUFFICES ASSUME NEW y \in S
               PROVE  x >= y
    OBVIOUS
  <2>1. n - y \in T /\ n - y \in Nat /\ t \in Nat
    BY <1>2
  <2>2. ~ (n - y < t)
    BY <1>3, <2>1
  <2>3. x \in Nat /\ y \in Nat
    OBVIOUS
  <2> HIDE DEF less, T
  <2> QED
    BY <1>4, <2>1, <2>2, <2>3
<1> QED
  BY <1>4, <1>5 DEF Max

-----------------------------------------------------------------------------
(* The inductive invariant *)

Machines ==
  [file : {"missing", "invalid", "valid"}, image : Images,
   font : {"missing", "invalid", "good"}, display : BOOLEAN,
   tables : TableLists]

(* The steps before the loop over the program headers, and after it.       *)
Before == {"kernel file", "header", "program headers"}
After == {"font", "info", "map size", "map buffer", "map", "tables", "exit",
          "kernel"}

(* The pages of the segments the loop has been through are the loader's.   *)
Held ==
  "AllocatePages" \notin failed =>
    \A i \in LoadedHeaders : \A page \in PagesOf(machine.image[i]) :
      page \in Page /\ owner[page] = "loader"

(* The file bytes of those segments are where they belong.                 *)
Placed ==
  failed = {} =>
    \A i \in LoadedHeaders : \A offset \in 0 .. machine.image[i].bytes - 1 :
      bytes[machine.image[i].address + offset] = [segment |-> i, offset |-> offset]

(* Nothing else of the file is in memory.                                  *)
OnlyLoaded ==
  \A address \in Address :
    bytes[address] # OldByte => machine.image[bytes[address].segment].load

(* A filled map with the key of the machine's shows the machine as it is.  *)
KeyIsTrue ==
  /\ Map.buffer = "filled" => at \in {"tables", "exit", "kernel"}
  /\ Map.buffer = "filled" /\ Map.key = key => Map.shows = Free
  /\ at = "kernel" /\ ~services => Map.key = key

BootLoaderInv ==
  /\ TypeOK
  /\ machine \in Machines
  /\ at \in Before => segment = 1
  /\ at \in After => segment = Len(machine.image) + 1
  /\ Held
  /\ Placed
  /\ OnlyLoaded
  /\ KeyIsTrue

LEMMA MachineFacts ==
  ASSUME machine \in Machines
  PROVE  /\ machine.image \in Seq(Header)
         /\ machine.tables \in Seq(Entry)
         /\ Len(machine.image) \in Nat
         /\ DOMAIN machine.image = 1 .. Len(machine.image)
         /\ machine.font \in {"missing", "invalid", "good"}
         /\ machine.display \in BOOLEAN
         /\ \A i \in DOMAIN machine.image :
              /\ machine.image[i] \in Header
              /\ machine.image[i].address % PageSize = 0
              /\ machine.image[i].bytes <= machine.image[i].size
              /\ machine.image[i].address + machine.image[i].size - 1
                   \in Address \cup {-1}
<1>1. machine.image \in Images /\ machine.tables \in TableLists
      /\ machine.font \in {"missing", "invalid", "good"}
      /\ machine.display \in BOOLEAN
  BY DEF Machines
<1>2. machine.image \in Seq(Header) /\ machine.tables \in Seq(Entry)
  BY <1>1, BootLoaderAssumption
<1>3. \A i \in DOMAIN machine.image :
              /\ machine.image[i].address % PageSize = 0
              /\ machine.image[i].bytes <= machine.image[i].size
              /\ machine.image[i].address + machine.image[i].size - 1
                   \in Address \cup {-1}
  BY <1>1, BootLoaderAssumption
<1> QED
  BY <1>1, <1>2, <1>3

LEMMA HeaderFacts ==
  ASSUME machine \in Machines, NEW i \in DOMAIN machine.image
  PROVE  LET header == machine.image[i]
         IN  /\ header.address \in Nat /\ header.size \in Nat
             /\ header.bytes \in Nat /\ header.load \in BOOLEAN
             /\ i \in Nat /\ i >= 1
             /\ \A d \in 0 .. header.size - 1 :
                  /\ header.address + d \in Address
                  /\ (header.address + d) \div PageSize \in PagesOf(header)
             /\ 0 .. header.bytes - 1 \subseteq 0 .. header.size - 1
<1> DEFINE header == machine.image[i]
<1>1. /\ header \in Header /\ header.address % PageSize = 0
      /\ header.bytes <= header.size
      /\ header.address + header.size - 1 \in Address \cup {-1}
      /\ i \in Nat /\ i >= 1
  BY MachineFacts
<1> HIDE DEF header
<1>2. (LastPage + 1) * PageSize \in Nat
  BY BootLoaderAssumption
<1>3. /\ header.address \in Address /\ header.size \in Nat
      /\ header.bytes \in Nat /\ header.load \in BOOLEAN
  BY <1>1 DEF Header
<1>4. header.address \in Nat
  BY <1>2, <1>3 DEF Address
<1>5. ASSUME NEW d \in 0 .. header.size - 1
      PROVE  header.address + d \in Address
  BY <1>1, <1>2, <1>3, <1>4 DEF Address
<1>6. ASSUME NEW d \in 0 .. header.size - 1
      PROVE  (header.address + d) \div PageSize \in PagesOf(header)
  BY <1>1, <1>3, <1>4, AddressPage
<1>7. 0 .. header.bytes - 1 \subseteq 0 .. header.size - 1
  BY <1>1, <1>3
<1> QED
  BY <1>1, <1>3, <1>4, <1>5, <1>6, <1>7 DEF header

(* A map has a descriptor for at most every page.                          *)
LEMMA DescriptorsType ==
  ASSUME NEW o
  PROVE  Descriptors(o) \in 0 .. LastPage + 1
<1> DEFINE S == {page \in 1 .. LastPage : o[page] # o[page - 1]}
<1>1. LastPage \in Nat /\ 1 \in Int /\ LastPage \in Int
  BY BootLoaderAssumption
<1>2. IsFiniteSet(1 .. LastPage) /\ Cardinality(1 .. LastPage) = LastPage
  <2>1. /\ IsFiniteSet(1 .. LastPage)
        /\ Cardinality(1 .. LastPage)
             = IF 1 > LastPage THEN 0 ELSE LastPage - 1 + 1
    BY <1>1, FS_Interval
  <2> QED
    BY <1>1, <2>1
<1>3. S \in SUBSET (1 .. LastPage)
  OBVIOUS
<1> HIDE DEF S
<1>4. IsFiniteSet(S) /\ Cardinality(S) <= LastPage
  BY <1>2, <1>3, FS_Subset
<1>5. Cardinality(S) \in Nat
  BY <1>4, FS_CardinalityType
<1>6. Descriptors(o) = 1 + Cardinality(S)
  BY DEF Descriptors, S
<1> QED
  BY <1>1, <1>4, <1>5, <1>6

Owners == [Page -> {"free", "firmware", "loader"}]

(* What the loader holds it keeps.                                         *)
OwnerGrows ==
  /\ owner' \in Owners
  /\ \A page \in Page : owner[page] = "loader" => owner'[page] = "loader"
  /\ key' \in Nat /\ key <= key'

LEMMA PoolGrows ==
  ASSUME owner \in Owners, key \in Nat, NEW n, AllocatePool(n)
  PROVE  OwnerGrows
<1>1. PICK pages \in SUBSET Free :
        /\ owner' = [page \in Page |->
                       IF page \in pages THEN "loader" ELSE owner[page]]
        /\ key' = key + Cardinality(pages)
  BY DEF AllocatePool
<1>2. owner' \in Owners
      /\ \A page \in Page : owner[page] = "loader" => owner'[page] = "loader"
  BY <1>1 DEF Owners
<1>3. Cardinality(pages) \in Nat
  <2>1. LastPage \in Int /\ 0 \in Int
    BY BootLoaderAssumption
  <2>2. IsFiniteSet(Page)
    BY <2>1, FS_Interval DEF Page
  <2>3. pages \in SUBSET Page
    BY DEF Free
  <2> QED
    BY <2>2, <2>3, FS_Subset, FS_CardinalityType
<1> QED
  BY <1>1, <1>2, <1>3 DEF OwnerGrows

Calls == {"AllocatePages", "AllocatePool", "Read"}

Infos == [framebuffer : BOOLEAN, font : BOOLEAN,
          rsdp : {"null", "rsdp1", "rsdp2", "other"}]

Shown(k) == [buffer : {"null", "junk", "filled"}, shows : SUBSET Page,
             size : 0 .. LastPage + 1, key : 0 .. k]

(* A step that loads no segment.                                           *)
LEMMA KeepsSegments ==
  ASSUME BootLoaderInv, OwnerGrows,
         bytes' = bytes, machine' = machine, segment' = segment,
         failed \subseteq failed', failed' \subseteq Calls,
         events' \in 0 .. MaxEvents, services' \in BOOLEAN,
         at' \in Steps, at' \in Before => segment = 1,
         at' \in After => segment = Len(machine.image) + 1,
         bootInfo' \in Infos, Map' \in Shown(key'), KeyIsTrue'
  PROVE  BootLoaderInv'
<1>1. /\ TypeOK /\ machine \in Machines /\ Held /\ Placed /\ OnlyLoaded
  BY DEF BootLoaderInv
<1>2. LoadedHeaders' = LoadedHeaders
  BY DEF LoadedHeaders
<1>3. Held'
  <2> SUFFICES ASSUME "AllocatePages" \notin failed',
                      NEW i \in LoadedHeaders, NEW page \in PagesOf(machine.image[i])
               PROVE  page \in Page /\ owner'[page] = "loader"
    BY <1>2 DEF Held
  <2>1. page \in Page /\ owner[page] = "loader"
    BY <1>1 DEF Held
  <2> QED
    BY <2>1 DEF OwnerGrows
<1>4. Placed' /\ OnlyLoaded'
  <2>1. failed' = {} => failed = {}
    OBVIOUS
  <2> QED
    BY <1>1, <1>2, <2>1 DEF Placed, OnlyLoaded
<1>5. TypeOK'
  <2>1. segment' \in 1 .. Len(machine'.image) + 1
    BY <1>1 DEF TypeOK
  <2>2. /\ DOMAIN bytes' = Address
        /\ \A address \in Address :
             \/ bytes'[address] = OldByte
             \/ \E i \in DOMAIN machine'.image :
                  /\ bytes'[address].segment = i
                  /\ bytes'[address].offset \in 0 .. machine'.image[i].bytes - 1
    BY <1>1 DEF TypeOK
  <2> QED
    BY <2>1, <2>2 DEF TypeOK, OwnerGrows, Owners, Calls, Infos, Shown
<1> QED
  BY <1>1, <1>3, <1>4, <1>5 DEF BootLoaderInv

LEMMA Types ==
  ASSUME BootLoaderInv
  PROVE  /\ owner \in Owners /\ key \in Nat /\ failed \subseteq Calls
         /\ events \in 0 .. MaxEvents /\ services \in BOOLEAN /\ at \in Steps
         /\ bootInfo \in Infos /\ Map \in Shown(key)
         /\ machine \in Machines
         /\ bootInfo.font \in BOOLEAN
         /\ \A k \in Nat : key <= k => Map \in Shown(k)
<1>1. /\ owner \in Owners /\ key \in Nat /\ failed \subseteq Calls
      /\ events \in 0 .. MaxEvents /\ services \in BOOLEAN /\ at \in Steps
      /\ bootInfo \in Infos /\ Map \in Shown(key)
      /\ machine \in Machines
  BY DEF BootLoaderInv, TypeOK, Owners, Calls, Infos, Shown
<1>2. ASSUME NEW k \in Nat, key <= k
      PROVE  Map \in Shown(k)
  <2>1. 0 .. key \subseteq 0 .. k
    BY <1>1, <1>2
  <2> QED
    BY <1>1, <2>1 DEF Shown
<1> QED
  BY <1>1, <1>2 DEF Infos

LEMMA NoGrowth ==
  ASSUME owner \in Owners, key \in Nat, owner' = owner,
         key' = key \/ key' = key + 2
  PROVE  OwnerGrows
  BY DEF OwnerGrows

(* The steps before the loop: they have no map.                            *)
LEMMA EarlySteps ==
  ASSUME BootLoaderInv, LoadKernelFile \/ ReadHeader \/ ReadProgramHeaders
  PROVE  BootLoaderInv'
<1>1. /\ at \in Before
      /\ at' \in {"load error", "header", "program headers", "segments",
                  "undefined"}
      /\ UNCHANGED <<bytes, services, machine, events, segment, Map, bootInfo>>
      /\ \/ UNCHANGED <<owner, key, failed>>
         \/ AllocatePool(1) /\ UNCHANGED failed
         \/ UNCHANGED <<owner, key>> /\ Fail({"Read"})
         \/ UNCHANGED <<owner, key>> /\ Fail({"AllocatePool"})
  BY DEF LoadKernelFile, ReadHeader, ReadProgramHeaders, Step, NoCall, Before
<1>2. OwnerGrows
  BY <1>1, Types, PoolGrows, NoGrowth
<1>3. failed \subseteq failed' /\ failed' \subseteq Calls
  BY <1>1, Types DEF Fail, Calls
<1>4. segment = 1 /\ Map.buffer # "filled"
  BY <1>1 DEF BootLoaderInv, KeyIsTrue, Before
<1>5. KeyIsTrue'
  BY <1>1, <1>4 DEF KeyIsTrue
<1>6. Map' \in Shown(key')
  BY <1>1, <1>2, Types DEF OwnerGrows
<1> QED
  BY <1>1, <1>2, <1>3, <1>4, <1>5, <1>6, Types, KeepsSegments
  DEF Steps, Before, After

(* The loader goes on: a header is skipped, the display and the font are   *)
(* found, or not, and printed.                                             *)
LEMMA MiddleSteps ==
  ASSUME BootLoaderInv,
         InitializeGraphicsOutputProtocol \/ LoadFont \/ PrintInfo
  PROVE  BootLoaderInv'
<1>1. at \in {"segments", "font", "info"} /\ machine' = machine
      /\ at' \in {"font", "info", "map size", "undefined"}
      /\ UNCHANGED <<bytes, services, events, segment, Map>>
  BY DEF InitializeGraphicsOutputProtocol, LoadFont, PrintInfo, Step
<1>2. OwnerGrows /\ failed \subseteq failed' /\ failed' \subseteq Calls
  <2>1. CASE InitializeGraphicsOutputProtocol \/ PrintInfo
    <3>1. UNCHANGED <<owner, key>> /\ failed' = failed
      BY <2>1 DEF InitializeGraphicsOutputProtocol, PrintInfo, NoCall
    <3> QED
      BY <3>1, Types, NoGrowth
  <2>2. CASE LoadFont
    <3>1. machine.font \in {"missing", "invalid", "good"}
      BY Types, MachineFacts
    <3>2. \/ UNCHANGED <<owner, key>>
          \/ AllocatePool(1)
          \/ AllocatePool(3)
          \/ key' = key + 2 /\ owner' = owner
      BY <2>2, <3>1 DEF LoadFont, InvalidFont, GoodFont
    <3>3. OwnerGrows
      BY <3>2, Types, PoolGrows, NoGrowth
    <3>4. failed' = failed \/ Fail({"Read"}) \/ Fail({"AllocatePool"})
      BY <2>2 DEF LoadFont
    <3> QED
      BY <3>3, <3>4, Types DEF Fail, Calls
  <2> QED
    BY <2>1, <2>2
<1>3. Map.buffer # "filled"
  BY <1>1 DEF BootLoaderInv, KeyIsTrue
<1>4. KeyIsTrue'
  BY <1>1, <1>3 DEF KeyIsTrue
<1>5. Map' \in Shown(key')
  BY <1>1, <1>2, Types DEF OwnerGrows
<1>6. bootInfo' \in Infos
  <2>1. CASE InitializeGraphicsOutputProtocol
    BY <2>1, Types, MachineFacts DEF InitializeGraphicsOutputProtocol, Infos
  <2>2. CASE LoadFont
    BY <2>2, Types DEF LoadFont, Infos
  <2>3. CASE PrintInfo
    BY <2>3, Types DEF PrintInfo
  <2> QED
    BY <2>1, <2>2, <2>3
<1>7. segment = Len(machine.image) + 1
  <2>1. CASE InitializeGraphicsOutputProtocol
    <3>1. segment \in 1 .. Len(machine.image) + 1 /\ segment > Len(machine.image)
      BY <2>1 DEF BootLoaderInv, TypeOK, InitializeGraphicsOutputProtocol
    <3>2. Len(machine.image) \in Nat
      BY Types, MachineFacts
    <3> QED
      BY <3>1, <3>2
  <2>2. CASE LoadFont \/ PrintInfo
    <3>1. at \in After
      BY <2>2 DEF LoadFont, PrintInfo, Step, After
    <3> QED
      BY <3>1 DEF BootLoaderInv
  <2> QED
    BY <2>1, <2>2
<1>8. /\ at' \in Steps /\ at' \notin Before
      /\ events' \in 0 .. MaxEvents /\ services' \in BOOLEAN
  BY <1>1, Types DEF Steps, Before
<1> QED
  BY <1>1, <1>2, <1>4, <1>5, <1>6, <1>7, <1>8, KeepsSegments

LEMMA SkipHeaderStep ==
  ASSUME BootLoaderInv, SkipHeader
  PROVE  BootLoaderInv'
<1>1. /\ at = "segments" /\ at' = "segments"
      /\ UNCHANGED <<bytes, services, machine, events, owner, key, failed,
                     Map, bootInfo>>
      /\ segment <= Len(machine.image) /\ ~machine.image[segment].load
      /\ segment' = segment + 1
  BY DEF SkipHeader, Step, NoCall, IsLoaded
<1>2. /\ TypeOK /\ machine \in Machines /\ Held /\ Placed /\ OnlyLoaded
      /\ KeyIsTrue
  BY DEF BootLoaderInv
<1>3. Len(machine.image) \in Nat /\ DOMAIN machine.image = 1 .. Len(machine.image)
  BY <1>2, MachineFacts
<1>4. segment \in 1 .. Len(machine.image) + 1
  BY <1>2 DEF TypeOK
<1>5. LoadedHeaders' = LoadedHeaders
  <2>1. \A i \in DOMAIN machine.image :
           machine.image[i].load /\ i < segment' => i < segment
    BY <1>1, <1>3, <1>4
  <2>2. \A i \in DOMAIN machine.image : i < segment => i < segment'
    BY <1>1, <1>3, <1>4
  <2> QED
    BY <1>1, <2>1, <2>2 DEF LoadedHeaders
<1>6. Held' /\ Placed' /\ OnlyLoaded'
  BY <1>1, <1>2, <1>5 DEF Held, Placed, OnlyLoaded
<1>7. KeyIsTrue'
  BY <1>1, <1>2 DEF KeyIsTrue, Free
<1>8. segment' \in 1 .. Len(machine'.image) + 1
  BY <1>1, <1>3, <1>4
<1>9. TypeOK'
  <2>1. /\ DOMAIN bytes' = Address
        /\ \A address \in Address :
             \/ bytes'[address] = OldByte
             \/ \E i \in DOMAIN machine'.image :
                  /\ bytes'[address].segment = i
                  /\ bytes'[address].offset \in 0 .. machine'.image[i].bytes - 1
    BY <1>1, <1>2 DEF TypeOK
  <2> QED
    BY <1>1, <1>2, <1>8, <2>1 DEF TypeOK
<1> QED
  BY <1>1, <1>2, <1>6, <1>7, <1>9 DEF BootLoaderInv, Before, After

(* The memory map, the tables and the exit: nothing is loaded any more.    *)
LEMMA LateSteps ==
  ASSUME BootLoaderInv,
         \/ GetMapSize
         \/ AllocateMapBuffer
         \/ GetMemoryMap
         \/ FillBootInfo
         \/ ExitBootServices
  PROVE  BootLoaderInv'
<1>1. /\ at \in {"map size", "map buffer", "map", "tables", "exit"}
      /\ at' \in {"map buffer", "map", "tables", "exit", "kernel"}
      /\ UNCHANGED <<bytes, machine, events, segment>>
      /\ services' \in BOOLEAN
  BY Types DEF GetMapSize, AllocateMapBuffer, GetMemoryMap, FillBootInfo,
    ExitBootServices, Step
<1>2. /\ owner \in Owners /\ key \in Nat /\ failed \subseteq Calls
      /\ Map \in Shown(key) /\ bootInfo \in Infos
      /\ key \in 0 .. key /\ Map.key \in 0 .. key
  BY Types DEF Shown
<1>3. KeyIsTrue
  BY DEF BootLoaderInv
<1>4. OwnerGrows /\ failed \subseteq failed' /\ failed' \subseteq Calls
  <2>1. CASE ~AllocateMapBuffer
    <3>1. UNCHANGED <<owner, key, failed>>
      BY <2>1 DEF GetMapSize, GetMemoryMap, FillBootInfo, ExitBootServices, NoCall
    <3> QED
      BY <1>2, <3>1, NoGrowth
  <2>2. CASE AllocateMapBuffer
    <3>1. \/ AllocatePool(1) /\ failed' = failed
          \/ Fail({"AllocatePool"}) /\ UNCHANGED <<owner, key>>
      BY <2>2 DEF AllocateMapBuffer
    <3> QED
      BY <1>2, <3>1, NoGrowth, PoolGrows DEF Fail, Calls
  <2> QED
    BY <2>1, <2>2
<1>5. segment = Len(machine.image) + 1
  <2>1. at \in After
    BY <1>1 DEF After
  <2> QED
    BY <2>1 DEF BootLoaderInv
<1>6. ASSUME NoMap, UNCHANGED <<owner, key>>, at \in {"map size", "map"},
             at' \notin {"kernel"}
      PROVE  Map' \in Shown(key') /\ KeyIsTrue'
  <2>1. PICK k \in {Map.key, key} :
           Map' = [Map EXCEPT !.size = Descriptors(owner), !.key = k]
    BY <1>6 DEF NoMap
  <2>2. Descriptors(owner) \in 0 .. LastPage + 1
    BY DescriptorsType
  <2>3. Map' \in Shown(key) /\ Map'.buffer = Map.buffer
    BY <1>2, <2>1, <2>2 DEF Shown
  <2>4. Map.buffer # "filled"
    BY <1>3, <1>6 DEF KeyIsTrue
  <2> QED
    BY <1>6, <2>3, <2>4 DEF KeyIsTrue
<1>7. Map' \in Shown(key') /\ KeyIsTrue' /\ bootInfo' \in Infos
  <2>1. CASE GetMapSize
    BY <1>1, <1>2, <1>6, <2>1 DEF GetMapSize, NoCall, Step
  <2>2. CASE AllocateMapBuffer
    <3>1. /\ at = "map buffer" /\ at' = "map" /\ bootInfo' = bootInfo
          /\ Map' = Map \/ Map' = [Map EXCEPT !.buffer = "junk"]
      BY <2>2 DEF AllocateMapBuffer, Step
    <3>2. Map \in Shown(key') /\ Map.buffer # "filled"
      BY <1>3, <1>4, <3>1, Types DEF OwnerGrows, KeyIsTrue
    <3>3. Map' \in Shown(key') /\ Map'.buffer # "filled"
      BY <3>1, <3>2 DEF Shown
    <3> QED
      BY <1>2, <3>1, <3>3 DEF KeyIsTrue
  <2>3. CASE GetMemoryMap
    <3>1. /\ at = "map" /\ at' = "tables" /\ bootInfo' = bootInfo
          /\ UNCHANGED <<owner, key>>
      BY <2>3 DEF GetMemoryMap, Step, NoCall
    <3>2. CASE NoMap
      BY <1>2, <1>6, <3>1, <3>2
    <3>3. CASE Map' = [buffer |-> "filled", shows |-> Free,
                       size |-> Descriptors(owner), key |-> key]
      <4>1. Free \in SUBSET Page /\ Free' = Free
        BY <3>1 DEF Free
      <4>2. Map' \in Shown(key)
        BY <1>2, <3>3, <4>1, DescriptorsType DEF Shown
      <4> QED
        BY <1>2, <3>1, <3>3, <4>1, <4>2 DEF KeyIsTrue
    <3> QED
      BY <2>3, <3>2, <3>3 DEF GetMemoryMap
  <2>4. CASE FillBootInfo
    <3>1. /\ at = "tables" /\ at' = "exit" /\ UNCHANGED <<owner, key, Map>>
          /\ services' = services
      BY <2>4 DEF FillBootInfo, Step, NoCall
    <3>2. KeyIsTrue'
      BY <1>3, <3>1 DEF KeyIsTrue, Free
    <3>3. bootInfo' \in Infos
      <4>1. PICK junk :
               LET found == {i \in DOMAIN machine.tables : PassesLoop(i, junk)}
               IN  bootInfo' = [bootInfo EXCEPT
                                  !.rsdp = IF found = {} THEN "null"
                                           ELSE machine.tables[Max(found)].table]
        BY <2>4 DEF FillBootInfo
      <4> DEFINE found == {i \in DOMAIN machine.tables : PassesLoop(i, junk)}
                 n == Len(machine.tables)
      <4>2. machine.tables \in Seq(Entry)
        BY Types, MachineFacts
      <4>3. n \in Nat /\ DOMAIN machine.tables = 1 .. n
        BY <4>2
      <4>4. found \in SUBSET (1 .. n)
        BY <4>3
      <4> HIDE DEF found, n
      <4>5. found # {} => Max(found) \in 1 .. n
        BY <4>3, <4>4, MaxUpTo
      <4>6. found # {} => machine.tables[Max(found)].table \in {"rsdp1", "rsdp2", "other"}
        <5>1. \A i \in 1 .. n : machine.tables[i] \in Entry
          BY <4>2, <4>3
        <5> QED
          BY <4>5, <5>1 DEF Entry
      <4>7. bootInfo' = [bootInfo EXCEPT
                          !.rsdp = IF found = {} THEN "null"
                                   ELSE machine.tables[Max(found)].table]
        BY <4>1 DEF found
      <4> QED
        BY <1>2, <4>6, <4>7 DEF Infos
    <3> QED
      BY <1>2, <3>1, <3>2, <3>3
  <2>5. CASE ExitBootServices
    <3>1. /\ at = "exit" /\ at' = "kernel"
          /\ UNCHANGED <<owner, key, Map, bootInfo>>
          /\ services' = (Map.key # key)
      BY <2>5 DEF ExitBootServices, NoCall
    <3>2. ~services' => Map.key = key
      BY <3>1
    <3>3. KeyIsTrue'
      BY <1>3, <3>1, <3>2 DEF KeyIsTrue, Free
    <3> QED
      BY <1>2, <3>1, <3>3
  <2> QED
    BY <2>1, <2>2, <2>3, <2>4, <2>5
<1>8. at' \in Steps /\ at' \notin Before /\ events' \in 0 .. MaxEvents
  BY <1>1, Types DEF Steps, Before
<1> QED
  BY <1>1, <1>4, <1>5, <1>7, <1>8, KeepsSegments

(* An event of the firmware makes every older key invalid.                 *)
LEMMA FirmwareStep ==
  ASSUME BootLoaderInv, FirmwareEvent
  PROVE  BootLoaderInv'
<1>1. /\ at # "kernel" /\ key' = key + 1 /\ events' = events + 1
      /\ UNCHANGED <<at, segment, Map, bootInfo, bytes, services, machine, failed>>
      /\ \E page \in Page :
           \/ /\ owner[page] = "free"
              /\ owner' = [owner EXCEPT ![page] = "firmware"]
           \/ /\ owner[page] = "firmware"
              /\ owner' = [owner EXCEPT ![page] = "free"]
      /\ events < MaxEvents
  BY DEF FirmwareEvent, loader
<1>2. OwnerGrows
  BY <1>1, Types DEF OwnerGrows, Owners
<1>3. Map.key \in 0 .. key /\ key \in Nat /\ Map \in Shown(key')
  BY <1>2, Types DEF Shown, OwnerGrows
<1>4. KeyIsTrue'
  <2>1. Map'.key # key'
    BY <1>1, <1>3
  <2> QED
    BY <1>1, <2>1 DEF BootLoaderInv, KeyIsTrue
<1>5. events' \in 0 .. MaxEvents
  <2>1. MaxEvents \in Nat /\ events \in 0 .. MaxEvents
    BY Types, BootLoaderAssumption
  <2> QED
    BY <1>1, <2>1
<1>6. /\ at' \in Before => segment = 1
      /\ at' \in After => segment = Len(machine.image) + 1
  BY <1>1 DEF BootLoaderInv
<1> QED
  BY <1>1, <1>2, <1>3, <1>4, <1>5, <1>6, Types, KeepsSegments

(* The loop loads a segment: onto pages nobody held, unless it is refused  *)
(* them, so the bytes of the segments before it stay.                      *)
LEMMA LoadSegmentStep ==
  ASSUME BootLoaderInv, LoadSegment
  PROVE  BootLoaderInv'
<1> DEFINE header == machine.image[segment]
           refused == IF Refused(header) THEN {"AllocatePages"} ELSE {}
<1>1. /\ at = "segments" /\ at' \in {"segments", "undefined"}
      /\ segment <= Len(machine.image) /\ header.load
      /\ segment' = segment + 1
      /\ UNCHANGED <<Map, bootInfo, services, machine, events>>
      /\ owner' = AfterAllocatePages(header)
      /\ key' = IF owner' = owner THEN key ELSE key + 1
      /\ \/ bytes' = AfterRead(segment, header) /\ failed' = failed \cup refused
         \/ bytes' = bytes /\ Fail({"Read"} \cup refused)
  BY DEF LoadSegment, IsLoaded
<1>2. /\ TypeOK /\ machine \in Machines /\ Held /\ Placed /\ OnlyLoaded
      /\ KeyIsTrue
  BY DEF BootLoaderInv
<1>3. Len(machine.image) \in Nat /\ DOMAIN machine.image = 1 .. Len(machine.image)
  BY <1>2, MachineFacts
<1>4. segment \in DOMAIN machine.image /\ segment \in Nat /\ segment >= 1
  <2>1. segment \in 1 .. Len(machine.image) + 1
    BY <1>2 DEF TypeOK
  <2> QED
    BY <1>1, <1>3, <2>1
<1>5. /\ header.address \in Nat /\ header.size \in Nat /\ header.bytes \in Nat
      /\ \A d \in 0 .. header.size - 1 :
           /\ header.address + d \in Address
           /\ (header.address + d) \div PageSize \in PagesOf(header)
      /\ 0 .. header.bytes - 1 \subseteq 0 .. header.size - 1
  BY <1>2, <1>4, HeaderFacts
<1>6. LoadedHeaders' = LoadedHeaders \cup {segment}
  <2>1. \A i \in DOMAIN machine.image : i < segment' <=> i < segment \/ i = segment
    BY <1>1, <1>3, <1>4
  <2> QED
    BY <1>1, <1>4, <2>1 DEF LoadedHeaders
<1> HIDE DEF header
<1>7. OwnerGrows
  <2>1. owner' = [page \in Page |-> IF page \in PagesOf(header) /\ ~Refused(header)
                                    THEN "loader" ELSE owner[page]]
    BY <1>1 DEF AfterAllocatePages
  <2>2. owner \in Owners /\ key \in Nat
    BY Types
  <2> QED
    BY <1>1, <2>1, <2>2 DEF OwnerGrows, Owners
<1>8. failed \subseteq failed' /\ failed' \subseteq Calls /\ refused \subseteq failed'
  BY <1>1, Types DEF Fail, Calls
<1>9. Held'
  <2> SUFFICES ASSUME "AllocatePages" \notin failed',
                      NEW i \in LoadedHeaders \cup {segment},
                      NEW page \in PagesOf(machine.image[i])
               PROVE  page \in Page /\ owner'[page] = "loader"
    BY <1>1, <1>6 DEF Held
  <2>1. CASE i \in LoadedHeaders
    <3>1. page \in Page /\ owner[page] = "loader"
      BY <1>2, <1>8, <2>1 DEF Held
    <3> QED
      BY <1>7, <3>1 DEF OwnerGrows
  <2>2. CASE i = segment
    <3>1. ~Refused(header) /\ page \in PagesOf(header)
      BY <1>8, <2>2 DEF header
    <3>2. page \in Page
      BY <3>1 DEF Refused, Free
    <3> QED
      BY <1>1, <3>1, <3>2 DEF AfterAllocatePages
  <2> QED
    BY <2>1, <2>2
<1>10. ASSUME bytes' = AfterRead(segment, header), NEW address \in Address
       PROVE  bytes'[address] =
                IF address - header.address \in 0 .. header.bytes - 1
                THEN [segment |-> segment, offset |-> address - header.address]
                ELSE bytes[address]
  BY <1>10 DEF AfterRead
<1>11. Placed'
  <2> SUFFICES ASSUME failed' = {}, NEW i \in LoadedHeaders \cup {segment},
                      NEW offset \in 0 .. machine.image[i].bytes - 1
               PROVE  bytes'[machine.image[i].address + offset]
                        = [segment |-> i, offset |-> offset]
    BY <1>1, <1>6 DEF Placed
  <2>1. bytes' = AfterRead(segment, header) /\ ~Refused(header) /\ failed = {}
    BY <1>1, <1>8 DEF Fail
  <2>2. CASE i = segment
    <3>1. offset \in 0 .. header.bytes - 1 /\ offset \in 0 .. header.size - 1
      BY <1>5, <2>2 DEF header
    <3>2. header.address + offset \in Address
      BY <1>5, <3>1
    <3>3. (header.address + offset) - header.address = offset
      BY <1>5, <3>1
    <3>4. bytes'[header.address + offset]
            = [segment |-> segment, offset |-> offset]
      BY <1>10, <2>1, <3>1, <3>2, <3>3
    <3> QED
      BY <2>2, <3>4 DEF header
  <2>3. CASE i \in LoadedHeaders
    <3> DEFINE other == machine.image[i]
               address == other.address + offset
    <3>1. i \in DOMAIN machine.image
      BY <2>3 DEF LoadedHeaders
    <3>2. /\ offset \in 0 .. other.size - 1 /\ address \in Address
          /\ address \div PageSize \in PagesOf(other)
      BY <1>2, <3>1, HeaderFacts
    <3>3. bytes[address] = [segment |-> i, offset |-> offset]
      BY <1>2, <2>1, <2>3 DEF Placed
    <3>4. owner[address \div PageSize] = "loader"
      BY <1>2, <2>1, <2>3, <3>2 DEF Held
    <3> HIDE DEF other, address
    <3>5. ~(address - header.address \in 0 .. header.bytes - 1)
      <4> SUFFICES ASSUME address - header.address \in 0 .. header.bytes - 1
                   PROVE  FALSE
        OBVIOUS
      <4> DEFINE d == address - header.address
      <4>1. (LastPage + 1) * PageSize \in Nat
        BY BootLoaderAssumption
      <4>2. address \in Nat
        BY <3>2, <4>1 DEF Address
      <4>3. d \in 0 .. header.size - 1 /\ header.address + d = address
        BY <1>5, <4>2
      <4> HIDE DEF d
      <4>4. address \div PageSize \in PagesOf(header)
        BY <1>5, <4>3
      <4>5. address \div PageSize \in Free
        BY <2>1, <4>4 DEF Refused
      <4> QED
        BY <3>4, <4>5 DEF Free
    <3>6. bytes'[address] = bytes[address]
      BY <1>10, <2>1, <3>2, <3>5
    <3> QED
      BY <3>3, <3>6 DEF address, other
  <2> QED
    BY <2>2, <2>3
<1>12. OnlyLoaded'
  <2> SUFFICES ASSUME NEW address \in Address, bytes'[address] # OldByte
               PROVE  machine.image[bytes'[address].segment].load
    BY <1>1 DEF OnlyLoaded
  <2>1. CASE bytes'[address] = bytes[address]
    BY <1>2, <2>1 DEF OnlyLoaded
  <2>2. CASE bytes'[address] # bytes[address]
    <3>1. bytes' = AfterRead(segment, header)
      BY <1>1, <2>2
    <3>2. bytes'[address] = [segment |-> segment,
                             offset |-> address - header.address]
      BY <1>10, <2>2, <3>1
    <3>3. bytes'[address].segment = segment
      BY <3>2
    <3> QED
      BY <1>1, <3>3 DEF header
  <2> QED
    BY <2>1, <2>2
<1>13. /\ DOMAIN bytes' = Address
       /\ \A address \in Address :
            \/ bytes'[address] = OldByte
            \/ \E i \in DOMAIN machine.image :
                 /\ bytes'[address].segment = i
                 /\ bytes'[address].offset \in 0 .. machine.image[i].bytes - 1
  <2>1. /\ DOMAIN bytes = Address
        /\ \A address \in Address :
             \/ bytes[address] = OldByte
             \/ \E i \in DOMAIN machine.image :
                  /\ bytes[address].segment = i
                  /\ bytes[address].offset \in 0 .. machine.image[i].bytes - 1
    BY <1>2 DEF TypeOK
  <2>2. CASE bytes' = bytes
    BY <2>1, <2>2
  <2>3. CASE bytes' = AfterRead(segment, header)
    <3>1. DOMAIN bytes' = Address
      BY <2>3 DEF AfterRead
    <3>2. ASSUME NEW address \in Address,
                 address - header.address \in 0 .. header.bytes - 1
          PROVE  /\ bytes'[address].segment = segment
                 /\ bytes'[address].offset \in 0 .. machine.image[segment].bytes - 1
      <4>1. bytes'[address] = [segment |-> segment,
                               offset |-> address - header.address]
        BY <1>10, <2>3, <3>2
      <4>2. /\ bytes'[address].segment = segment
            /\ bytes'[address].offset = address - header.address
        BY <4>1
      <4> QED
        BY <3>2, <4>2 DEF header
    <3>3. ASSUME NEW address \in Address,
                 ~(address - header.address \in 0 .. header.bytes - 1)
          PROVE  bytes'[address] = bytes[address]
      BY <1>10, <2>3, <3>3
    <3> QED
      BY <1>4, <2>1, <3>1, <3>2, <3>3
  <2> QED
    BY <1>1, <2>2, <2>3
<1>14. KeyIsTrue'
  <2>1. Map.buffer # "filled"
    BY <1>1, <1>2 DEF KeyIsTrue
  <2> QED
    BY <1>1, <2>1 DEF KeyIsTrue
<1>15. TypeOK'
  <2>1. segment' \in 1 .. Len(machine'.image) + 1
    BY <1>1, <1>3, <1>4
  <2>2. Map' \in Shown(key')
    BY <1>1, <1>7, Types DEF OwnerGrows
  <2>3. /\ bootInfo' \in Infos /\ services' \in BOOLEAN
        /\ events' \in 0 .. MaxEvents /\ at' \in Steps
    BY <1>1, Types DEF Steps
  <2> QED
    BY <1>1, <1>7, <1>8, <1>13, <2>1, <2>2, <2>3
    DEF TypeOK, OwnerGrows, Owners, Calls, Infos, Shown
<1>16. at' \notin Before /\ at' \notin After
  BY <1>1 DEF Before, After
<1> QED
  BY <1>1, <1>2, <1>9, <1>11, <1>12, <1>14, <1>15, <1>16 DEF BootLoaderInv

LEMMA InitBootLoaderInv == Init => BootLoaderInv
<1> SUFFICES ASSUME Init
             PROVE  BootLoaderInv
  OBVIOUS
<1>1. machine \in Machines
  BY DEF Init, Machines
<1>2. Len(machine.image) \in Nat /\ DOMAIN machine.image = 1 .. Len(machine.image)
  BY <1>1, MachineFacts
<1>3. /\ at = "kernel file" /\ segment = 1
      /\ Map = [buffer |-> "null", shows |-> {}, size |-> 0, key |-> 0]
      /\ bootInfo = [framebuffer |-> FALSE, font |-> FALSE, rsdp |-> "null"]
      /\ owner \in [Page -> {"free", "firmware", "loader"}]
      /\ bytes = [address \in Address |-> OldByte]
      /\ key = 1 /\ services = TRUE /\ failed = {} /\ events = 0
  BY DEF Init
<1>4. LastPage \in Nat /\ MaxEvents \in Nat
  BY BootLoaderAssumption
<1>5. TypeOK
  <2>1. segment \in 1 .. Len(machine.image) + 1
    <3> DEFINE n == Len(machine.image)
    <3>1. n \in Nat /\ segment = 1
      BY <1>2, <1>3
    <3> HIDE DEF n
    <3>2. segment \in 1 .. n + 1
      BY <3>1
    <3> QED
      BY <3>2 DEF n
  <2>3. /\ events \in 0 .. MaxEvents /\ 0 \in 0 .. LastPage + 1
        /\ 0 \in 0 .. key /\ key \in Nat
    <3>1. events = 0 /\ key = 1
      BY <1>3
    <3> QED
      BY <1>4, <3>1
  <2>2. /\ DOMAIN bytes = Address
        /\ \A address \in Address : bytes[address] = OldByte
    BY <1>3
  <2> QED
    BY <1>3, <2>1, <2>2, <2>3 DEF TypeOK, Steps
<1>6. LoadedHeaders = {}
  <2>1. \A i \in DOMAIN machine.image : ~(i < segment)
    <3> DEFINE n == Len(machine.image)
               D == DOMAIN machine.image
    <3>1. n \in Nat /\ segment = 1 /\ D = 1 .. n
      BY <1>2, <1>3
    <3> HIDE DEF n, D
    <3>2. \A i \in D : ~(i < segment)
      BY <3>1
    <3> QED
      BY <3>2 DEF D
  <2> QED
    BY <2>1 DEF LoadedHeaders
<1>7. Held /\ Placed /\ OnlyLoaded /\ KeyIsTrue
  BY <1>3, <1>6 DEF Held, Placed, OnlyLoaded, KeyIsTrue
<1> QED
  BY <1>1, <1>3, <1>5, <1>7 DEF BootLoaderInv, Before, After

LEMMA NextBootLoaderInv ==
  ASSUME BootLoaderInv, [Next]_vars
  PROVE  BootLoaderInv'
<1>1. CASE efi_main
  BY <1>1, EarlySteps, LoadSegmentStep, SkipHeaderStep, MiddleSteps, LateSteps
  DEF efi_main
<1>2. CASE FirmwareEvent
  BY <1>2, FirmwareStep
<1>3. CASE UNCHANGED vars
  <2>1. UNCHANGED <<at, segment, Map, bootInfo, machine, owner, bytes, key,
                    services, failed, events>>
    BY <1>3 DEF vars, loader, firmware
  <2>2. KeyIsTrue'
    BY <2>1 DEF BootLoaderInv, KeyIsTrue, Free
  <2> QED
    BY <2>1, <2>2, Types, NoGrowth, KeepsSegments DEF BootLoaderInv
<1> QED
  BY <1>1, <1>2, <1>3 DEF Next

(* The loader is at a step of efi_main, and every byte that came from the  *)
(* kernel file is one of the file bytes of a program header.               *)
THEOREM LoaderTypeCorrect == Spec => []TypeOK
<1>1. BootLoaderInv => TypeOK
  BY DEF BootLoaderInv
<1> QED
  BY <1>1, InitBootLoaderInv, NextBootLoaderInv, PTL DEF Spec

(* Unless AllocatePages was refused, the loader holds every page of every  *)
(* segment it has loaded, the .bss and the page that is not full included, *)
(* whatever the firmware takes and gives back in between.                  *)
THEOREM LoaderKeepsKernel == Spec => []LoaderHoldsKernel
<1>1. BootLoaderInv => LoaderHoldsKernel
  <2> SUFFICES ASSUME BootLoaderInv, "AllocatePages" \notin failed,
                      NEW i \in LoadedHeaders,
                      NEW address \in machine.image[i].address
                           .. machine.image[i].address + machine.image[i].size - 1
               PROVE  owner[address \div PageSize] = "loader"
    BY DEF LoaderHoldsKernel
  <2> DEFINE header == machine.image[i]
             d == address - header.address
  <2>1. machine \in Machines /\ i \in DOMAIN machine.image
    BY DEF BootLoaderInv, LoadedHeaders
  <2>2. /\ header.address \in Nat /\ header.size \in Nat
        /\ \A e \in 0 .. header.size - 1 :
             (header.address + e) \div PageSize \in PagesOf(header)
    BY <2>1, HeaderFacts
  <2>3. address \in header.address .. header.address + header.size - 1
    OBVIOUS
  <2> HIDE DEF header
  <2>4. d \in 0 .. header.size - 1 /\ header.address + d = address
    BY <2>2, <2>3
  <2> HIDE DEF d
  <2>5. address \div PageSize \in PagesOf(header)
    BY <2>2, <2>4
  <2> QED
    BY <2>5 DEF BootLoaderInv, Held, header
<1> QED
  BY <1>1, InitBootLoaderInv, NextBootLoaderInv, PTL DEF Spec

(* After the loop every header has been looked at.                         *)
LEMMA AfterLoop ==
  ASSUME BootLoaderInv, at \in After
  PROVE  \A i \in DOMAIN machine.image : i < segment
<1> DEFINE n == Len(machine.image)
           D == DOMAIN machine.image
<1>1. n \in Nat /\ D = 1 .. n /\ segment = n + 1
  BY MachineFacts DEF BootLoaderInv
<1> HIDE DEF n, D
<1>2. \A i \in D : i < segment
  BY <1>1
<1> QED
  BY <1>2 DEF D

(* When no call of the firmware has failed, all file bytes of all loadable *)
(* segments, and nothing else of the file, are in memory after the loop:   *)
(* no later segment is read over an earlier one.                           *)
THEOREM LoaderPlacesSegments == Spec => []SegmentsInPlace
<1>1. BootLoaderInv => SegmentsInPlace
  <2> SUFFICES ASSUME BootLoaderInv, failed = {},
                      at \in Steps \ {"kernel file", "header", "program headers",
                                      "segments", "load error", "undefined"}
               PROVE  /\ \A i \in DOMAIN machine.image : machine.image[i].load =>
                           \A offset \in 0 .. machine.image[i].bytes - 1 :
                             bytes[machine.image[i].address + offset]
                               = [segment |-> i, offset |-> offset]
                      /\ \A address \in Address :
                           bytes[address] # OldByte =>
                             machine.image[bytes[address].segment].load
    BY DEF SegmentsInPlace
  <2>1. at \in After
    BY DEF Steps, After
  <2>2. \A i \in DOMAIN machine.image : i < segment
    BY <2>1, AfterLoop
  <2>3. Placed /\ OnlyLoaded
    BY DEF BootLoaderInv
  <2> QED
    BY <2>2, <2>3 DEF Placed, OnlyLoaded, LoadedHeaders
<1> QED
  BY <1>1, InitBootLoaderInv, NextBootLoaderInv, PTL DEF Spec

(* A kernel that starts without boot services and with a filled map starts *)
(* with the map of the machine as it is: every change of memory since the  *)
(* map was read has changed the key ExitBootServices compares.             *)
THEOREM LoaderMapIsTrue == Spec => []KernelGetsTrueMap
<1>1. BootLoaderInv => KernelGetsTrueMap
  BY DEF BootLoaderInv, KeyIsTrue, KernelGetsTrueMap
<1> QED
  BY <1>1, InitBootLoaderInv, NextBootLoaderInv, PTL DEF Spec
===============================================================================
