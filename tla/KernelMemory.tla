----------------------------- MODULE KernelMemory -----------------------------
(***************************************************************************)
(* The kernel's virtual memory: PrepareMemory (kernelUtil.cpp) builds a    *)
(* four-level identity map with PageTableManager::MapMemory                *)
(* (pageTableManager.cpp) and loads CR3, EnumeratePCI (pci.cpp) maps       *)
(* configuration pages, PrepareInterrupts borrows the page of the IDT, and *)
(* from then on PageFault_handler (interrupts.cpp) backs every address     *)
(* that faults with a borrowed page.                                       *)
(*                                                                         *)
(* Every page comes from CorgiAlloc, one allocator call to a step.  A call *)
(* of MapMemory in progress is a frame of "stack": the kernel has one CPU  *)
(* and the handler runs behind an interrupt gate, so the only thing that   *)
(* interrupts a call is a fault of its own, taken when memset writes to a  *)
(* table that is itself not mapped.                                        *)
(*                                                                         *)
(* A table is a function from indices to entries; an entry is the page it  *)
(* points to, or Absent.  Present and ReadWrite are always set together.   *)
(***************************************************************************)
EXTENDS CorgiAlloc

CONSTANTS
  Fan,            (* entries per table: 512                                 *)
  KernelImage,    (* the pages from _KernelStart to _KernelEnd              *)
  fbBase, fbEnd,  (* the framebuffer's first page, and the one after it     *)
  ConfigPages,    (* bound: PCI configuration pages the MCFG may lead to    *)
  Touched         (* bound: virtual pages the running kernel may touch      *)

(* The pages four levels of tables can map: 48-bit addresses.              *)
Virtual == 0 .. Fan * (Fan * (Fan * Fan)) - 1

(* Memory and the framebuffer are mapped to themselves, so they have to    *)
(* lie among them, and the kernel goes on running behind the new map, so   *)
(* its image is in the memory that is mapped.                              *)
ASSUME KernelAssumption ==
  /\ Fan \in Nat \ {0}
  /\ fbBase \in Nat /\ fbEnd \in Virtual /\ fbBase <= fbEnd
  /\ ConfigPages \subseteq Virtual
  /\ Touched \subseteq Virtual
  /\ \A mMap \in MemoryMaps :
       /\ 0 .. GetMemorySize(mMap) - 1 \subseteq Virtual
       /\ KernelImage \subseteq 0 .. GetMemorySize(mMap) - 1

VARIABLES
  phase,          (* how far InitializeKernel has come                      *)
  next,           (* the loop variable i of PrepareMemory, in pages         *)
  PML4,           (* pageTableManager.PML4, and CR3 once it is loaded       *)
  tables,         (* contents of the physical pages written as tables       *)
  stack,          (* MapMemory calls and faults in progress, innermost last *)
  idt,            (* idtr.Offset                                            *)
  enumerated,     (* history: configuration pages EnumeratePCI has mapped   *)
  recovered,      (* history: the page each recovered address was given     *)
  spoiled         (* history: a table was put where no table can be         *)

kernelVars == <<phase, next, PML4, tables, stack, idt, enumerated, recovered, spoiled>>
vars == <<allocVars, kernelVars>>

Absent == -1      \* an entry whose Present flag is clear
Garbage == -2     \* an entry of a page that is no table
Nothing == -3     \* no table page waiting for memset

Put(f, x, y) == [z \in DOMAIN f \cup {x} |-> IF z = x THEN y ELSE f[z]]

Indices == 0 .. Fan - 1
ZeroTable == [i \in Indices |-> Absent]

Write(table, i, page) ==
  [t \in DOMAIN tables |->
     IF t = table THEN [tables[t] EXCEPT ![i] = page] ELSE tables[t]]

(* PageMapIndexer: level 1 indexes the PML4 (PDP_i), level 4 the page      *)
(* table (P_i).  Higher bits of the address are dropped.                   *)
Stride == <<Fan * (Fan * Fan), Fan * Fan, Fan, 1>>

Index(virtual, level) == (virtual \div Stride[level]) % Fan

Entry(table, i) == IF table \in DOMAIN tables THEN tables[table][i] ELSE Garbage

(* The hardware's walk: the page "virtual" translates to, or why not.      *)
Walk(virtual) ==
  LET Step(entry, level) ==
        IF entry < 0 THEN entry ELSE Entry(entry, Index(virtual, level))
  IN  Step(Step(Step(Step(PML4, 1), 2), 3), 4)

(* Before CR3 is loaded the firmware's identity map is in force.           *)
Paging == phase \in {"pci", "idt", "running", "panic", "reset", "runaway"}
Physical(virtual) == IF Paging THEN Walk(virtual) ELSE virtual

(* What PrepareMemory maps to itself: memory and the framebuffer.          *)
IdentityMapped == 0 .. GetMemorySize(memoryMap) - 1 \cup fbBase .. fbEnd

(* MapMemory uses a table's page number as its address, so a table must    *)
(* lie where the two are the same once CR3 is loaded; page 0, nullptr, is  *)
(* the kernel image's.                                                     *)
TableHome(page) ==
  /\ page # NoPage
  /\ IF Paging THEN Walk(page) = page ELSE page \in IdentityMapped

(* A call of MapMemory(virtual, physical) that has reached a table of some *)
(* level; level 0 is a handler that has yet to borrow its new page.  The   *)
(* page borrowed for the next table is "fresh" until it is linked.         *)
Call(virtual, physical, level) ==
  [virtual |-> virtual, physical |-> physical, level |-> level,
   table |-> PML4, fresh |-> Nothing, zeroed |-> FALSE]

Top == stack[Len(stack)]
(* The table page the call reads or writes next.                           *)
Accessed ==
  IF Top.fresh # Nothing /\ ~Top.zeroed THEN Top.fresh ELSE Top.table

TopEntry == Entry(Physical(Top.table), Index(Top.virtual, Top.level))

Below == SubSeq(stack, 1, Len(stack) - 1)
ReplaceTop(call) == Append(Below, call)

Init ==
  /\ AllocInit
  /\ phase = "map"
  /\ next = 0
  /\ PML4 = NoPage
  /\ tables = << >>
  /\ stack = << >>
  /\ idt = NoPage
  /\ enumerated = {}
  /\ recovered = << >>
  /\ spoiled = FALSE

-----------------------------------------------------------------------------
(* PrepareMemory and PrepareInterrupts, one allocator call to a step *)

ReadMap ==
  /\ phase = "map"
  /\ Boot
  /\ phase' = "kernel"
  /\ UNCHANGED <<next, PML4, tables, stack, idt, enumerated, recovered,
                 spoiled>>

StealKernel ==
  /\ phase = "kernel"
  /\ Steal(KernelImage)
  /\ phase' = "pml4"
  /\ UNCHANGED <<next, PML4, tables, stack, idt, enumerated, recovered,
                 spoiled>>

BorrowPML4 ==
  /\ phase = "pml4"
  /\ Borrow
  /\ PML4' = returned'
  /\ tables' = [t \in {PML4'} |-> ZeroTable]
  /\ spoiled' = ~TableHome(returned')
  /\ phase' = "identity"
  /\ UNCHANGED <<next, stack, idt, enumerated, recovered>>

(* The two loops: MapMemory(i, i) for every page of memory, then for every *)
(* page of the framebuffer.                                                *)
LoopEndHalved ==      \* mutant: the identity loop stops half way
  IF phase = "identity" THEN GetMemorySize(memoryMap) \div 2
  ELSE fbEnd + 1

LoopEnd ==
  IF phase = "identity" THEN GetMemorySize(memoryMap)
  ELSE fbEnd + 1

CallMapMemoryPastEnd ==      \* mutant: i <= GetMemorySize
  /\ phase \in {"identity", "framebuffer"}
  /\ stack = << >>
  /\ next <= LoopEnd
  /\ stack' = <<Call(next, next, 1)>>
  /\ next' = next + 1
  /\ UNCHANGED <<allocVars, phase, PML4, tables, idt, enumerated, recovered,
                 spoiled>>

CallMapMemory ==
  /\ phase \in {"identity", "framebuffer"}
  /\ stack = << >>
  /\ next < LoopEnd
  /\ stack' = <<Call(next, next, 1)>>
  /\ next' = next + 1
  /\ UNCHANGED <<allocVars, phase, PML4, tables, idt, enumerated, recovered,
                 spoiled>>

EndLoop ==
  /\ phase \in {"identity", "framebuffer"}
  /\ stack = << >>
  /\ next >= LoopEnd
  /\ IF phase = "identity"
     THEN phase' = "framebuffer" /\ next' = fbBase
     ELSE phase' = "pci" /\ next' = next
  /\ UNCHANGED <<allocVars, PML4, tables, stack, idt, enumerated, recovered,
                 spoiled>>

(* EnumerateBus, EnumerateDevice and EnumerateFunction each map the page   *)
(* whose header they read; which pages, and for how long, is up to the     *)
(* MCFG and the devices.                                                   *)
EnumerateFunction(page) ==
  /\ phase = "pci"
  /\ stack = << >>
  /\ stack' = <<Call(page, page, 1)>>
  /\ UNCHANGED <<allocVars, phase, next, PML4, tables, idt, enumerated,
                 recovered, spoiled>>

EndPCI ==
  /\ phase = "pci"
  /\ stack = << >>
  /\ phase' = "idt"
  /\ UNCHANGED <<allocVars, next, PML4, tables, stack, idt, enumerated,
                 recovered, spoiled>>

(* The gates are written through the new map: an IDT page that is not      *)
(* mapped is a fault with no handler, and the machine resets.              *)
PrepareInterrupts ==
  /\ phase = "idt"
  /\ Borrow
  /\ idt' = returned'
  /\ phase' = IF Walk(returned') = Absent THEN "reset" ELSE "running"
  /\ UNCHANGED <<next, PML4, tables, stack, enumerated, recovered, spoiled>>

-----------------------------------------------------------------------------
(* PageTableManager::MapMemory *)

(* A directory level whose entry is present: take the table it points to.  *)
Descend ==
  /\ stack # << >>
  /\ Top.level \in 1 .. 3
  /\ Top.fresh = Nothing
  /\ TopEntry >= 0
  /\ stack' = ReplaceTop([Top EXCEPT !.table = TopEntry, !.level = @ + 1])
  /\ UNCHANGED <<allocVars, phase, next, PML4, tables, idt, enumerated,
                 recovered, spoiled>>

(* An absent entry: borrow a page for the table, whatever the answer.      *)
BorrowTable ==
  /\ stack # << >>
  /\ Top.level \in 1 .. 3
  /\ Top.fresh = Nothing
  /\ TopEntry = Absent
  /\ Borrow
  /\ stack' = ReplaceTop([Top EXCEPT !.fresh = returned'])
  /\ spoiled' = (spoiled \/ ~TableHome(returned'))
  /\ UNCHANGED <<phase, next, PML4, tables, idt, enumerated, recovered>>

(* memset of the new table.                                                *)
ClearTable ==
  /\ stack # << >>
  /\ Top.fresh # Nothing
  /\ ~Top.zeroed
  /\ Physical(Top.fresh) >= 0
  /\ tables' = Put(tables, Physical(Top.fresh), ZeroTable)
  /\ stack' = ReplaceTop([Top EXCEPT !.zeroed = TRUE])
  /\ UNCHANGED <<allocVars, phase, next, PML4, idt, enumerated, recovered,
                 spoiled>>

LinkTableUnlinked ==      \* mutant: the parent's entry is never written back
  /\ stack # << >>
  /\ Top.fresh # Nothing
  /\ Top.zeroed
  /\ Physical(Top.table) >= 0
  /\ stack' = ReplaceTop([Top EXCEPT !.table = Top.fresh, !.level = @ + 1,
                                     !.fresh = Nothing, !.zeroed = FALSE])
  /\ UNCHANGED <<allocVars, phase, next, PML4, tables, idt, enumerated,
                 recovered, spoiled>>

(* Link the new table into its parent and go on with it.  A write to a     *)
(* page that is no table changes no table.                                 *)
LinkTable ==
  /\ stack # << >>
  /\ Top.fresh # Nothing
  /\ Top.zeroed
  /\ Physical(Top.table) >= 0
  /\ tables' = Write(Physical(Top.table), Index(Top.virtual, Top.level),
                     Top.fresh)
  /\ stack' = ReplaceTop([Top EXCEPT !.table = Top.fresh, !.level = @ + 1,
                                     !.fresh = Nothing, !.zeroed = FALSE])
  /\ UNCHANGED <<allocVars, phase, next, PML4, idt, enumerated, recovered,
                 spoiled>>

(* The call touches a table that is not mapped: a fault inside the call.   *)
TableFault ==
  /\ phase = "running"
  /\ stack # << >>
  /\ Top.level > 0
  /\ Physical(Accessed) = Absent
  /\ stack' = Append(stack, Call(Accessed, NoPage, 0))
  /\ UNCHANGED <<allocVars, phase, next, PML4, tables, idt, enumerated,
                 recovered, spoiled>>

(* The same before lidt: the firmware's handlers are gone, the machine     *)
(* resets.                                                                 *)
UnhandledFault ==
  /\ phase = "pci"
  /\ stack # << >>
  /\ Physical(Accessed) = Absent
  /\ phase' = "reset"
  /\ stack' = << >>
  /\ UNCHANGED <<allocVars, next, PML4, tables, idt, enumerated, recovered,
                 spoiled>>

(* The walk reads an entry from a page that is no table: what the machine  *)
(* does next depends on that page's contents, and the model stops here.    *)
Runaway ==
  /\ stack # << >>
  /\ Top.level > 0
  /\ \/ Physical(Accessed) = Garbage
     \/ Top.level < 4 /\ Top.fresh = Nothing
          /\ Physical(Top.table) >= 0 /\ TopEntry = Garbage
  /\ phase' = "runaway"
  /\ stack' = << >>
  /\ UNCHANGED <<allocVars, next, PML4, tables, idt, enumerated, recovered,
                 spoiled>>

MapPageWrongIndex ==      \* mutant: PT->entries[indexer.PT_i]
  /\ stack # << >>
  /\ Top.level = 4
  /\ Physical(Top.table) >= 0
  /\ tables' = Write(Physical(Top.table), Index(Top.virtual, 3),
                     Top.physical)
  /\ stack' = Below
  /\ enumerated' = IF phase = "pci" THEN enumerated \cup {Top.virtual}
                   ELSE enumerated
  /\ recovered' = IF phase = "running"
                  THEN Put(recovered, Top.virtual, Top.physical)
                  ELSE recovered
  /\ UNCHANGED <<allocVars, phase, next, PML4, idt, spoiled>>

(* The last level: write the entry and return, from the handler too when   *)
(* the call is the handler's.                                              *)
MapPage ==
  /\ stack # << >>
  /\ Top.level = 4
  /\ Physical(Top.table) >= 0
  /\ tables' = Write(Physical(Top.table), Index(Top.virtual, 4),
                     Top.physical)
  /\ stack' = Below
  /\ enumerated' = IF phase = "pci" THEN enumerated \cup {Top.virtual}
                   ELSE enumerated
  /\ recovered' = IF phase = "running"
                  THEN Put(recovered, Top.virtual, Top.physical)
                  ELSE recovered
  /\ UNCHANGED <<allocVars, phase, next, PML4, idt, spoiled>>

-----------------------------------------------------------------------------
(* PageFault_handler *)

PageFault(virtual) ==
  /\ phase = "running"
  /\ stack = << >>
  /\ Walk(virtual) = Absent
  /\ stack' = <<Call(virtual, NoPage, 0)>>
  /\ UNCHANGED <<allocVars, phase, next, PML4, tables, idt, enumerated,
                 recovered, spoiled>>

BorrowNewPageRetrying ==      \* mutant: nullptr is not told from a page
  /\ stack # << >>
  /\ Top.level = 0
  /\ phase = "running"
  /\ Borrow
  /\ stack' = IF returned' # NoPage
              THEN ReplaceTop(Call(Top.virtual, returned', 1))
              ELSE stack
  /\ UNCHANGED <<phase, next, PML4, tables, idt, enumerated, recovered,
                 spoiled>>

(* BorrowPage for the faulting address; nullptr ends in Panic::Trigger.    *)
BorrowNewPage ==
  /\ stack # << >>
  /\ Top.level = 0
  /\ phase = "running"
  /\ Borrow
  /\ IF returned' # NoPage
     THEN /\ stack' = ReplaceTop(Call(Top.virtual, returned', 1))
          /\ phase' = phase
     ELSE /\ stack' = << >>
          /\ phase' = "panic"
  /\ UNCHANGED <<next, PML4, tables, idt, enumerated, recovered, spoiled>>

-----------------------------------------------------------------------------
Prepare ==
  \/ ReadMap
  \/ StealKernel
  \/ BorrowPML4
  \/ CallMapMemory
  \/ EndLoop
  \/ \E page \in ConfigPages : EnumerateFunction(page)
  \/ EndPCI
  \/ PrepareInterrupts

MapMemory ==
  \/ Descend
  \/ BorrowTable
  \/ ClearTable
  \/ LinkTable
  \/ TableFault
  \/ UnhandledFault
  \/ Runaway
  \/ MapPage

Next ==
  \/ Prepare
  \/ MapMemory
  \/ BorrowNewPage
  \/ \E virtual \in Touched : PageFault(virtual)

(* The CPU does not stop in the middle of the kernel's own code; whether   *)
(* anything ever touches an unmapped page is up to the program.            *)
Spec == Init /\ [][Next]_vars /\ WF_vars(Prepare \/ MapMemory \/ BorrowNewPage)

-----------------------------------------------------------------------------
(* Correctness *)

(* The type of the state: levels, table entries and the loop variable stay *)
(* in range.                                                               *)
Entries == Nat \cup {Absent}

Calls ==
  [virtual : Nat, physical : Nat, level : 0 .. 4, table : Nat,
   fresh : Nat \cup {Nothing}, zeroed : BOOLEAN]

TypeOK ==
  /\ AllocTypeOK
  /\ phase \in {"map", "kernel", "pml4", "identity", "framebuffer", "pci",
                "idt", "running", "panic", "reset", "runaway"}
  /\ next \in Nat
  /\ phase \in {"identity", "framebuffer"} => next <= LoopEnd
  /\ PML4 \in Nat
  /\ DOMAIN tables \subseteq Nat
  /\ tables \in [DOMAIN tables -> [Indices -> Entries]]
  /\ stack \in Seq(Calls)
  /\ idt \in Nat
  /\ enumerated \subseteq ConfigPages
  /\ DOMAIN recovered \subseteq Nat
  /\ recovered \in [DOMAIN recovered -> Tracked(corgiAlloc)]
  /\ spoiled \in BOOLEAN

(* The links of the directory levels, as <<table, index>>.                 *)
LinksOf(level) ==
  {link \in level \X Indices : Entry(link[1], link[2]) >= 0}
Targets(links) == {Entry(link[1], link[2]) : link \in links}

DirectoryLinks ==
  LET pdps == Targets(LinksOf({PML4}))
      pds == Targets(LinksOf(pdps))
  IN  LinksOf({PML4}) \cup LinksOf(pdps) \cup LinksOf(pds)

(* Pages borrowed by calls that have not put them to use yet.              *)
Calling == {stack[d] : d \in DOMAIN stack}
PendingTables == {c.fresh : c \in {d \in Calling : d.fresh # Nothing}}
ClearedTables == {c.fresh : c \in {d \in Calling : d.zeroed}}
PendingPages ==
  IF phase = "running"
  THEN {c.physical : c \in {d \in Calling : d.level > 0}}
  ELSE {}

(* Every page the kernel holds has one use and every page borrowed is in   *)
(* use: it is the PML4, the target of exactly one directory entry, the     *)
(* page of exactly one recovered address, the IDT, or on its way to one of *)
(* them.  Two uses would let two addresses write to one page; none would   *)
(* be a leak.  It holds while no table was put where no table can be.      *)
EveryBorrowedPageHasOneUse ==
  LET directory == {PML4} \cup Targets(DirectoryLinks)
      backing == {recovered[v] : v \in DOMAIN recovered}
      gates == {idt} \ {NoPage}
  IN  phase \notin {"map", "kernel", "pml4"} /\ ~spoiled =>
        /\ DOMAIN tables = directory \cup ClearedTables
        /\ granted = (KernelImage \ PermanentlyLocked(memoryMap))
                       \cup directory \cup backing \cup gates
                       \cup PendingTables \cup PendingPages
        /\ Cardinality(granted) =
              Cardinality(KernelImage \ PermanentlyLocked(memoryMap))
                + 1 + Cardinality(DirectoryLinks)
                + Cardinality(DOMAIN recovered) + Cardinality(gates)
                + Cardinality(PendingTables) + Cardinality(PendingPages)

(* Once CR3 is loaded every page of memory, of the framebuffer and every   *)
(* configuration page enumerated translates to itself, and every address   *)
(* the handler recovered to the page borrowed for it, whatever was mapped  *)
(* after it.                                                               *)
TranslationIntact ==
  ~spoiled =>
    /\ Paging => \A p \in IdentityMapped : Walk(p) = p
    /\ \A p \in enumerated : Walk(p) = p
    /\ \A v \in DOMAIN recovered : Walk(v) = recovered[v]

(* A table lands on page 0 or outside the identity map, and a fault comes  *)
(* inside a call of MapMemory, only when not one page of memory is left:   *)
(* until then MapMemory's unchecked BorrowPage is safe, and nothing links  *)
(* a table between its read of an entry and its write of it (:45).         *)
OnlyExhaustionSpoils ==
  spoiled \/ Len(stack) > 1 =>
    Clear(corgiAlloc) \cap 0 .. GetMemorySize(memoryMap) - 1 = {}

(* Every call of MapMemory and every fault, faults inside faults included, *)
(* ends: the handler returns or panics.                                    *)
EveryCallEnds == stack # << >> ~> stack = << >>

-----------------------------------------------------------------------------
(* What a comment of the source says and the code does not keep *)

(* interrupts.cpp:15: when the handler returns the recovery is successful: *)
(* the address translates to the page it was given, and page 0, which the  *)
(* kernel image starts with, was not overwritten on the way.               *)
RecoverySuccessful ==
  phase = "running" /\ stack = << >> =>
    /\ \A v \in DOMAIN recovered : Walk(v) = recovered[v]
    /\ NoPage \notin DOMAIN tables
=============================================================================
