------------------------------- MODULE BootLoader -------------------------------
(***************************************************************************)
(* The UEFI boot loader of CorgiOS (gnu-efi/bootloader/main.c): efi_main   *)
(* loads the ELF image of the kernel and a font, gathers what the kernel   *)
(* is told about the machine (BootInfo), leaves the boot services and      *)
(* jumps to the kernel.  It looks at few of the firmware's answers.        *)
(*                                                                         *)
(* Until ExitBootServices the firmware lives on beside it: a call may fail *)
(* and an event handler (printing has the same effect) may take or give    *)
(* back a page, which makes the key of an older memory map invalid.        *)
(***************************************************************************)
EXTENDS Integers, Sequences, FiniteSets, FiniteSetsExt

CONSTANTS
  LastPage,    (* memory is the pages 0 .. LastPage                         *)
  PageSize,    (* 0x1000                                                    *)
  Images,      (* program headers the kernel file may have                  *)
  TableLists,  (* configuration tables the firmware may have                *)
  Occupied,    (* sets of pages the firmware may hold at the start          *)
  MaxFailures, (* bound: calls of the firmware that fail                    *)
  MaxEvents    (* bound: changes of memory by the firmware                  *)

Page == 0 .. LastPage

Address == 0 .. (LastPage + 1) * PageSize - 1

(* load: p_type is PT_LOAD; address, size, bytes: p_paddr, p_memsz, p_filesz. *)
Header == [load : BOOLEAN, address : Address, size : Nat, bytes : Nat]

(* What a configuration table is: its GUID, and the table it points at. An *)
(* ACPI 1.0 and an ACPI 2.0 root pointer both begin with an R.             *)
Entry == [guid : {"acpi1", "acpi2", "other"}, table : {"rsdp1", "rsdp2", "other"}]

Begins == [rsdp1 |-> "R", rsdp2 |-> "R", other |-> "other"]

ASSUME BootLoaderAssumption ==
  /\ LastPage \in Nat /\ PageSize \in Nat \ {0}
  /\ Images \subseteq Seq(Header)
  /\ \A image \in Images : \A i \in DOMAIN image :
       /\ image[i].address % PageSize = 0
       /\ image[i].bytes <= image[i].size
       /\ image[i].address + image[i].size - 1 \in Address \cup {-1}
  /\ TableLists \subseteq Seq(Entry)
  /\ Occupied \subseteq SUBSET Page
  /\ MaxFailures \in Nat /\ MaxEvents \in Nat

VARIABLES
  at,          (* the step of efi_main that is next                         *)
  segment,     (* the program header that is loaded next                    *)
  Map,         (* the memory map: its buffer, MapSize and MapKey            *)
  bootInfo,    (* framebuffer, font, rsdp: whether they are there           *)
  machine,     (* the kernel file, the font file, the display, the tables   *)
  owner,       (* who holds each page                                       *)
  bytes,       (* what is at each address: a byte of a segment, or not      *)
  key,         (* the key of the memory map as it is                        *)
  services,    (* boot services are there                                   *)
  failed,      (* history: the calls that have failed                       *)
  events       (* how often the firmware has changed memory                 *)

loader == <<at, segment, Map, bootInfo>>
firmware == <<owner, bytes, key, services>>
vars == <<loader, machine, firmware, failed, events>>

Free == {page \in Page : owner[page] = "free"}

(* A memory map has a descriptor for every run of pages held alike.        *)
Descriptors(o) == 1 + Cardinality({page \in 1 .. LastPage : o[page] # o[page - 1]})

OldByte == [segment |-> 0, offset |-> 0]

(* Calls fail: they do nothing and say so.                                 *)
Fail(calls) ==
  /\ Cardinality(failed \ {"AllocatePages"}) < MaxFailures
  /\ failed' = failed \cup calls

-----------------------------------------------------------------------------
(* Mutant: a last page that is not full is forgotten.                      *)
PagesRoundedDown(header) == header.size \div PageSize

Pages(header) == (header.size + PageSize - 1) \div PageSize

PagesOf(header) ==
  {header.address \div PageSize + i : i \in 0 .. Pages(header) - 1}

(* AllocatePages(AllocateAddress, ...) refuses pages that are not free.    *)
Refused(header) == ~(PagesOf(header) \subseteq Free)

AfterAllocatePages(header) ==
  [page \in Page |-> IF page \in PagesOf(header) /\ ~Refused(header)
                     THEN "loader" ELSE owner[page]]

(* Mutant: all of the segment is read, as if the file held its .bss too.   *)
AfterReadAll(i, header) ==
  [address \in Address |->
     IF address - header.address \in 0 .. header.size - 1
     THEN [segment |-> i, offset |-> address - header.address]
     ELSE bytes[address]]

(* Kernel->Read at p_paddr: p_filesz bytes, and nothing for the rest.      *)
AfterRead(i, header) ==
  [address \in Address |->
     IF address - header.address \in 0 .. header.bytes - 1
     THEN [segment |-> i, offset |-> address - header.address]
     ELSE bytes[address]]

(* Mutant: whatever has an address is loaded.                              *)
IsLoadedIfAnything(header) == header.size > 0

IsLoaded(header) == header.load

(* n calls of AllocatePool: from pages the firmware has for the loader, or *)
(* new ones.                                                               *)
AllocatePool(n) ==
  \E pages \in SUBSET Free :
    /\ Cardinality(pages) <= n
    /\ owner' = [page \in Page |-> IF page \in pages THEN "loader" ELSE owner[page]]
    /\ key' = key + Cardinality(pages)

(* A step of efi_main; segments and ExitBootServices apart, it leaves the  *)
(* contents of memory and the services of the firmware alone.              *)
Step(from, to) ==
  at = from /\ at' = to /\ UNCHANGED <<bytes, services, machine, events>>

(* It calls nothing that allocates or fails.                               *)
NoCall == UNCHANGED <<owner, key, failed>>

Init ==
  /\ at = "kernel file"
  /\ segment = 1
  /\ Map = [buffer |-> "null", shows |-> {}, size |-> 0, key |-> 0]
  /\ bootInfo = [framebuffer |-> FALSE, font |-> FALSE, rsdp |-> "null"]
  /\ machine \in [file : {"missing", "invalid", "valid"}, image : Images,
                  font : {"missing", "invalid", "good"}, display : BOOLEAN,
                  tables : TableLists]
  /\ \E pages \in Occupied :
       owner = [page \in Page |-> IF page \in pages THEN "firmware" ELSE "free"]
  /\ bytes = [address \in Address |-> OldByte]
  /\ key = 1
  /\ services = TRUE
  /\ failed = {}
  /\ events = 0

(* LoadFile of CorgiOS.elf: without it efi_main returns EFI_LOAD_ERROR.    *)
LoadKernelFile ==
  /\ Step("kernel file", IF machine.file = "missing" THEN "load error" ELSE "header")
  /\ NoCall /\ UNCHANGED <<segment, Map, bootInfo>>

(* The ELF header: read, and checked.  GetInfo is given the address of a   *)
(* pointer for its buffer and writes over what comes after it on the       *)
(* stack, and AllocatePool may leave a pointer as it was.                  *)
ReadHeader ==
  /\ \/ /\ Step("header", IF machine.file = "valid" THEN "program headers"
                           ELSE "load error")
        /\ AllocatePool(1) /\ UNCHANGED failed
     \/ Step("header", "load error") /\ Fail({"Read"}) /\ UNCHANGED <<owner, key>>
     \/ Step("header", "undefined") /\ NoCall
  /\ UNCHANGED <<segment, Map, bootInfo>>

(* The program headers.  Without memory for them, or when they cannot be   *)
(* read, what follows is undefined.                                        *)
ReadProgramHeaders ==
  /\ \/ /\ Step("program headers", "segments")
        /\ AllocatePool(1) /\ UNCHANGED failed
     \/ /\ Step("program headers", "undefined")
        /\ \E call \in {"AllocatePool", "Read"} : Fail({call})
        /\ UNCHANGED <<owner, key>>
  /\ UNCHANGED <<segment, Map, bootInfo>>

(* One turn of the loop over the program headers.  The answer of           *)
(* AllocatePages is not looked at: the segment goes where it was to go, and *)
(* what it is written over may be what the loader or the firmware needs.   *)
LoadSegment ==
  /\ at = "segments"
  /\ segment <= Len(machine.image)
  /\ IsLoaded(machine.image[segment])
  /\ LET header == machine.image[segment]
         refused == IF Refused(header) THEN {"AllocatePages"} ELSE {}
     IN  /\ owner' = AfterAllocatePages(header)
         /\ key' = IF owner' = owner THEN key ELSE key + 1
         /\ \/ bytes' = AfterRead(segment, header) /\ failed' = failed \cup refused
            \/ UNCHANGED bytes /\ Fail({"Read"} \cup refused)
         /\ \/ UNCHANGED at
            \/ Refused(header) /\ at' = "undefined"
  /\ segment' = segment + 1
  /\ UNCHANGED <<Map, bootInfo, services, machine, events>>

SkipHeader ==
  /\ Step("segments", "segments") /\ NoCall /\ UNCHANGED <<Map, bootInfo>>
  /\ segment <= Len(machine.image)
  /\ ~IsLoaded(machine.image[segment])
  /\ segment' = segment + 1

InitializeGraphicsOutputProtocol ==
  /\ Step("segments", "font") /\ NoCall /\ UNCHANGED <<segment, Map>>
  /\ segment > Len(machine.image)
  /\ bootInfo' = [bootInfo EXCEPT !.framebuffer = machine.display]

(* LoadFont: a header, glyphs and a PSF_FONT.  There is no font without    *)
(* the file or its magic number; an unread header may have it by chance,   *)
(* and without memory what follows is undefined.                           *)
InvalidFont ==
  /\ ~bootInfo'.font
  /\ \/ AllocatePool(1)
     \/ key' = key + 2 /\ UNCHANGED owner   \* FreePool gives the page back

GoodFont == bootInfo'.font /\ AllocatePool(3)

LoadFont ==
  /\ at = "font"
  /\ \E there \in BOOLEAN : bootInfo' = [bootInfo EXCEPT !.font = there]
  /\ \/ /\ Step("font", "info")
        /\ CASE machine.font = "missing" -> ~bootInfo'.font /\ UNCHANGED <<owner, key>>
             [] machine.font = "invalid" -> InvalidFont
             [] machine.font = "good" -> GoodFont
        /\ UNCHANGED failed
     \/ /\ machine.font # "missing"
        /\ \/ Step("font", "info") /\ (InvalidFont \/ GoodFont) /\ Fail({"Read"})
           \/ /\ Step("font", "undefined") /\ UNCHANGED <<owner, key>>
              /\ Fail({"AllocatePool"})
  /\ UNCHANGED <<segment, Map>>

(* The display and the font are printed, through null if they are not      *)
(* there: page 0 is read, or the machine stops.                            *)
PrintInfo ==
  /\ \/ Step("info", "map size")
     \/ ~(bootInfo.framebuffer /\ bootInfo.font) /\ Step("info", "undefined")
  /\ NoCall /\ UNCHANGED <<segment, Map, bootInfo>>

(* GetMemoryMap says how large a map is; a call that fails may or may not  *)
(* answer the key.                                                         *)
NoMap ==
  \E k \in {Map.key, key} :
    Map' = [Map EXCEPT !.size = Descriptors(owner), !.key = k]

GetMapSize ==
  /\ Step("map size", "map buffer") /\ NoCall /\ UNCHANGED <<segment, bootInfo>>
  /\ NoMap

AllocateMapBuffer ==
  /\ Step("map buffer", "map") /\ UNCHANGED <<segment, bootInfo>>
  /\ \/ /\ Map' = [Map EXCEPT !.buffer = "junk"]
        /\ AllocatePool(1) /\ UNCHANGED failed
     \/ Fail({"AllocatePool"}) /\ UNCHANGED <<Map, owner, key>>

(* The second call fails if the buffer is not there or, the allocation or  *)
(* the firmware having split a descriptor, too small.                      *)
GetMemoryMap ==
  /\ Step("map", "tables") /\ NoCall /\ UNCHANGED <<segment, bootInfo>>
  /\ IF Map.buffer = "junk" /\ Descriptors(owner) <= Map.size
     THEN Map' = [buffer |-> "filled", shows |-> Free,
                  size |-> Descriptors(owner), key |-> key]
     ELSE NoMap

(* The loop over the configuration tables.  configTable is moved on and    *)
(* indexed as well, so turn i looks at the GUID of entry 2 i, which may be *)
(* past the end, and at the table of entry i; CompareGuid is 0 if the      *)
(* GUIDs are the same, and strcmp never leaves the first character.        *)
PassesLoop(i, junk) ==
  LET looked == 2 * (i - 1) + 1
      tables == machine.tables
  IN  /\ IF looked <= Len(tables) THEN tables[looked].guid # "acpi2" ELSE looked \notin junk
      /\ Begins[tables[i].table] = "R"

(* With the root pointer BootInfo is filled.                               *)
FillBootInfo ==
  /\ Step("tables", "exit") /\ NoCall /\ UNCHANGED <<segment, Map>>
  /\ \E junk \in SUBSET (Len(machine.tables) + 1 .. 2 * Len(machine.tables)) :
       LET found == {i \in DOMAIN machine.tables : PassesLoop(i, junk)}
       IN  bootInfo' = [bootInfo EXCEPT
                          !.rsdp = IF found = {} THEN "null"
                                   ELSE machine.tables[Max(found)].table]

(* Mutant: the key is asked for again, the map is not.                     *)
ExitWithFreshKey ==
  /\ at = "exit"
  /\ services' = FALSE
  /\ at' = "kernel"
  /\ NoCall /\ UNCHANGED <<segment, Map, bootInfo, bytes, machine, events>>

(* ExitBootServices refuses a key that is not that of the map as it is;    *)
(* its answer is not looked at.                                            *)
ExitBootServices ==
  /\ at = "exit"
  /\ services' = (Map.key # key)
  /\ at' = "kernel"
  /\ NoCall /\ UNCHANGED <<segment, Map, bootInfo, bytes, machine, events>>

(* The firmware, while its services are there: an event takes a page, or   *)
(* gives one of its own back.                                              *)
FirmwareEvent ==
  /\ services
  /\ at \notin {"kernel", "undefined", "load error"}
  /\ events < MaxEvents
  /\ \E page \in Page :
       \/ /\ owner[page] = "free"
          /\ owner' = [owner EXCEPT ![page] = "firmware"]
       \/ /\ owner[page] = "firmware"
          /\ owner' = [owner EXCEPT ![page] = "free"]
  /\ key' = key + 1
  /\ events' = events + 1
  /\ UNCHANGED <<loader, bytes, services, machine, failed>>

efi_main ==
  \/ LoadKernelFile \/ ReadHeader \/ ReadProgramHeaders
  \/ LoadSegment \/ SkipHeader
  \/ InitializeGraphicsOutputProtocol \/ LoadFont \/ PrintInfo
  \/ GetMapSize \/ AllocateMapBuffer \/ GetMemoryMap
  \/ FillBootInfo \/ ExitBootServices

Next == efi_main \/ FirmwareEvent

Spec == Init /\ [][Next]_vars

-----------------------------------------------------------------------------
(* Correctness.                                                            *)

Steps ==
  {"kernel file", "header", "program headers", "segments", "font", "info",
   "map size", "map buffer", "map", "tables", "exit", "kernel", "load error",
   "undefined"}

(* The loader is at a step of efi_main, and every byte that came from the  *)
(* kernel file is one of the file bytes of a program header.               *)
TypeOK ==
  /\ at \in Steps
  /\ segment \in 1 .. Len(machine.image) + 1
  /\ Map \in [buffer : {"null", "junk", "filled"}, shows : SUBSET Page,
              size : 0 .. LastPage + 1, key : 0 .. key]
  /\ bootInfo \in [framebuffer : BOOLEAN, font : BOOLEAN,
                   rsdp : {"null", "rsdp1", "rsdp2", "other"}]
  /\ owner \in [Page -> {"free", "firmware", "loader"}]
  /\ DOMAIN bytes = Address
  /\ \A address \in Address :
       \/ bytes[address] = OldByte
       \/ \E i \in DOMAIN machine.image :
            /\ bytes[address].segment = i
            /\ bytes[address].offset \in 0 .. machine.image[i].bytes - 1
  /\ key \in Nat /\ services \in BOOLEAN
  /\ failed \subseteq {"AllocatePages", "AllocatePool", "Read"}
  /\ events \in 0 .. MaxEvents

LoadedHeaders == {i \in DOMAIN machine.image : i < segment /\ machine.image[i].load}

(* Unless AllocatePages has been refused, whatever the firmware and the    *)
(* later allocations do, the loader holds all the memory of the segments   *)
(* it has been through, their .bss and their last page included: only so   *)
(* does the map the kernel gets not offer it its own pages.                *)
LoaderHoldsKernel ==
  "AllocatePages" \notin failed =>
    \A i \in LoadedHeaders :
      LET header == machine.image[i]
      IN  \A address \in header.address .. header.address + header.size - 1 :
            owner[address \div PageSize] = "loader"

(* When the loop is over and no call of it has failed the file bytes of    *)
(* all loadable segments, and nothing else of the file, are in memory.     *)
SegmentsInPlace ==
  at \in Steps \ {"kernel file", "header", "program headers", "segments",
                  "load error", "undefined"} /\ failed = {} =>
    /\ \A i \in DOMAIN machine.image : machine.image[i].load =>
         \A offset \in 0 .. machine.image[i].bytes - 1 :
           bytes[machine.image[i].address + offset] = [segment |-> i, offset |-> offset]
    /\ \A address \in Address :
         bytes[address] # OldByte => machine.image[bytes[address].segment].load

(* A kernel that starts without boot services, with a memory map that was  *)
(* filled, starts with the map of the machine as it is: the key saw every  *)
(* allocation in between, those of printing included.  (A kernel that      *)
(* starts because the key was stale has the firmware still beside it.)     *)
KernelGetsTrueMap ==
  at = "kernel" /\ ~services /\ Map.buffer = "filled" => Map.shows = Free
=============================================================================
