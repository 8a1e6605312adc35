----------------------------- MODULE MCCorgiAlloc -----------------------------
(***************************************************************************)
(* Small machines for TLC: 4 bits per bitmap byte and 2 bytes per page.    *)
(***************************************************************************)
EXTENDS CorgiAlloc

EfiLoaderData == 2
EfiBootServicesData == 4
EfiMemoryMappedIO == 11

MCDescriptor(type, first, n) ==
  [Type |-> type, PhysicalAddress |-> first, NumberOfPages |-> n]

(* No gap; 9 pages, so bits 10 and 11 stand for no page at all.            *)
Contiguous ==
  << MCDescriptor(EfiConventionalMemory, 0, 3),
     MCDescriptor(EfiLoaderData, 3, 1),
     MCDescriptor(EfiConventionalMemory, 4, 5) >>

(* 7 pages, the bitmap has exactly the bit for page 7 left over.           *)
NoSpareBits ==
  << MCDescriptor(EfiConventionalMemory, 0, 5),
     MCDescriptor(EfiBootServicesData, 5, 1),
     MCDescriptor(EfiConventionalMemory, 6, 1) >>

(* A hole between the descriptors, as below 4 GiB on a PC: pages 10 and    *)
(* above are memory, and the bitmap has no bit for 12.                     *)
Hole ==
  << MCDescriptor(EfiConventionalMemory, 0, 4),
     MCDescriptor(EfiConventionalMemory, 8, 5) >>

(* The descriptors do not have to come in address order.                   *)
Unsorted ==
  << MCDescriptor(EfiConventionalMemory, 5, 2),
     MCDescriptor(EfiMemoryMappedIO, 4, 1),
     MCDescriptor(EfiConventionalMemory, 0, 4) >>

MCMemoryMaps == {Contiguous, NoSpareBits, Hole, Unsorted}
=============================================================================
