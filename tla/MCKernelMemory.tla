---------------------------- MODULE MCKernelMemory ----------------------------
(***************************************************************************)
(* A machine of 4-entry tables (256 virtual pages) and some 25 pages of    *)
(* memory, 15 of which the tables of the identity map take, so that a      *)
(* handful of faults brings the allocator to its end.                      *)
(***************************************************************************)
EXTENDS KernelMemory

MCDescriptor(type, first, n) ==
  [Type |-> type, PhysicalAddress |-> first, NumberOfPages |-> n]

(* 25 pages: the bitmap has bits for 26 and 27 too, and the page table of  *)
(* 24 to 27 exists.                                                        *)
Full == << MCDescriptor(7, 0, 25) >>

(* 24 pages, two of them the firmware's; bits for 25, 26 and 27.           *)
Reserved == << MCDescriptor(7, 0, 22), MCDescriptor(6, 22, 2) >>

(* A hole: pages 40 to 43 are memory without a bit.                        *)
Hole == << MCDescriptor(7, 0, 23), MCDescriptor(7, 40, 4) >>

MCMemoryMaps == {Full, Reserved, Hole}
MCFullMap == {Full}
MCKernelImage == 0 .. 1
MCConfigPages == {128, 144, 192, 208}
MCTouched == {26, 30, 31, 66, 70, 130, 200}
=============================================================================
