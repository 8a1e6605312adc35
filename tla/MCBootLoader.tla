------------------------------ MODULE MCBootLoader ------------------------------
(***************************************************************************)
(* Values for TLC: six pages of two bytes.  The images are that of       *)
(* CorgiOS.elf made small (text at 0, data behind it with a .bss, and the  *)
(* header of the stack, which has no address) and one whose note is not in *)
(* a segment; the tables are those of firmware with both root pointers, in *)
(* either order, and with one or none.                                     *)
(***************************************************************************)
EXTENDS BootLoader

Load(a, s, b) == [load |-> TRUE, address |-> a, size |-> s, bytes |-> b]
Other(a, s) == [load |-> FALSE, address |-> a, size |-> s, bytes |-> s]

MCImages ==
  {<<Load(0, 3, 3), Load(4, 3, 1), Other(0, 0)>>,
   <<Other(6, 1), Load(2, 4, 3)>>}

Tables(guid, table) == [guid |-> guid, table |-> table]
ACPI1 == Tables("acpi1", "rsdp1")
ACPI2 == Tables("acpi2", "rsdp2")
SMBIOS == Tables("other", "other")

MCTableLists ==
  {<<SMBIOS, ACPI1, ACPI2>>, <<SMBIOS, ACPI2, ACPI1>>, <<ACPI2>>, <<SMBIOS>>}

MCOccupied == {{}, {0}, {3, 5}}
=============================================================================
