---------------------------------- MODULE MCPCI ----------------------------------
(* One segment from bus 0, one from bus 1, one of all buses, one of none;   *)
(* an MCFG that is missing, cut short or with half an entry; functions at   *)
(* the corners of a bus and of a device, and on the last bus.  The headers  *)
(* are of classes with and without names, and one of them past the table.   *)
EXTENDS PCI, TLC

H(class, subclass, progIF) ==
  [Class |-> class, Subclass |-> subclass, ProgIF |-> progIF]

First == [BaseAddress |-> 1000, StartBus |-> 0, EndBus |-> 2]
Second == [BaseAddress |-> 3000, StartBus |-> 1, EndBus |-> 2]
Whole == [BaseAddress |-> 1000, StartBus |-> 0, EndBus |-> 255]
Empty == [BaseAddress |-> 1000, StartBus |-> 1, EndBus |-> 1]

(* Page 1000 is bus 0 device 0 function 0 of First, 3256 is bus 1 of       *)
(* Second; 1512 and 3512 are their last buses.                             *)
Corners ==
  1000 :> H(6, 0, 0) @@ 1007 :> H(3, 128, 0) @@ 1008 :> H(1, 6, 1)
    @@ 1010 :> H(3, 0, 0) @@ 1248 :> H(12, 3, 48) @@ 1255 :> H(12, 64, 0)
    @@ 1256 :> H(6, 4, 0) @@ 1512 :> H(6, 4, 0)

Others == 3256 :> H(1, 0, 0) @@ 3263 :> H(64, 0, 0) @@ 3512 :> H(2, 0, 0)
                                     @@ 1000 :> H(6, 0, 0)

Parts(headers1) ==
  {[page \in pages |-> headers1[page]] : pages \in SUBSET DOMAIN headers1}

MCFGTable(length, entries) ==
  [Signature |-> "MCFG", Length |-> length, configs |-> entries]

APIC == [Signature |-> "APIC", Length |-> 44, configs |-> <<>>]

Machine(tables, low, all) ==
  {[xsdt |-> tables, low |-> low, headers |-> some] : some \in Parts(all)}

MCMachines ==
  Machine(<<APIC, MCFGTable(60, <<First>>), MCFGTable(44, <<>>)>>, 0, Corners)
    \cup Machine(<<MCFGTable(76, <<Second, First>>)>>, 0, Others)
    \cup Machine(<<MCFGTable(91, <<Empty, Second, First>>)>>, 0, Others)
    \cup Machine(<<MCFGTable(60, <<Whole>>)>>, 0, Others)
    \cup Machine(<<MCFGTable(0, <<>>)>>, 0, Others)
    \cup Machine(<<APIC>>, 40, Others)
    \cup Machine(<<APIC>>, 4096, Others)
=============================================================================
