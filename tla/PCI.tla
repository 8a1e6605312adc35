---------------------------------- MODULE PCI ----------------------------------
(***************************************************************************)
(* PrepareACPI of CorgiOS (KernelUtils/kernelUtil.cpp): FindTable looks    *)
(* for the MCFG among the tables of the XSDT (ACPI/acpi.cpp), EnumeratePCI *)
(* walks the segments, buses, devices and functions it describes           *)
(* (PCI/pci.cpp), maps each one's page of configuration space, reads the   *)
(* header there and prints the functions that exist                        *)
(* (PCI/pciDescriptors.cpp).  One step is one call.                        *)
(*                                                                         *)
(* Addresses are in pages of 4096 bytes.  Page tables are KernelMemory's,  *)
(* here mapping is taken to work.                                          *)
(***************************************************************************)
EXTENDS Integers, Sequences, FiniteSets

CONSTANTS
  Machines    (* what the firmware and the buses may hold: records of       *)
              (*   xsdt: the tables, each a Signature, the Length of its    *)
              (*     header and the DeviceConfigs (configs) after an MCFG's *)
              (*   low: the number at address 4, where a Length would be    *)
              (*   headers: functions of page numbers, of the pages whose   *)
              (*     DeviceID is neither 0 nor 0xffff                       *)

Byte == 0 .. 255

DeviceConfig == [BaseAddress : Nat, StartBus : Byte, EndBus : Byte]
Header == [Class : Byte, Subclass : Byte, ProgIF : Byte]

(* The number of entries of a table of this length.                        *)
SizeOfMCFGHeader == 44
SizeOfDeviceConfig == 16

(* (Length - header) / size is computed in 64 bits without a sign and kept *)
(* in a signed int.  The sizes are powers of two, so a Length shorter than *)
(* the header gives a negative number all the same, rounded down.          *)
Count(length, header, size) == (length - header) \div size

Table == [Signature : STRING, Length : Nat, configs : Seq(DeviceConfig)]

ASSUME PCIAssumption ==
  \A m \in Machines :
    /\ m.xsdt \in Seq(Table)
    /\ \A i \in DOMAIN m.xsdt :
         Count(m.xsdt[i].Length, SizeOfMCFGHeader, SizeOfDeviceConfig)
           <= Len(m.xsdt[i].configs)
    /\ m.low \in Nat
    /\ \A page \in DOMAIN m.headers :
         page \in Nat /\ m.headers[page] \in Header

VARIABLES
  machine,
  MCFG,      (* which table it is; 0 is nullptr                             *)
  t, Bus, Device, function,    (* the loops' variables                      *)
  loop,      (* the innermost loop that runs, or how it ended               *)
  mapped,    (* pages given to MapMemory                                    *)
  printed    (* a line for each function, in order                          *)

position == <<t, Bus, Device, function>>
vars == <<machine, MCFG, position, loop, mapped, printed>>

-----------------------------------------------------------------------------
(* ACPI *)

(* The first table with the signature, or nullptr.                         *)
FindTable(xsdt, signature) ==
  LET found == {i \in DOMAIN xsdt : xsdt[i].Signature = signature}
  IN  IF found = {} THEN 0 ELSE CHOOSE i \in found : \A j \in found : i <= j

-----------------------------------------------------------------------------
(* The names.  A name is the table it is from and a code; a code nobody    *)
(* has named is printed as a number.  Where a switch has no default the    *)
(* next case's is tried.                                                   *)

Number == "number"

Named(table, codes, code) == IF code \in codes THEN table ELSE Number

ClassesNamed == 20

(* Mutant: the break that is there for mass storage is not.                *)
GetSubclassNameFalling(class, subclass) ==
  IF class \in {1, 3, 6} THEN Named("bridge", (0 .. 10) \cup {128}, subclass)
  ELSE IF class = 12
       THEN Named("serial bus", (0 .. 9) \cup {128}, subclass)
  ELSE Number

GetSubclassName(class, subclass) ==
  IF class = 1 THEN Named("mass storage", (0 .. 8) \cup {128}, subclass)
  ELSE IF class = 3 /\ subclass = 0 THEN "display"
  ELSE IF class \in {3, 6}
       THEN Named("bridge", (0 .. 10) \cup {128}, subclass)
  ELSE IF class = 12
       THEN Named("serial bus", (0 .. 9) \cup {128}, subclass)
  ELSE Number

GetProgIFName(class, subclass, progIF) ==
  IF class = 1 /\ subclass = 6 /\ progIF \in 0 .. 2 THEN "mass storage"
  ELSE IF class \in {1, 3} /\ subclass = 0 /\ progIF \in 0 .. 1 THEN "display"
  ELSE IF class \in {1, 3, 12} /\ subclass = 3
       THEN Named("serial bus", {0, 16, 32, 48, 128, 254}, progIF)
  ELSE Number

-----------------------------------------------------------------------------
(* PCI *)

Entries ==
  Count(IF MCFG = 0 THEN machine.low ELSE machine.xsdt[MCFG].Length,
        SizeOfMCFGHeader, SizeOfDeviceConfig)

Configs == machine.xsdt[MCFG].configs
headers == machine.headers

(* Mutant: a bus is shifted by one bit too many.                           *)
PageOfWideBus(base, bus, device, fn) == base + bus * 512 + device * 8 + fn

(* BaseAddress + (Bus << 20) + (device << 15) + (function << 12).          *)
PageOf(base, bus, device, fn) == base + bus * 256 + device * 8 + fn

Page == PageOf(Configs[t].BaseAddress, Bus, Device, function)

Exists == Page \in DOMAIN headers

Map == mapped' = mapped \cup {Page}

Go(to, next) ==
  /\ loop' = to
  /\ t' = next[1] /\ Bus' = next[2] /\ Device' = next[3] /\ function' = next[4]

Init ==
  /\ machine \in Machines
  /\ MCFG = 0
  /\ t = 1 /\ Bus = 0 /\ Device = 0 /\ function = 0
  /\ loop = "PrepareACPI"
  /\ mapped = {}
  /\ printed = <<>>

PrepareACPI ==
  /\ loop = "PrepareACPI"
  /\ MCFG' = FindTable(machine.xsdt, "MCFG")
  /\ loop' = "segments"
  /\ UNCHANGED <<machine, position, mapped, printed>>

(* Without an MCFG a length is read all the same; whatever entries that    *)
(* makes are of no table.                                                  *)
EnumeratePCI ==
  /\ \/ /\ loop = "segments"
        /\ IF t > Entries THEN Go("done", position)
           ELSE IF MCFG = 0 THEN Go("undefined", position)
           ELSE Go("buses", <<t, Configs[t].StartBus, 0, 0>>)
     \/ /\ loop = "buses"
        /\ Bus >= Configs[t].EndBus
        /\ Go("segments", <<t + 1, 0, 0, 0>>)
  /\ UNCHANGED <<machine, MCFG, mapped, printed>>

(* Mutant: a bus without devices is not left.                              *)
EnumerateBusStuck ==
  /\ \/ /\ loop = "buses"
        /\ Bus < Configs[t].EndBus
        /\ Map
        /\ IF Exists THEN Go("devices", position)
           ELSE Go("buses", position)
     \/ /\ loop = "devices" /\ Device = 32
        /\ Go("buses", <<t, Bus + 1, 0, 0>>)
        /\ UNCHANGED mapped
  /\ UNCHANGED <<machine, MCFG, printed>>

EnumerateBus ==
  /\ \/ /\ loop = "buses"
        /\ Bus < Configs[t].EndBus
        /\ Map
        /\ IF Exists THEN Go("devices", position)
           ELSE Go("buses", <<t, Bus + 1, 0, 0>>)
     \/ /\ loop = "devices" /\ Device = 32
        /\ Go("buses", <<t, Bus + 1, 0, 0>>)
        /\ UNCHANGED mapped
  /\ UNCHANGED <<machine, MCFG, printed>>

EnumerateDevice ==
  /\ \/ /\ loop = "devices" /\ Device < 32
        /\ Map
        /\ IF Exists THEN Go("functions", position)
           ELSE Go("devices", <<t, Bus, Device + 1, 0>>)
     \/ /\ loop = "functions" /\ function = 8
        /\ Go("devices", <<t, Bus, Device + 1, 0>>)
        /\ UNCHANGED mapped
  /\ UNCHANGED <<machine, MCFG, printed>>

(* The name of a class past the table is read from whatever follows it.    *)
Line(header) ==
  [at |-> position, page |-> Page,
   subclass |-> GetSubclassName(header.Class, header.Subclass),
   progIF |-> GetProgIFName(header.Class, header.Subclass, header.ProgIF)]

(* Mutant: a device with one function missing is left.                     *)
EnumerateFunctionStopping ==
  /\ loop = "functions" /\ function < 8
  /\ Map
  /\ IF ~Exists
     THEN Go("devices", <<t, Bus, Device + 1, 0>>) /\ UNCHANGED printed
     ELSE /\ Go("functions", <<t, Bus, Device, function + 1>>)
          /\ printed' = Append(printed, Line(headers[Page]))
  /\ UNCHANGED <<machine, MCFG>>

EnumerateFunction ==
  /\ loop = "functions" /\ function < 8
  /\ Map
  /\ IF ~Exists
     THEN /\ Go("functions", <<t, Bus, Device, function + 1>>)
          /\ UNCHANGED printed
     ELSE /\ Go(IF headers[Page].Class < ClassesNamed THEN "functions"
                ELSE "undefined", <<t, Bus, Device, function + 1>>)
          /\ printed' = Append(printed, Line(headers[Page]))
  /\ UNCHANGED <<machine, MCFG>>

Next ==
  PrepareACPI \/ EnumeratePCI \/ EnumerateBus \/ EnumerateDevice
    \/ EnumerateFunction

Spec == Init /\ [][Next]_vars /\ WF_vars(Next)

-----------------------------------------------------------------------------
(* Correctness *)

(* Where PCI Express puts a function: a megabyte to a bus, 32 devices of 8 *)
(* functions of a page each.                                               *)
ConfigSpace(config) ==
  config.BaseAddress + 256 * config.StartBus
    .. config.BaseAddress + 256 * config.EndBus - 1

FunctionAt(s, page) ==
  LET offset == page - Configs[s].BaseAddress
  IN  <<s, offset \div 256, (offset \div 8) % 32, offset % 8>>

Answers(page) == page \in DOMAIN headers

(* The functions that exist on the buses below a segment's last, of buses  *)
(* whose first device and devices whose first function exist.              *)
Reachable ==
  UNION {{FunctionAt(s, page) : page \in
            {p \in DOMAIN headers \cap ConfigSpace(Configs[s]) :
               LET at == FunctionAt(s, p)
               IN  Answers(p - at[4])
                     /\ Answers(Configs[s].BaseAddress + 256 * at[2])}}
           : s \in IF MCFG = 0 THEN {} ELSE 1 .. Entries}

Key(at) == ((at[1] * 257 + at[2]) * 33 + at[3]) * 9 + at[4]

(* Wherever the loops are, the functions printed are the ones that can be  *)
(* reached and come before, each once, in order and from its own page of   *)
(* configuration space (pci.cpp:53, :37).                                  *)
PrintedSoFar ==
  /\ {printed[i].at : i \in DOMAIN printed}
       = {at \in Reachable : Key(at) < Key(position)}
  /\ \A i, j \in DOMAIN printed :
       i < j => Key(printed[i].at) < Key(printed[j].at)
  /\ \A i \in DOMAIN printed :
       FunctionAt(printed[i].at[1], printed[i].page) = printed[i].at

(* Nothing but the configuration space of the buses below a segment's last *)
(* is mapped (pci.cpp:8, :30, :46): the identity mapping of other pages is *)
(* PrepareMemory's.                                                        *)
OnlyConfigSpaceMapped ==
  \A page \in mapped : \E s \in DOMAIN Configs : page \in ConfigSpace(Configs[s])

(* A name in words is of the class the function has.  In three places one  *)
(* case of a switch runs into a later one (pciDescriptors.cpp:257, :279,   *)
(* :290): there it is a name of the first case that has the code, and of   *)
(* none beyond.                                                            *)
TableOf(class) ==
  CASE class = 1 -> "mass storage" [] class = 3 -> "display"
    [] class = 6 -> "bridge" [] class = 12 -> "serial bus" [] OTHER -> Number

SubclassTableOf(class, subclass) ==
  IF class = 3 /\ subclass # 0 THEN "bridge" ELSE TableOf(class)

ProgIFTableOf(class, subclass) ==
  IF class = 1 /\ subclass = 0 THEN "display"
  ELSE IF class \in {1, 3} /\ subclass = 3 THEN "serial bus"
  ELSE TableOf(class)

NamesFit ==
  \A i \in DOMAIN printed :
    LET header == headers[printed[i].page]
    IN  /\ printed[i].subclass
             \in {Number, SubclassTableOf(header.Class, header.Subclass)}
        /\ printed[i].progIF
             \in {Number, ProgIFTableOf(header.Class, header.Subclass)}

(* Enumeration comes to its end when there is an MCFG, or nothing where    *)
(* its length would be (kernelUtil.cpp:107), and every class there is has  *)
(* a name; a length shorter than the header ends it at once.  On any other *)
(* machine it ends too, or comes to a read of what is no table.            *)
Regular ==
  /\ FindTable(machine.xsdt, "MCFG") # 0 \/ machine.low < 60
  /\ \A page \in DOMAIN headers : headers[page].Class < ClassesNamed

EnumerationEnds == <>(loop = "done" \/ (~Regular /\ loop = "undefined"))
=============================================================================
