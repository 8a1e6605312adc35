------------------------------- MODULE PCIProofs -------------------------------
(***************************************************************************)
(* Proofs about PCI enumeration: where the loops are, what they map, what  *)
(* they have printed and from which tables, for every set of machines.     *)
(***************************************************************************)
EXTENDS PCI, WellFoundedInduction, TLAPS

Address(s, b, d, f) == PageOf(Configs[s].BaseAddress, b, d, f)

(* Where the loops are.  A bus is only entered when its first page answers,*)
(* a device when its first function does.                                  *)
Inside ==
  /\ MCFG \in DOMAIN machine.xsdt
  /\ t \in 1 .. Entries
  /\ Configs[t].StartBus <= Bus

Place ==
  CASE loop = "PrepareACPI" ->
         position = <<1, 0, 0, 0>> /\ MCFG = 0 /\ mapped = {} /\ printed = <<>>
    [] loop = "segments" -> Bus = 0 /\ Device = 0 /\ function = 0
    [] loop = "buses" -> Inside /\ Device = 0 /\ function = 0
    [] loop = "devices" ->
         /\ Inside /\ Bus < Configs[t].EndBus /\ function = 0
         /\ Answers(Address(t, Bus, 0, 0))
    [] loop = "functions" ->
         /\ Inside /\ Bus < Configs[t].EndBus /\ Device < 32
         /\ Answers(Address(t, Bus, 0, 0)) /\ Answers(Address(t, Bus, Device, 0))
    [] OTHER -> loop \in {"done", "undefined"}

Names == {"mass storage", "display", "bridge", "serial bus", Number}

Lines == [at : Nat \X Nat \X Nat \X Nat, page : Nat, subclass : Names, progIF : Names]

Types ==
  /\ machine \in Machines
  /\ MCFG \in {0} \cup DOMAIN machine.xsdt
  /\ t \in Nat \ {0} /\ Bus \in 0 .. 255 /\ Device \in 0 .. 32 /\ function \in 0 .. 8
  /\ printed \in Seq(Lines)

PCIInv == Types /\ Place /\ OnlyConfigSpaceMapped /\ PrintedSoFar /\ NamesFit

-----------------------------------------------------------------------------
(* Tables and pages *)

LEMMA Segments ==
  ASSUME Types, MCFG # 0
  PROVE  /\ Entries \in Int
         /\ \A s \in 1 .. Entries :
              /\ s \in DOMAIN Configs
              /\ Configs[s] \in DeviceConfig
              /\ Configs[s].BaseAddress \in Nat
              /\ Configs[s].StartBus \in 0 .. 255
              /\ Configs[s].EndBus \in 0 .. 255
<1>1. machine.xsdt \in Seq(Table) /\ MCFG \in DOMAIN machine.xsdt
  BY PCIAssumption DEF Types
<1>2. machine.xsdt[MCFG] \in Table
  BY <1>1
<1>3. Configs \in Seq(DeviceConfig) /\ machine.xsdt[MCFG].Length \in Nat
  BY <1>2 DEF Table, Configs
<1>4. Entries = (machine.xsdt[MCFG].Length - 44) \div 16
  BY DEF Entries, Count, SizeOfMCFGHeader, SizeOfDeviceConfig
<1>5. Entries \in Int
  BY <1>3, <1>4
<1>6. Entries <= Len(Configs)
  BY <1>1, PCIAssumption DEF Entries, Configs, Types
<1>7. \A s \in 1 .. Entries : s \in DOMAIN Configs /\ Configs[s] \in DeviceConfig
  BY <1>3, <1>5, <1>6
<1> QED BY <1>5, <1>7 DEF DeviceConfig, Byte

(* A page is that of one function of a segment.                            *)
LEMMA FunctionOf ==
  ASSUME NEW s, Configs[s].BaseAddress \in Nat,
         NEW b \in 0 .. 255, NEW d \in 0 .. 31, NEW f \in 0 .. 7
  PROVE  FunctionAt(s, Address(s, b, d, f)) = <<s, b, d, f>>
<1> DEFINE offset == b * 256 + d * 8 + f
<1>0. /\ b \in Int /\ d \in Int /\ f \in Int /\ 0 <= d /\ d < 32 /\ 0 <= f /\ f < 8
      /\ b * 256 + d * 8 + f \in Int
  OBVIOUS
<1>1. offset \div 256 = b
  <2> DEFINE q == offset \div 256
             x == offset % 256
  <2> HIDE DEF offset
  <2>1. offset \in Int
    BY <1>0 DEF offset
  <2>2. q \in Int /\ x \in Int /\ 0 <= x /\ x < 256 /\ offset = 256 * q + x
    BY <2>1
  <2> HIDE DEF q, x
  <2>3. 256 * q + x = 256 * b + (d * 8 + f)
    BY <1>0, <2>2 DEF offset
  <2>4. q = b
    BY <1>0, <2>2, <2>3
  <2> QED BY <2>4 DEF q
<1>2. (b * 256 + d * 8 + f) \div 8 = b * 32 + d
  BY <1>0, SMTT(30)
<1>3. (b * 32 + d) % 32 = d
  BY <1>0, SMTT(30)
<1>4. offset % 8 = f
  BY <1>0, SMTT(30)
<1>5. (offset \div 8) % 32 = d
  BY <1>2, <1>3
<1>6. Address(s, b, d, f) - Configs[s].BaseAddress = offset
  BY DEF Address, PageOf
<1> HIDE DEF offset
<1> QED BY <1>1, <1>4, <1>5, <1>6 DEF FunctionAt

LEMMA PageCoordinates ==
  ASSUME NEW base \in Nat, NEW first \in 0 .. 255, NEW last \in 0 .. 255,
         NEW page \in base + 256 * first .. base + 256 * last - 1
  PROVE  \E b \in first .. last - 1 : \E d \in 0 .. 31 : \E f \in 0 .. 7 :
           page = PageOf(base, b, d, f)
<1> DEFINE offset == page - base
           b == offset \div 256
           x == offset % 256
           d == x \div 8
           f == x % 8
<1>1. /\ base \in Int /\ page \in Int /\ first \in Int /\ last \in Int
      /\ 256 * first <= offset /\ offset < 256 * last
  OBVIOUS
<1>2. offset \in Int /\ page = base + offset
  BY <1>1
<1> HIDE DEF offset
<1>3. /\ b \in Int /\ x \in Int /\ 0 <= x /\ x < 256
      /\ offset = 256 * b + x
  BY <1>2
<1> HIDE DEF b, x
<1>4. /\ d \in Int /\ f \in Int /\ 0 <= f /\ f < 8
      /\ x = 8 * d + f
  BY <1>3
<1> HIDE DEF d, f
<1>5. b \in first .. last - 1 /\ d \in 0 .. 31 /\ f \in 0 .. 7
  BY <1>1, <1>3, <1>4
<1>6. page = base + b * 256 + d * 8 + f
  BY <1>2, <1>3, <1>4
<1> QED BY <1>5, <1>6 DEF PageOf

LEMMA InConfigSpace ==
  ASSUME NEW s, Configs[s].BaseAddress \in Nat,
         Configs[s].StartBus \in 0 .. 255, Configs[s].EndBus \in 0 .. 255,
         NEW b \in Configs[s].StartBus .. Configs[s].EndBus - 1,
         NEW d \in 0 .. 31, NEW f \in 0 .. 7
  PROVE  Address(s, b, d, f) \in ConfigSpace(Configs[s])
<1> DEFINE base == Configs[s].BaseAddress
           first == Configs[s].StartBus
           last == Configs[s].EndBus
<1>1. /\ base \in Int /\ first \in Int /\ last \in Int
      /\ b \in Int /\ first <= b /\ b <= last - 1
      /\ d \in Int /\ 0 <= d /\ d <= 31 /\ f \in Int /\ 0 <= f /\ f <= 7
  OBVIOUS
<1>2. Address(s, b, d, f) = base + b * 256 + d * 8 + f
  BY DEF Address, PageOf
<1>3. ConfigSpace(Configs[s]) = base + 256 * first .. base + 256 * last - 1
  BY DEF ConfigSpace
<1> HIDE DEF base, first, last
<1>4. /\ base + b * 256 + d * 8 + f \in Int
      /\ base + 256 * first <= base + b * 256 + d * 8 + f
      /\ base + b * 256 + d * 8 + f <= base + 256 * last - 1
  BY <1>1
<1>5. base + 256 * first \in Int /\ base + 256 * last - 1 \in Int
  BY <1>1
<1> QED BY <1>2, <1>3, <1>4, <1>5

(* The functions of Reachable by their coordinates.                        *)
IsReachable(s, b, d, f) ==
  /\ MCFG # 0 /\ s \in 1 .. Entries
  /\ b \in Configs[s].StartBus .. Configs[s].EndBus - 1
  /\ d \in 0 .. 31 /\ f \in 0 .. 7
  /\ Answers(Address(s, b, d, f))
  /\ Answers(Address(s, b, d, 0))
  /\ Answers(Address(s, b, 0, 0))

LEMMA ReachableCoordinates ==
  ASSUME Types
  PROVE  /\ \A at \in Reachable : \E s, b, d, f : at = <<s, b, d, f>> /\ IsReachable(s, b, d, f)
         /\ \A s, b, d, f : IsReachable(s, b, d, f) => <<s, b, d, f>> \in Reachable
<1>1. ASSUME NEW at \in Reachable
      PROVE  \E s, b, d, f : at = <<s, b, d, f>> /\ IsReachable(s, b, d, f)
  <2>1. MCFG # 0
    BY <1>1 DEF Reachable
  <2>0. PICK s \in 1 .. Entries :
          \E page \in DOMAIN headers \cap ConfigSpace(Configs[s]) :
            /\ at = FunctionAt(s, page)
            /\ Answers(page - at[4])
            /\ Answers(Configs[s].BaseAddress + 256 * at[2])
    BY <1>1, <2>1 DEF Reachable
  <2>2. PICK page \in DOMAIN headers \cap ConfigSpace(Configs[s]) :
          /\ at = FunctionAt(s, page)
          /\ Answers(page - at[4])
          /\ Answers(Configs[s].BaseAddress + 256 * at[2])
    BY <2>0
  <2>3. /\ Configs[s].BaseAddress \in Nat
        /\ Configs[s].StartBus \in 0 .. 255 /\ Configs[s].EndBus \in 0 .. 255
    BY <2>0, <2>1, Segments
  <2>4. PICK b \in Configs[s].StartBus .. Configs[s].EndBus - 1 :
          \E d \in 0 .. 31 : \E f \in 0 .. 7 : page = Address(s, b, d, f)
    <3>1. page \in Configs[s].BaseAddress + 256 * Configs[s].StartBus
                     .. Configs[s].BaseAddress + 256 * Configs[s].EndBus - 1
      BY <2>2 DEF ConfigSpace
    <3> QED BY <2>3, <3>1, PageCoordinates DEF Address
  <2>5. PICK d \in 0 .. 31, f \in 0 .. 7 : page = Address(s, b, d, f)
    BY <2>4
  <2>6. b \in 0 .. 255
    BY <2>3, <2>4
  <2>7. at = <<s, b, d, f>>
    BY <2>2, <2>3, <2>5, <2>6, FunctionOf
  <2>8. page - at[4] = Address(s, b, d, 0)
    BY <2>3, <2>5, <2>6, <2>7 DEF Address, PageOf
  <2>9. Configs[s].BaseAddress + 256 * at[2] = Address(s, b, 0, 0)
    BY <2>3, <2>6, <2>7 DEF Address, PageOf
  <2>10. Answers(Address(s, b, d, f))
    BY <2>2, <2>5 DEF Answers
  <2> QED BY <2>1, <2>2, <2>7, <2>8, <2>9, <2>10 DEF IsReachable
<1>2. ASSUME NEW s, NEW b, NEW d, NEW f, IsReachable(s, b, d, f)
      PROVE  <<s, b, d, f>> \in Reachable
  <2>1. MCFG # 0 /\ s \in 1 .. Entries
    BY <1>2 DEF IsReachable
  <2>2. /\ Configs[s].BaseAddress \in Nat
        /\ Configs[s].StartBus \in 0 .. 255 /\ Configs[s].EndBus \in 0 .. 255
    BY <2>1, Segments
  <2>3. /\ b \in Configs[s].StartBus .. Configs[s].EndBus - 1
        /\ d \in 0 .. 31 /\ f \in 0 .. 7
    BY <1>2 DEF IsReachable
  <2>4. b \in 0 .. 255
    BY <2>2, <2>3
  <2>5. Address(s, b, d, f) \in ConfigSpace(Configs[s])
    BY <2>2, <2>3, InConfigSpace
  <2>6. FunctionAt(s, Address(s, b, d, f)) = <<s, b, d, f>>
    BY <2>2, <2>3, <2>4, FunctionOf
  <2>7. Address(s, b, d, f) - f = Address(s, b, d, 0)
    BY <2>2, <2>3, <2>4 DEF Address, PageOf
  <2>8. Configs[s].BaseAddress + 256 * b = Address(s, b, 0, 0)
    BY <2>2, <2>4 DEF Address, PageOf
  <2>9. /\ Address(s, b, d, f) \in DOMAIN headers
        /\ Answers(Address(s, b, d, f) - f)
        /\ Answers(Configs[s].BaseAddress + 256 * b)
    BY <1>2, <2>7, <2>8 DEF IsReachable, Answers
  <2> QED BY <2>1, <2>5, <2>6, <2>9 DEF Reachable
<1> QED BY <1>1, <1>2

(* Keys order functions by segment, bus, device and function.              *)
Before(s, b, d, f, s2, b2, d2, f2) ==
  \/ s < s2
  \/ s = s2 /\ b < b2
  \/ s = s2 /\ b = b2 /\ d < d2
  \/ s = s2 /\ b = b2 /\ d = d2 /\ f < f2

LEMMA KeyOrder ==
  ASSUME NEW s \in Nat, NEW b \in 0 .. 255, NEW d \in 0 .. 32, NEW f \in 0 .. 8,
         NEW s2 \in Nat, NEW b2 \in 0 .. 255, NEW d2 \in 0 .. 32, NEW f2 \in 0 .. 8
  PROVE  Key(<<s, b, d, f>>) < Key(<<s2, b2, d2, f2>>)
           <=> Before(s, b, d, f, s2, b2, d2, f2)
<1>1. /\ Key(<<s, b, d, f>>) = ((s * 257 + b) * 33 + d) * 9 + f
      /\ Key(<<s2, b2, d2, f2>>) = ((s2 * 257 + b2) * 33 + d2) * 9 + f2
  BY DEF Key
<1>2. /\ s \in Int /\ b \in Int /\ 0 <= b /\ b <= 255 /\ d \in Int /\ 0 <= d /\ d <= 32
      /\ f \in Int /\ 0 <= f /\ f <= 8
      /\ s2 \in Int /\ b2 \in Int /\ 0 <= b2 /\ b2 <= 255 /\ d2 \in Int /\ 0 <= d2 /\ d2 <= 32
      /\ f2 \in Int /\ 0 <= f2 /\ f2 <= 8
  OBVIOUS
<1>3. ((s * 257 + b) * 33 + d) * 9 + f < ((s2 * 257 + b2) * 33 + d2) * 9 + f2
        <=> Before(s, b, d, f, s2, b2, d2, f2)
  BY <1>2 DEF Before
<1> QED BY <1>1, <1>3

LEMMA ReachableTypes ==
  ASSUME Types, NEW s, NEW b, NEW d, NEW f, IsReachable(s, b, d, f)
  PROVE  /\ s \in Nat /\ s # 0 /\ b \in 0 .. 255 /\ d \in 0 .. 31 /\ f \in 0 .. 7
         /\ Configs[s].StartBus <= b /\ b < Configs[s].EndBus
<1>1. MCFG # 0 /\ s \in 1 .. Entries
  BY DEF IsReachable
<1>2. /\ Entries \in Int
      /\ Configs[s].StartBus \in 0 .. 255 /\ Configs[s].EndBus \in 0 .. 255
  BY <1>1, Segments
<1>3. b \in Configs[s].StartBus .. Configs[s].EndBus - 1 /\ d \in 0 .. 31 /\ f \in 0 .. 7
  BY DEF IsReachable
<1> QED BY <1>1, <1>2, <1>3

-----------------------------------------------------------------------------
(* What is printed *)

(* The loops move over no function that can be reached.                    *)
LEMMA Skipping ==
  ASSUME Types, t' \in Nat, Bus' \in 0 .. 255, Device' \in 0 .. 32, function' \in 0 .. 8,
         PrintedSoFar, UNCHANGED <<machine, MCFG, printed>>,
         ASSUME NEW s, NEW b, NEW d, NEW f, IsReachable(s, b, d, f)
         PROVE  Before(s, b, d, f, t, Bus, Device, function)
                  <=> Before(s, b, d, f, t', Bus', Device', function')
  PROVE  PrintedSoFar'
<1>1. /\ headers' = headers /\ Configs' = Configs /\ Entries' = Entries
  BY DEF headers, Configs, Entries
<1>2. Reachable' = Reachable
  BY <1>1 DEF Reachable, FunctionAt, Answers
<1>3. ASSUME NEW at \in Reachable
      PROVE  Key(at) < Key(position) <=> Key(at) < Key(position')
  <2>1. PICK s, b, d, f : at = <<s, b, d, f>> /\ IsReachable(s, b, d, f)
    BY <1>3, ReachableCoordinates
  <2>2. s \in Nat /\ b \in 0 .. 255 /\ d \in 0 .. 32 /\ f \in 0 .. 8
    BY <2>1, ReachableTypes
  <2>3. Key(at) < Key(position) <=> Before(s, b, d, f, t, Bus, Device, function)
    BY <2>1, <2>2, KeyOrder DEF Types, position
  <2>4. Key(at) < Key(position') <=> Before(s, b, d, f, t', Bus', Device', function')
    BY <2>1, <2>2, KeyOrder DEF position
  <2> QED BY <2>1, <2>3, <2>4
<1>4. {at \in Reachable : Key(at) < Key(position')} = {at \in Reachable : Key(at) < Key(position)}
  BY <1>3
<1>5. ({printed[i].at : i \in DOMAIN printed} = {at \in Reachable : Key(at) < Key(position)})'
  BY <1>2, <1>4 DEF PrintedSoFar
<1>6. (\A i, j \in DOMAIN printed : i < j => Key(printed[i].at) < Key(printed[j].at))'
  BY DEF PrintedSoFar
<1>7. (\A i \in DOMAIN printed :
         FunctionAt(printed[i].at[1], printed[i].page) = printed[i].at)'
  BY <1>1 DEF PrintedSoFar, FunctionAt
<1> QED BY <1>5, <1>6, <1>7 DEF PrintedSoFar

(* A name in words is of the class's table, but where a case runs on.      *)
LEMMA NameOfHeader ==
  ASSUME NEW header
  PROVE  LET subclass == GetSubclassName(header.Class, header.Subclass)
             progIF == GetProgIFName(header.Class, header.Subclass, header.ProgIF)
         IN  /\ subclass \in Names /\ progIF \in Names
             /\ subclass
                  \in {Number, SubclassTableOf(header.Class, header.Subclass)}
             /\ progIF
                  \in {Number, ProgIFTableOf(header.Class, header.Subclass)}
<1> DEFINE class == header.Class
           sub == header.Subclass
           subclass == GetSubclassName(class, sub)
           progIF == GetProgIFName(class, sub, header.ProgIF)
<1>0. \A table, codes, code : Named(table, codes, code) \in {table, Number}
  BY DEF Named
<1> HIDE DEF class, sub
<1>1. /\ subclass \in Names /\ progIF \in Names
  BY <1>0 DEF GetSubclassName, GetProgIFName, Names
<1>2. subclass \in {Number, SubclassTableOf(class, sub)}
  <2>1. CASE class = 1
    <3>1. SubclassTableOf(class, sub) = "mass storage"
      BY <2>1 DEF SubclassTableOf, TableOf
    <3>2. subclass = Named("mass storage", (0 .. 8) \cup {128}, sub)
      BY <2>1 DEF GetSubclassName
    <3> QED BY <1>0, <3>1, <3>2
  <2>2. CASE class = 3 /\ sub = 0
    BY <2>2 DEF GetSubclassName, SubclassTableOf, TableOf
  <2>3. CASE class = 3 /\ sub # 0
    <3>1. SubclassTableOf(class, sub) = "bridge"
      BY <2>3 DEF SubclassTableOf, TableOf
    <3>2. subclass = Named("bridge", (0 .. 10) \cup {128}, sub)
      BY <2>3 DEF GetSubclassName
    <3> QED BY <1>0, <3>1, <3>2
  <2>4. CASE class = 6
    <3>1. SubclassTableOf(class, sub) = "bridge"
      BY <2>4 DEF SubclassTableOf, TableOf
    <3>2. subclass = Named("bridge", (0 .. 10) \cup {128}, sub)
      BY <2>4 DEF GetSubclassName
    <3> QED BY <1>0, <3>1, <3>2
  <2>5. CASE class = 12
    <3>1. SubclassTableOf(class, sub) = "serial bus"
      BY <2>5 DEF SubclassTableOf, TableOf
    <3>2. subclass = Named("serial bus", (0 .. 9) \cup {128}, sub)
      BY <2>5 DEF GetSubclassName
    <3> QED BY <1>0, <3>1, <3>2
  <2>6. CASE class \notin {1, 3, 6, 12}
    BY <2>6 DEF GetSubclassName
  <2> QED BY <2>1, <2>2, <2>3, <2>4, <2>5, <2>6
<1>3. progIF \in {Number, ProgIFTableOf(class, sub)}
  <2>1. CASE class \in {1, 3, 12} /\ sub = 3
    <3>1. ProgIFTableOf(class, sub) = "serial bus"
      <4>1. CASE class = 12
        BY <2>1, <4>1 DEF ProgIFTableOf, TableOf
      <4>2. CASE class \in {1, 3}
        BY <2>1, <4>2 DEF ProgIFTableOf
      <4> QED BY <2>1, <4>1, <4>2
    <3>2. progIF = Named("serial bus", {0, 16, 32, 48, 128, 254}, header.ProgIF)
      BY <2>1 DEF GetProgIFName
    <3> QED BY <1>0, <3>1, <3>2
  <2>2. CASE class = 1 /\ sub # 3
    <3>1. CASE sub = 0
      BY <2>2, <3>1 DEF GetProgIFName, ProgIFTableOf
    <3>2. CASE sub # 0
      <4>1. ProgIFTableOf(class, sub) = "mass storage"
        BY <2>2, <3>2 DEF ProgIFTableOf, TableOf
      <4>2. progIF \in {"mass storage", Number}
        BY <2>2, <3>2 DEF GetProgIFName
      <4> QED BY <4>1, <4>2
    <3> QED BY <3>1, <3>2
  <2>3. CASE class = 3 /\ sub # 3
    BY <2>3 DEF GetProgIFName, ProgIFTableOf, TableOf
  <2>4. CASE class \notin {1, 3} /\ (class # 12 \/ sub # 3)
    BY <2>4 DEF GetProgIFName
  <2> QED BY <2>1, <2>2, <2>3, <2>4
<1> HIDE DEF subclass, progIF
<1> QED BY <1>1, <1>2, <1>3 DEF class, sub, subclass, progIF

LEMMA Positions ==
  ASSUME Types
  PROVE  /\ t \in Nat /\ t # 0
         /\ Bus \in Int /\ 0 <= Bus /\ Bus <= 255
         /\ Device \in Int /\ 0 <= Device /\ Device <= 32
         /\ function \in Int /\ 0 <= function /\ function <= 8
<1>1. t \in Nat \ {0} /\ Bus \in 0 .. 255 /\ Device \in 0 .. 32 /\ function \in 0 .. 8
  BY Zenon DEF Types
<1> QED BY <1>1

(* Inside the loops the page read is that of the position.                 *)
LEMMA InTheLoops ==
  ASSUME Types, Inside
  PROVE  /\ MCFG # 0 /\ t \in 1 .. Entries /\ t \in DOMAIN Configs
         /\ Configs[t].BaseAddress \in Nat
         /\ Configs[t].StartBus \in 0 .. 255 /\ Configs[t].EndBus \in 0 .. 255
         /\ Configs[t].StartBus <= Bus
         /\ Page = Address(t, Bus, Device, function)
         /\ Page \in Nat
<1>1. MCFG # 0
  <2>1. machine.xsdt \in Seq(Table)
    BY PCIAssumption DEF Types
  <2> QED BY <2>1 DEF Inside
<1>2. t \in 1 .. Entries /\ Configs[t].StartBus <= Bus
  BY DEF Inside
<1>3. /\ t \in DOMAIN Configs /\ Configs[t].BaseAddress \in Nat
      /\ Configs[t].StartBus \in 0 .. 255 /\ Configs[t].EndBus \in 0 .. 255
  BY <1>1, <1>2, Segments
<1>4. Page = Address(t, Bus, Device, function)
  BY DEF Page, Address
<1>5. Page \in Nat
  <2> DEFINE base == Configs[t].BaseAddress
  <2>1. base \in Nat
    BY <1>3
  <2> HIDE DEF base
  <2>2. base + Bus * 256 + Device * 8 + function \in Nat
    BY <2>1, Positions
  <2> QED BY <2>2 DEF Page, PageOf, base
<1> QED BY <1>1, <1>2, <1>3, <1>4, <1>5

LEMMA Mapping ==
  ASSUME Types, Inside, Bus < Configs[t].EndBus, Device < 32, function < 8,
         OnlyConfigSpaceMapped, Map, UNCHANGED <<machine, MCFG>>
  PROVE  OnlyConfigSpaceMapped'
<1>1. Page \in ConfigSpace(Configs[t]) /\ t \in DOMAIN Configs
  <2>1. /\ Bus \in Configs[t].StartBus .. Configs[t].EndBus - 1
        /\ Device \in 0 .. 31 /\ function \in 0 .. 7
    BY InTheLoops, Positions
  <2> QED BY <2>1, InTheLoops, InConfigSpace
<1>2. Configs' = Configs
  BY DEF Configs
<1>3. ASSUME NEW page \in mapped'
      PROVE  \E s \in DOMAIN Configs' : page \in ConfigSpace(Configs'[s])
  BY <1>1, <1>2, <1>3 DEF Map, OnlyConfigSpaceMapped
<1> QED BY <1>3 DEF OnlyConfigSpaceMapped, ConfigSpace

(* A function that is printed is the next of the ones that can be reached. *)

(* Inside a device, and inside its functions.                              *)
LEMMA Intervals ==
  ASSUME Types, Inside, Bus < Configs[t].EndBus, Device < 32, function < 8
  PROVE  /\ t \in Nat /\ Bus \in 0 .. 255 /\ Device \in 0 .. 31 /\ function \in 0 .. 7
         /\ Device \in 0 .. 32 /\ function \in 0 .. 8 /\ function + 1 \in 0 .. 8
         /\ MCFG # 0 /\ t \in 1 .. Entries
         /\ Bus \in Configs[t].StartBus .. Configs[t].EndBus - 1
<1>1. /\ t \in Nat /\ Bus \in 0 .. 255 /\ Device \in 0 .. 31 /\ function \in 0 .. 7
      /\ Device \in 0 .. 32 /\ function \in 0 .. 8 /\ function + 1 \in 0 .. 8
  BY Positions
<1>2. MCFG # 0 /\ t \in 1 .. Entries
  BY InTheLoops
<1>3. Bus \in Configs[t].StartBus .. Configs[t].EndBus - 1
  BY InTheLoops, Positions
<1> QED BY <1>1, <1>2, <1>3

LEMMA Printing ==
  ASSUME Types, PrintedSoFar, NamesFit, Inside,
         Bus < Configs[t].EndBus, Device < 32, function < 8,
         Answers(Address(t, Bus, 0, 0)), Answers(Address(t, Bus, Device, 0)), Exists,
         UNCHANGED <<machine, MCFG, t, Bus, Device>>, function' = function + 1,
         printed' = Append(printed, Line(headers[Page]))
  PROVE  /\ printed' \in Seq(Lines)
         /\ PrintedSoFar'
         /\ NamesFit'
<1> DEFINE line == Line(headers[Page])
           last == Len(printed) + 1
<1>1. /\ headers' = headers /\ Configs' = Configs /\ Entries' = Entries
  BY DEF headers, Configs, Entries
<1>2. Reachable' = Reachable
  BY <1>1 DEF Reachable, FunctionAt, Answers
<1>3. /\ line.at = position /\ line.page = Page
      /\ line.subclass = GetSubclassName(headers[Page].Class, headers[Page].Subclass)
      /\ line.progIF = GetProgIFName(headers[Page].Class, headers[Page].Subclass,
                                     headers[Page].ProgIF)
  BY DEF Line
<1>4. printed \in Seq(Lines)
  BY DEF Types
<1>5. line \in Lines
  <2>1. Page \in Nat
    BY InTheLoops
  <2>2. position \in Nat \X Nat \X Nat \X Nat
    BY Positions DEF position
  <2>3. line.subclass \in Names /\ line.progIF \in Names
    BY <1>3, NameOfHeader
  <2> QED BY <1>3, <2>1, <2>2, <2>3 DEF Line, Lines
<1> HIDE DEF line
<1>6. /\ printed' \in Seq(Lines)
      /\ DOMAIN printed' = DOMAIN printed \cup {last}
      /\ \A i \in DOMAIN printed : i < last /\ printed'[i] = printed[i]
      /\ last \notin DOMAIN printed /\ last \in Nat
      /\ printed'[last] = line
  BY <1>4, <1>5 DEF line
<1> HIDE DEF last
<1>7. position \in Reachable
  <2>1. /\ MCFG # 0 /\ t \in 1 .. Entries
        /\ Bus \in Configs[t].StartBus .. Configs[t].EndBus - 1
        /\ Device \in 0 .. 31 /\ function \in 0 .. 7
    BY Intervals
  <2>2. Answers(Address(t, Bus, Device, function))
    BY InTheLoops DEF Exists, Answers
  <2>3. IsReachable(t, Bus, Device, function)
    BY <2>1, <2>2 DEF IsReachable
  <2> QED BY <2>3, ReachableCoordinates DEF position
<1>8. ASSUME NEW at \in Reachable
      PROVE  Key(at) < Key(position') <=> Key(at) < Key(position) \/ at = position
  <2>1. PICK s, b, d, f : at = <<s, b, d, f>> /\ IsReachable(s, b, d, f)
    BY <1>8, ReachableCoordinates
  <2>2. s \in Nat /\ b \in 0 .. 255 /\ d \in 0 .. 32 /\ f \in 0 .. 8
    BY <2>1, ReachableTypes
  <2>3. /\ t \in Nat /\ Bus \in 0 .. 255 /\ Device \in 0 .. 32 /\ function \in 0 .. 8
        /\ function + 1 \in 0 .. 8
    BY Intervals
  <2>4. Key(at) < Key(position) <=> Before(s, b, d, f, t, Bus, Device, function)
    BY <2>1, <2>2, <2>3, KeyOrder DEF position
  <2>5. Key(at) < Key(position') <=> Before(s, b, d, f, t, Bus, Device, function + 1)
    BY <2>1, <2>2, <2>3, KeyOrder DEF position
  <2>6. at = position <=> s = t /\ b = Bus /\ d = Device /\ f = function
    BY <2>1 DEF position
  <2>7. Before(s, b, d, f, t, Bus, Device, function + 1)
          <=> \/ Before(s, b, d, f, t, Bus, Device, function)
              \/ s = t /\ b = Bus /\ d = Device /\ f = function
    BY <2>2, <2>3 DEF Before
  <2> QED BY <2>4, <2>5, <2>6, <2>7
<1>9. {printed'[i].at : i \in DOMAIN printed'} = {at \in Reachable' : Key(at) < Key(position')}
  <2>1. {printed'[i].at : i \in DOMAIN printed'}
          = {printed[i].at : i \in DOMAIN printed} \cup {position}
    BY <1>3, <1>6
  <2>2. {printed[i].at : i \in DOMAIN printed} = {at \in Reachable : Key(at) < Key(position)}
    BY DEF PrintedSoFar
  <2> QED BY <1>2, <1>7, <1>8, <2>1, <2>2
<1>10. ASSUME NEW i \in DOMAIN printed', NEW j \in DOMAIN printed', i < j
       PROVE  Key(printed'[i].at) < Key(printed'[j].at)
  <2>1. CASE j \in DOMAIN printed
    <3>1. i \in DOMAIN printed
      BY <1>4, <1>6, <1>10, <2>1
    <3> QED BY <1>6, <1>10, <2>1, <3>1 DEF PrintedSoFar
  <2>2. CASE j = last
    <3>1. i \in DOMAIN printed
      BY <1>6, <1>10, <2>2
    <3>2. Key(printed[i].at) < Key(position)
      BY <3>1 DEF PrintedSoFar
    <3> QED BY <1>3, <1>6, <2>2, <3>1, <3>2
  <2> QED BY <1>6, <1>10, <2>1, <2>2
<1>11. ASSUME NEW i \in DOMAIN printed'
       PROVE  FunctionAt(printed'[i].at[1], printed'[i].page) = printed'[i].at
  <2>1. FunctionAt(t, Page) = position
    <3>1. Bus \in 0 .. 255 /\ Device \in 0 .. 31 /\ function \in 0 .. 7
      BY Intervals
    <3> QED BY <3>1, InTheLoops, FunctionOf DEF position
  <2>2. position[1] = t
    BY DEF position
  <2> QED BY <1>3, <1>6, <1>11, <2>1, <2>2 DEF PrintedSoFar
<1>12. PrintedSoFar'
  <2>1. ASSUME NEW i \in DOMAIN printed'
        PROVE  (FunctionAt(printed[i].at[1], printed[i].page))'
                  = FunctionAt(printed'[i].at[1], printed'[i].page)
    BY <1>1 DEF FunctionAt
  <2>2. ASSUME NEW i \in DOMAIN printed'
        PROVE  (FunctionAt(printed[i].at[1], printed[i].page))' = printed'[i].at
    BY <1>11, <2>1, <2>2
  <2>3. ({printed[i].at : i \in DOMAIN printed} = {at \in Reachable : Key(at) < Key(position)})'
    BY <1>9
  <2>4. (\A i, j \in DOMAIN printed : i < j => Key(printed[i].at) < Key(printed[j].at))'
    BY <1>10
  <2> QED BY <2>2, <2>3, <2>4 DEF PrintedSoFar
<1>13. NamesFit'
  <2>1. ASSUME NEW i \in DOMAIN printed'
        PROVE  LET header == headers[printed'[i].page]
               IN  /\ printed'[i].subclass
                        \in {Number, SubclassTableOf(header.Class, header.Subclass)}
                   /\ printed'[i].progIF
                        \in {Number, ProgIFTableOf(header.Class, header.Subclass)}
    <3>1. CASE i \in DOMAIN printed
      BY <1>6, <3>1 DEF NamesFit
    <3>2. CASE i = last
      BY <1>3, <1>6, <3>2, NameOfHeader
    <3> QED BY <1>6, <2>1, <3>1, <3>2
  <2> QED BY <1>1, <2>1 DEF NamesFit
<1> QED BY <1>6, <1>12, <1>13

-----------------------------------------------------------------------------
(* The invariant *)

(* The first of the tables with a signature is one of them.                *)
LEMMA TableFound ==
  ASSUME Types, NEW signature
  PROVE  FindTable(machine.xsdt, signature) \in {0} \cup DOMAIN machine.xsdt
<1> DEFINE found == {i \in DOMAIN machine.xsdt : machine.xsdt[i].Signature = signature}
           less == {ss \in Nat \X Nat : ss[1] < ss[2]}
<1>1. found \subseteq Nat
  <2>1. machine.xsdt \in Seq(Table)
    BY PCIAssumption DEF Types
  <2> QED BY <2>1
<1>2. found \subseteq DOMAIN machine.xsdt
  OBVIOUS
<1>3. FindTable(machine.xsdt, signature)
        = IF found = {} THEN 0 ELSE CHOOSE i \in found : \A j \in found : i <= j
  BY DEF FindTable
<1> HIDE DEF found
<1>4. ASSUME found # {} PROVE \E i \in found : \A j \in found : i <= j
  <2>1. IsWellFoundedOn(less, Nat)
    BY NatLessThanWellFounded DEF OpToRel
  <2>2. PICK i \in found : \A j \in found : ~ (<<j, i>> \in less)
    <3> HIDE DEF less
    <3> QED BY <1>1, <1>4, <2>1, WFMin
  <2>3. ASSUME NEW j \in found PROVE i <= j
    <3>1. i \in Nat /\ j \in Nat
      BY <1>1
    <3>2. ~ (j < i)
      BY <2>2, <3>1
    <3> HIDE DEF less
    <3> QED BY <3>1, <3>2
  <2> QED BY <2>3
<1> QED BY <1>2, <1>3, <1>4

(* No function can be reached, or is printed, before the MCFG is found.    *)
LEMMA NothingPrintedYet ==
  Types /\ position = <<1, 0, 0, 0>> /\ printed = <<>> => PrintedSoFar /\ NamesFit
<1> SUFFICES ASSUME Types, position = <<1, 0, 0, 0>>, printed = <<>>
             PROVE  PrintedSoFar /\ NamesFit
  OBVIOUS
<1>1. DOMAIN printed = {}
  OBVIOUS
<1>2. ASSUME NEW at \in Reachable
      PROVE  ~ (Key(at) < Key(position))
  <2>1. PICK s, b, d, f : at = <<s, b, d, f>> /\ IsReachable(s, b, d, f)
    BY <1>2, ReachableCoordinates
  <2>2. s \in Nat /\ s # 0 /\ b \in 0 .. 255 /\ d \in 0 .. 31 /\ f \in 0 .. 7
    BY <2>1, ReachableTypes
  <2>3. /\ d \in 0 .. 32 /\ f \in 0 .. 8
        /\ 1 \in Nat /\ 0 \in 0 .. 255 /\ 0 \in 0 .. 32 /\ 0 \in 0 .. 8
    BY <2>2
  <2>4. Key(<<s, b, d, f>>) < Key(<<1, 0, 0, 0>>) <=> Before(s, b, d, f, 1, 0, 0, 0)
    BY <2>2, <2>3, KeyOrder
  <2>5. ~ Before(s, b, d, f, 1, 0, 0, 0)
    BY <2>2 DEF Before
  <2> QED BY <2>1, <2>4, <2>5
<1>3. PrintedSoFar
  BY <1>1, <1>2 DEF PrintedSoFar
<1>4. NamesFit
  BY <1>1 DEF NamesFit
<1> QED BY <1>3, <1>4

LEMMA InitEstablishes == Init => PCIInv
<1> SUFFICES ASSUME Init PROVE PCIInv
  OBVIOUS
<1>1. Types
  <2>1. printed \in Seq(Lines)
    BY DEF Init
  <2> QED BY <2>1 DEF Init, Types
<1>2. position = <<1, 0, 0, 0>> /\ printed = <<>> /\ mapped = {} /\ loop = "PrepareACPI"
      /\ MCFG = 0
  BY DEF Init, position
<1>3. Place
  BY <1>2 DEF Place
<1>4. OnlyConfigSpaceMapped
  BY <1>2 DEF OnlyConfigSpaceMapped
<1> QED BY <1>1, <1>2, <1>3, <1>4, NothingPrintedYet DEF PCIInv

LEMMA PrepareACPIPreserves ==
  ASSUME PCIInv, PrepareACPI
  PROVE  PCIInv'
<1>1. /\ UNCHANGED <<machine, t, Bus, Device, function, mapped, printed>>
      /\ loop = "PrepareACPI" /\ loop' = "segments"
      /\ MCFG' = FindTable(machine.xsdt, "MCFG")
  BY DEF PrepareACPI, position
<1>2. position = <<1, 0, 0, 0>> /\ mapped = {} /\ printed = <<>>
  BY <1>1 DEF PCIInv, Place
<1>3. MCFG' \in {0} \cup DOMAIN machine'.xsdt
  BY <1>1, TableFound DEF PCIInv
<1>4. Types'
  BY <1>1, <1>3, Zenon DEF PCIInv, Types
<1>5. (position = <<1, 0, 0, 0>> /\ mapped = {} /\ printed = <<>>)'
  BY <1>1, <1>2 DEF position
<1>6. Place'
  BY <1>1, <1>5 DEF Place, position
<1>7. OnlyConfigSpaceMapped'
  BY <1>5 DEF OnlyConfigSpaceMapped
<1>8. (PrintedSoFar /\ NamesFit)'
  BY <1>4, <1>5, NothingPrintedYet, PTL
<1> QED BY <1>4, <1>6, <1>7, <1>8 DEF PCIInv

(* A step that prints nothing.                                             *)
LEMMA Moving ==
  ASSUME PCIInv, UNCHANGED <<machine, MCFG, printed>>,
         t' \in Nat \ {0}, Bus' \in 0 .. 255, Device' \in 0 .. 32, function' \in 0 .. 8,
         Place', OnlyConfigSpaceMapped',
         ASSUME NEW s, NEW b, NEW d, NEW f, IsReachable(s, b, d, f)
         PROVE  Before(s, b, d, f, t, Bus, Device, function)
                  <=> Before(s, b, d, f, t', Bus', Device', function')
  PROVE  PCIInv'
<1>1. Types /\ PrintedSoFar /\ NamesFit
  BY DEF PCIInv
<1>2. Types'
  BY <1>1, Zenon DEF Types
<1>3. PrintedSoFar'
  BY <1>1, Skipping
<1>4. NamesFit'
  BY <1>1 DEF NamesFit, headers
<1> QED BY <1>2, <1>3, <1>4 DEF PCIInv

LEMMA NothingMapped ==
  ASSUME OnlyConfigSpaceMapped, UNCHANGED <<machine, MCFG, mapped>>
  PROVE  OnlyConfigSpaceMapped'
BY DEF OnlyConfigSpaceMapped, Configs, ConfigSpace

(* The loops of a segment go on in the same segment.                       *)
LEMMA InsideStays ==
  ASSUME Inside, UNCHANGED <<machine, MCFG, t>>, Bus' \in Int, Bus <= Bus',
         Bus \in Int, Configs[t].StartBus \in Int
  PROVE  Inside'
<1>1. /\ Configs' = Configs /\ Entries' = Entries
  BY DEF Configs, Entries
<1>2. MCFG \in DOMAIN machine.xsdt /\ t \in 1 .. Entries /\ Configs[t].StartBus <= Bus
  BY DEF Inside
<1>3. Configs[t].StartBus <= Bus'
  BY <1>2
<1> QED BY <1>1, <1>2, <1>3 DEF Inside

LEMMA EnumeratePCIPreserves ==
  ASSUME PCIInv, EnumeratePCI
  PROVE  PCIInv'
<1>1. UNCHANGED <<machine, MCFG, mapped, printed>>
  BY DEF EnumeratePCI
<1>2. Types /\ Place /\ OnlyConfigSpaceMapped'
  BY <1>1, NothingMapped DEF PCIInv
<1>3. /\ Configs' = Configs /\ Entries' = Entries
  BY <1>1 DEF Configs, Entries
<1>4. CASE loop = "segments"
  <2>1. Bus = 0 /\ Device = 0 /\ function = 0 /\ t \in Nat /\ t # 0
    BY <1>2, <1>4, Positions DEF Place
  <2>2. CASE /\ loop' \in {"done", "undefined"}
             /\ t' = t /\ Bus' = Bus /\ Device' = Device /\ function' = function
    <3>1. Place'
      BY <2>2 DEF Place
    <3>2. t' \in Nat \ {0} /\ Bus' \in 0 .. 255 /\ Device' \in 0 .. 32 /\ function' \in 0 .. 8
      BY <2>1, <2>2
    <3>3. ASSUME NEW s, NEW b, NEW d, NEW f, IsReachable(s, b, d, f)
          PROVE  Before(s, b, d, f, t, Bus, Device, function)
                   <=> Before(s, b, d, f, t', Bus', Device', function')
      BY <2>2 DEF Before
    <3> QED BY <1>1, <1>2, <3>1, <3>2, <3>3, Moving
  <2>3. CASE /\ t <= Entries /\ MCFG # 0
             /\ loop' = "buses"
             /\ t' = t /\ Bus' = Configs[t].StartBus /\ Device' = 0 /\ function' = 0
    <3>1. Entries \in Int
      BY <1>2, <2>3, Segments
    <3>2. t \in 1 .. Entries
      BY <2>1, <2>3, <3>1
    <3>3. Configs[t].StartBus \in 0 .. 255
      BY <1>2, <2>3, <3>2, Segments
    <3>4. MCFG \in DOMAIN machine.xsdt
      BY <1>2, <2>3 DEF Types
    <3>5. Inside'
      <4>1. Configs[t].StartBus <= Configs[t].StartBus
        BY <3>3
      <4> QED BY <1>1, <1>3, <2>3, <3>2, <3>4, <4>1 DEF Inside
    <3>6. Place'
      BY <2>3, <3>5 DEF Place
    <3>7. ASSUME NEW s, NEW b, NEW d, NEW f, IsReachable(s, b, d, f)
          PROVE  Before(s, b, d, f, t, Bus, Device, function)
                   <=> Before(s, b, d, f, t', Bus', Device', function')
      <4>1. /\ s \in Nat /\ b \in 0 .. 255 /\ d \in 0 .. 31 /\ f \in 0 .. 7
            /\ Configs[s].StartBus <= b
        BY <1>2, <3>7, ReachableTypes
      <4>2. CASE s = t
        <5> DEFINE first == Configs[t].StartBus
        <5>1. first \in Int /\ first <= b
          BY <3>3, <4>1, <4>2
        <5> HIDE DEF first
        <5>2. ~ Before(s, b, d, f, t, 0, 0, 0) /\ ~ Before(s, b, d, f, t, first, 0, 0)
          BY <4>1, <4>2, <5>1 DEF Before
        <5> QED BY <2>1, <2>3, <5>2 DEF first
      <4>3. CASE s # t
        BY <2>3, <4>3 DEF Before
      <4> QED BY <4>2, <4>3
    <3>8. t' \in Nat \ {0} /\ Bus' \in 0 .. 255 /\ Device' \in 0 .. 32 /\ function' \in 0 .. 8
      BY <2>1, <2>3, <3>3
    <3> QED BY <1>1, <1>2, <3>6, <3>7, <3>8, Moving
  <2>4. \/ /\ loop' \in {"done", "undefined"}
           /\ t' = t /\ Bus' = Bus /\ Device' = Device /\ function' = function
        \/ /\ ~ (t > Entries) /\ MCFG # 0
           /\ loop' = "buses"
           /\ t' = t /\ Bus' = Configs[t].StartBus /\ Device' = 0 /\ function' = 0
    BY <1>4 DEF EnumeratePCI, Go, position
  <2>5. MCFG # 0 => Entries \in Int
    BY <1>2, Segments
  <2>6. MCFG # 0 /\ ~ (t > Entries) => t <= Entries
    BY <2>1, <2>5
  <2> QED BY <2>2, <2>3, <2>4, <2>6
<1>5. CASE loop = "buses"
  <2>1. /\ Bus >= Configs[t].EndBus
        /\ loop' = "segments" /\ t' = t + 1 /\ Bus' = 0 /\ Device' = 0 /\ function' = 0
    BY <1>5 DEF EnumeratePCI, Go
  <2>2. Inside /\ Device = 0 /\ function = 0
    BY <1>2, <1>5 DEF Place
  <2>3. Configs[t].EndBus \in 0 .. 255
    BY <1>2, <2>2, InTheLoops
  <2>4. t \in Nat /\ t # 0 /\ Bus \in Int
    BY <1>2, Positions
  <2>5. Place'
    BY <2>1 DEF Place
  <2>6. ASSUME NEW s, NEW b, NEW d, NEW f, IsReachable(s, b, d, f)
        PROVE  Before(s, b, d, f, t, Bus, Device, function)
                 <=> Before(s, b, d, f, t', Bus', Device', function')
    <3>1. /\ s \in Nat /\ b \in Int /\ 0 <= b /\ d \in Int /\ 0 <= d /\ f \in Int /\ 0 <= f
          /\ b < Configs[s].EndBus
      BY <1>2, <2>6, ReachableTypes
    <3>2. s = t => b < Bus
      BY <2>1, <2>3, <2>4, <3>1
    <3>3. Before(s, b, d, f, t, Bus, 0, 0) <=> Before(s, b, d, f, t + 1, 0, 0, 0)
      BY <2>4, <3>1, <3>2 DEF Before
    <3> QED BY <2>1, <2>2, <3>3
  <2>7. t' \in Nat \ {0} /\ Bus' \in 0 .. 255 /\ Device' \in 0 .. 32 /\ function' \in 0 .. 8
    BY <2>1, <2>4
  <2> QED BY <1>1, <1>2, <2>5, <2>6, <2>7, Moving
<1> QED BY <1>4, <1>5 DEF EnumeratePCI

(* A bus is left: all its functions are before the next bus.               *)
LEMMA BusLeft ==
  ASSUME PCIInv, Inside, Bus < Configs[t].EndBus, UNCHANGED <<machine, MCFG, printed>>,
         OnlyConfigSpaceMapped', function = 0,
         Device = 32 \/ (Device = 0 /\ ~ Answers(Address(t, Bus, 0, 0))),
         Go("buses", <<t, Bus + 1, 0, 0>>)
  PROVE  PCIInv'
<1>1. loop' = "buses" /\ t' = t /\ Bus' = Bus + 1 /\ Device' = 0 /\ function' = 0
  BY DEF Go
<1>2. Types
  BY DEF PCIInv
<1>3. /\ t \in Nat /\ t # 0 /\ Bus \in Int /\ 0 <= Bus /\ Bus <= 254
      /\ Configs[t].StartBus \in Int
  BY <1>2, Positions, InTheLoops
<1>4. Inside'
  BY <1>1, <1>3, InsideStays
<1>5. Place'
  BY <1>1, <1>4 DEF Place
<1>6. ASSUME NEW s, NEW b, NEW d, NEW f, IsReachable(s, b, d, f)
      PROVE  Before(s, b, d, f, t, Bus, Device, function)
               <=> Before(s, b, d, f, t', Bus', Device', function')
  <2>1. /\ s \in Nat /\ b \in Int /\ 0 <= b /\ d \in Int /\ 0 <= d /\ d < 32 /\ f \in Int /\ 0 <= f
    BY <1>2, <1>6, ReachableTypes
  <2>2. Answers(Address(s, b, 0, 0))
    BY <1>6 DEF IsReachable
  <2>3. CASE Device = 32
    <3>1. Before(s, b, d, f, t, Bus, 32, 0) <=> Before(s, b, d, f, t, Bus + 1, 0, 0)
      BY <1>3, <2>1 DEF Before
    <3> QED BY <1>1, <2>3, <3>1
  <2>4. CASE Device = 0 /\ ~ Answers(Address(t, Bus, 0, 0))
    <3>1. ~ (s = t /\ b = Bus)
      BY <2>2, <2>4
    <3>2. Before(s, b, d, f, t, Bus, 0, 0) <=> Before(s, b, d, f, t, Bus + 1, 0, 0)
      BY <1>3, <2>1, <3>1 DEF Before
    <3> QED BY <1>1, <2>4, <3>2
  <2> QED BY <2>3, <2>4
<1>7. t' \in Nat \ {0} /\ Bus' \in 0 .. 255 /\ Device' \in 0 .. 32 /\ function' \in 0 .. 8
  BY <1>1, <1>3
<1> QED BY <1>5, <1>6, <1>7, Moving

(* A device is left: all its functions are before the next device.         *)
LEMMA DeviceLeft ==
  ASSUME PCIInv, Inside, Bus < Configs[t].EndBus, Device < 32,
         UNCHANGED <<machine, MCFG, printed>>, Answers(Address(t, Bus, 0, 0)),
         OnlyConfigSpaceMapped',
         function = 8 \/ (function = 0 /\ ~ Answers(Address(t, Bus, Device, 0))),
         Go("devices", <<t, Bus, Device + 1, 0>>)
  PROVE  PCIInv'
<1>1. loop' = "devices" /\ t' = t /\ Bus' = Bus /\ Device' = Device + 1 /\ function' = 0
  BY DEF Go
<1>2. Types
  BY DEF PCIInv
<1>3. /\ t \in Nat /\ t # 0 /\ Bus \in Int /\ 0 <= Bus /\ Bus <= 255
      /\ Device \in Int /\ 0 <= Device /\ Device < 32
      /\ Configs[t].StartBus \in Int
  BY <1>2, Positions, InTheLoops
<1>4. Inside' /\ Configs' = Configs /\ headers' = headers
  BY <1>1, <1>3, InsideStays DEF Configs, headers
<1>5. Place'
  <2>1. (Bus < Configs[t].EndBus)' /\ Answers(Address(t, Bus, 0, 0))'
    BY <1>1, <1>4 DEF Answers, Address, PageOf
  <2> QED BY <1>1, <1>4, <2>1 DEF Place
<1>6. ASSUME NEW s, NEW b, NEW d, NEW f, IsReachable(s, b, d, f)
      PROVE  Before(s, b, d, f, t, Bus, Device, function)
               <=> Before(s, b, d, f, t', Bus', Device', function')
  <2>1. /\ s \in Nat /\ b \in Int /\ d \in Int /\ f \in Int /\ 0 <= f /\ f < 8
    BY <1>2, <1>6, ReachableTypes
  <2>2. Answers(Address(s, b, d, 0))
    BY <1>6 DEF IsReachable
  <2>3. CASE function = 8
    <3>1. Before(s, b, d, f, t, Bus, Device, 8) <=> Before(s, b, d, f, t, Bus, Device + 1, 0)
      BY <1>3, <2>1 DEF Before
    <3> QED BY <1>1, <2>3, <3>1
  <2>4. CASE function = 0 /\ ~ Answers(Address(t, Bus, Device, 0))
    <3>1. ~ (s = t /\ b = Bus /\ d = Device)
      BY <2>2, <2>4
    <3>2. Before(s, b, d, f, t, Bus, Device, 0) <=> Before(s, b, d, f, t, Bus, Device + 1, 0)
      BY <1>3, <2>1, <3>1 DEF Before
    <3> QED BY <1>1, <2>4, <3>2
  <2> QED BY <2>3, <2>4
<1>7. t' \in Nat \ {0} /\ Bus' \in 0 .. 255 /\ Device' \in 0 .. 32 /\ function' \in 0 .. 8
  BY <1>1, <1>3
<1> QED BY <1>5, <1>6, <1>7, Moving

(* A loop is entered where the one around it is.                           *)
LEMMA Entering ==
  ASSUME PCIInv, UNCHANGED <<machine, MCFG, printed>>, Place', OnlyConfigSpaceMapped',
         t' = t, Bus' = Bus, Device' = Device, function' = function
  PROVE  PCIInv'
<1>1. t' \in Nat \ {0} /\ Bus' \in 0 .. 255 /\ Device' \in 0 .. 32 /\ function' \in 0 .. 8
  BY Positions DEF PCIInv
<1>2. ASSUME NEW s, NEW b, NEW d, NEW f, IsReachable(s, b, d, f)
      PROVE  Before(s, b, d, f, t, Bus, Device, function)
               <=> Before(s, b, d, f, t', Bus', Device', function')
  BY DEF Before
<1> QED BY <1>1, <1>2, Moving

LEMMA EnumerateBusPreserves ==
  ASSUME PCIInv, EnumerateBus
  PROVE  PCIInv'
<1>1. Types /\ Place /\ OnlyConfigSpaceMapped /\ UNCHANGED <<machine, MCFG, printed>>
  BY DEF PCIInv, EnumerateBus
<1>2. CASE loop = "buses"
  <2>1. Inside /\ Device = 0 /\ function = 0
    BY <1>1, <1>2 DEF Place
  <2>2. Bus < Configs[t].EndBus /\ Map
    BY <1>2 DEF EnumerateBus
  <2>3. OnlyConfigSpaceMapped'
    BY <1>1, <2>1, <2>2, Mapping
  <2>4. Exists <=> Answers(Address(t, Bus, 0, 0))
    BY <1>1, <2>1, InTheLoops DEF Exists, Answers
  <2>5. CASE Exists
    <3>1. /\ loop' = "devices"
          /\ t' = t /\ Bus' = Bus /\ Device' = Device /\ function' = function
      BY <1>2, <2>5 DEF EnumerateBus, Go, position
    <3>2. Inside'
      BY <1>1, <2>1, <3>1 DEF Inside, Configs, Entries
    <3>3. (Bus < Configs[t].EndBus)' /\ Answers(Address(t, Bus, 0, 0))'
      BY <1>1, <2>2, <2>4, <2>5, <3>1 DEF Answers, Address, PageOf, Configs, headers
    <3>4. Place'
      BY <2>1, <3>1, <3>2, <3>3 DEF Place
    <3> QED BY <1>1, <2>3, <3>1, <3>4, Entering
  <2>6. CASE ~ Exists
    <3>1. Go("buses", <<t, Bus + 1, 0, 0>>)
      BY <1>2, <2>6 DEF EnumerateBus
    <3> QED BY <1>1, <2>1, <2>2, <2>3, <2>4, <2>6, <3>1, BusLeft
  <2> QED BY <2>5, <2>6
<1>3. CASE loop = "devices"
  <2>1. Device = 32 /\ Go("buses", <<t, Bus + 1, 0, 0>>) /\ UNCHANGED mapped
    BY <1>3 DEF EnumerateBus
  <2>2. Inside /\ Bus < Configs[t].EndBus /\ function = 0
    BY <1>1, <1>3 DEF Place
  <2>3. OnlyConfigSpaceMapped'
    BY <1>1, <2>1, NothingMapped
  <2> QED BY <1>1, <2>1, <2>2, <2>3, BusLeft
<1> QED BY <1>2, <1>3 DEF EnumerateBus

LEMMA EnumerateDevicePreserves ==
  ASSUME PCIInv, EnumerateDevice
  PROVE  PCIInv'
<1>1. Types /\ Place /\ OnlyConfigSpaceMapped /\ UNCHANGED <<machine, MCFG, printed>>
  BY DEF PCIInv, EnumerateDevice
<1>2. CASE loop = "devices"
  <2>1. /\ Inside /\ Bus < Configs[t].EndBus /\ function = 0
        /\ Answers(Address(t, Bus, 0, 0))
    BY <1>1, <1>2 DEF Place
  <2>2. Device < 32 /\ Map
    BY <1>2 DEF EnumerateDevice
  <2>3. OnlyConfigSpaceMapped'
    <3>1. function < 8
      BY <2>1
    <3> QED BY <1>1, <2>1, <2>2, <3>1, Mapping
  <2>4. Exists <=> Answers(Address(t, Bus, Device, 0))
    BY <1>1, <2>1, InTheLoops DEF Exists, Answers
  <2>5. CASE Exists
    <3>1. /\ loop' = "functions"
          /\ t' = t /\ Bus' = Bus /\ Device' = Device /\ function' = function
      BY <1>2, <2>5 DEF EnumerateDevice, Go, position
    <3>2. Inside'
      BY <1>1, <2>1, <3>1 DEF Inside, Configs, Entries
    <3>3. /\ (Bus < Configs[t].EndBus)' /\ Device' < 32
          /\ Answers(Address(t, Bus, 0, 0))' /\ Answers(Address(t, Bus, Device, 0))'
      BY <1>1, <2>1, <2>2, <2>4, <2>5, <3>1 DEF Answers, Address, PageOf, Configs, headers
    <3>4. Place'
      BY <3>1, <3>2, <3>3 DEF Place
    <3> QED BY <1>1, <2>3, <3>1, <3>4, Entering
  <2>6. CASE ~ Exists
    <3>1. Go("devices", <<t, Bus, Device + 1, 0>>)
      BY <1>2, <2>6 DEF EnumerateDevice
    <3> QED BY <1>1, <2>1, <2>2, <2>3, <2>4, <2>6, <3>1, DeviceLeft
  <2> QED BY <2>5, <2>6
<1>3. CASE loop = "functions"
  <2>1. function = 8 /\ Go("devices", <<t, Bus, Device + 1, 0>>) /\ UNCHANGED mapped
    BY <1>3 DEF EnumerateDevice
  <2>2. /\ Inside /\ Bus < Configs[t].EndBus /\ Device < 32
        /\ Answers(Address(t, Bus, 0, 0))
    BY <1>1, <1>3 DEF Place
  <2>3. OnlyConfigSpaceMapped'
    BY <1>1, <2>1, NothingMapped
  <2> QED BY <1>1, <2>1, <2>2, <2>3, DeviceLeft
<1> QED BY <1>2, <1>3 DEF EnumerateDevice

LEMMA EnumerateFunctionPreserves ==
  ASSUME PCIInv, EnumerateFunction
  PROVE  PCIInv'
<1>1. /\ Types /\ Place /\ OnlyConfigSpaceMapped /\ PrintedSoFar /\ NamesFit
      /\ UNCHANGED <<machine, MCFG>> /\ loop = "functions" /\ function < 8 /\ Map
  BY DEF PCIInv, EnumerateFunction
<1>2. /\ Inside /\ Bus < Configs[t].EndBus /\ Device < 32
      /\ Answers(Address(t, Bus, 0, 0)) /\ Answers(Address(t, Bus, Device, 0))
  BY <1>1 DEF Place
<1>3. OnlyConfigSpaceMapped'
  BY <1>1, <1>2, Mapping
<1>4. /\ loop' \in {"functions", "undefined"}
      /\ t' = t /\ Bus' = Bus /\ Device' = Device /\ function' = function + 1
  BY DEF EnumerateFunction, Go
<1>5. Place'
  <2>1. Inside'
    BY <1>1, <1>2, <1>4 DEF Inside, Configs, Entries
  <2>2. /\ (Bus < Configs[t].EndBus)' /\ Device' < 32
        /\ Answers(Address(t, Bus, 0, 0))' /\ Answers(Address(t, Bus, Device, 0))'
    BY <1>1, <1>2, <1>4 DEF Answers, Address, PageOf, Configs, headers
  <2> QED BY <1>4, <2>1, <2>2 DEF Place
<1>6. /\ t' \in Nat \ {0} /\ Bus' \in 0 .. 255 /\ Device' \in 0 .. 32 /\ function' \in 0 .. 8
  BY <1>1, <1>2, <1>4, Positions
<1>7. CASE Exists
  <2>1. printed' = Append(printed, Line(headers[Page]))
    BY <1>7 DEF EnumerateFunction
  <2>2. printed' \in Seq(Lines) /\ PrintedSoFar' /\ NamesFit'
    BY <1>1, <1>2, <1>4, <1>7, <2>1, Printing
  <2>3. Types'
    BY <1>1, <1>6, <2>2, Zenon DEF Types
  <2> QED BY <1>3, <1>5, <2>2, <2>3 DEF PCIInv
<1>8. CASE ~ Exists
  <2>1. UNCHANGED printed
    BY <1>8 DEF EnumerateFunction
  <2>2. ASSUME NEW s, NEW b, NEW d, NEW f, IsReachable(s, b, d, f)
        PROVE  Before(s, b, d, f, t, Bus, Device, function)
                 <=> Before(s, b, d, f, t', Bus', Device', function')
    <3>1. s \in Nat /\ b \in Int /\ d \in Int /\ f \in Int
      BY <1>1, <2>2, ReachableTypes
    <3>2. Answers(Address(s, b, d, f))
      BY <2>2 DEF IsReachable
    <3>3. ~ Answers(Address(t, Bus, Device, function))
      BY <1>1, <1>2, <1>8, InTheLoops DEF Exists, Answers
    <3>4. ~ (s = t /\ b = Bus /\ d = Device /\ f = function)
      BY <3>2, <3>3
    <3>5. function \in Int
      BY <1>1, Positions
    <3>6. Before(s, b, d, f, t, Bus, Device, function)
            <=> Before(s, b, d, f, t, Bus, Device, function + 1)
      BY <3>1, <3>4, <3>5 DEF Before
    <3> QED BY <1>4, <3>6
  <2> QED BY <1>1, <1>3, <1>5, <1>6, <2>1, <2>2, Moving
<1> QED BY <1>7, <1>8

LEMMA StutterPreserves ==
  ASSUME PCIInv, UNCHANGED vars
  PROVE  PCIInv'
<1>1. UNCHANGED <<machine, MCFG, t, Bus, Device, function, loop, mapped, printed>>
  BY DEF vars, position
<1>2. Types /\ Place /\ OnlyConfigSpaceMapped
  BY DEF PCIInv
<1>3. OnlyConfigSpaceMapped'
  BY <1>1, <1>2, NothingMapped
<1>4. /\ Inside' = Inside /\ Configs' = Configs
      /\ Answers(Address(t, Bus, 0, 0))' = Answers(Address(t, Bus, 0, 0))
      /\ Answers(Address(t, Bus, Device, 0))' = Answers(Address(t, Bus, Device, 0))
  BY <1>1, Zenon DEF Inside, Configs, Entries, Answers, Address, PageOf, headers
<1>5. Place'
  BY <1>1, <1>2, <1>4, Zenon DEF Place, position
<1> QED BY <1>1, <1>3, <1>5, Entering

LEMMA Inductive == PCIInv /\ [Next]_vars => PCIInv'
BY PrepareACPIPreserves, EnumeratePCIPreserves, EnumerateBusPreserves,
   EnumerateDevicePreserves, EnumerateFunctionPreserves, StutterPreserves DEF Next

THEOREM Invariance == Spec => []PCIInv
BY InitEstablishes, Inductive, PTL DEF Spec

-----------------------------------------------------------------------------
(* What follows *)

(* Nothing but the configuration space of the buses below a segment's last *)
(* is mapped (pci.cpp:8, :30, :46).                                        *)
THEOREM MappedCorrect == Spec => []OnlyConfigSpaceMapped
<1>1. PCIInv => OnlyConfigSpaceMapped
  BY DEF PCIInv
<1> QED BY <1>1, Invariance, PTL

(* At every moment the functions printed are the ones that can be reached  *)
(* and come before, each once, in order and from its own page of           *)
(* configuration space (pci.cpp:53, :37).                                  *)
THEOREM PrintedCorrect == Spec => []PrintedSoFar
<1>1. PCIInv => PrintedSoFar
  BY DEF PCIInv
<1> QED BY <1>1, Invariance, PTL

(* A name in words is of the function's own class, but for the three       *)
(* places where one case of a switch runs into the next                    *)
(* (pciDescriptors.cpp:257, :279, :290).                                   *)
THEOREM NamesCorrect == Spec => []NamesFit
<1>1. PCIInv => NamesFit
  BY DEF PCIInv
<1> QED BY <1>1, Invariance, PTL
=============================================================================
