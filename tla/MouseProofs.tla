------------------------------ MODULE MouseProofs ------------------------------
(***************************************************************************)
(* Proofs about the mouse driver: its types, that the out-of-sync check    *)
(* works, and that the driver implements Pointer while it has its place,   *)
(* for every set of movements and stray bytes, any screen and any amount   *)
(* of trouble on the line.                                                 *)
(***************************************************************************)
EXTENDS Mouse, TLAPS

(* What is left on the wire is the end of the packet being sent.           *)
WireIsTheRest ==
  \A i \in 1 .. Len(wire) : wire[i] = Encode(sending)[3 - Len(wire) + i]

(* How a quiet packet gives the driver its place: after its second byte    *)
(* the driver no longer expects the second one, after its third it expects *)
(* the first.                                                              *)
QuietLeadsBack ==
  intact /\ Quiet(sending) =>
    /\ Len(wire) = 1 => MouseCycle \in {0, 2}
    /\ Len(wire) = 0 => MouseCycle = 0 \/ synced

MouseInv == TypeOK /\ WireIsTheRest /\ QuietLeadsBack /\ SyncedMeansAligned

-----------------------------------------------------------------------------
(* The bytes of a packet *)

LEMMA ByteTypes ==
  ASSUME NEW d \in -510 .. 510
  PROVE  MovementByte(d) \in Byte
  BY DEF MovementByte, Counts, Abs, Byte

LEMMA FlagBits ==
  ASSUME NEW a \in 0 .. 7, NEW c \in 0 .. 15
  PROVE  8 + a + 16 * c \in Byte /\ InSync(8 + a + 16 * c)
<1>1. (8 + a + 16 * c) \div 8 = 1 + 2 * c
  OBVIOUS
<1>2. (1 + 2 * c) % 2 = 1
  OBVIOUS
<1> QED BY <1>1, <1>2 DEF InSync, Has, Byte

LEMMA FirstByte ==
  ASSUME NEW move \in Move
  PROVE  /\ Encode(move)[1] \in Byte
         /\ InSync(Encode(move)[1])
         /\ Encode(move)[2] = MovementByte(move.dx)
         /\ Encode(move)[3] = MovementByte(move.dy)
         /\ Encode(move) \in Seq(Byte)
         /\ Len(Encode(move)) = 3
<1> DEFINE l == Flag("left" \in move.buttons, 1)
           r == Flag("right" \in move.buttons, 2)
           m == Flag("middle" \in move.buttons, 4)
           p == Flag(move.dx < 0, 16)
           q == Flag(move.dy < 0, 32)
           s == Flag(Abs(move.dx) > 255, 64)
           t == Flag(Abs(move.dy) > 255, 128)
           first == 8 + l + r + m + p + q + s + t
<1>1. l \in {0, 1} /\ r \in {0, 2} /\ m \in {0, 4}
  BY DEF Flag
<1>2. p \in {0, 16} /\ q \in {0, 32} /\ s \in {0, 64} /\ t \in {0, 128}
  BY DEF Flag
<1>3. Encode(move) = <<first, MovementByte(move.dx), MovementByte(move.dy)>>
  BY DEF Encode
<1>4. first \in Byte /\ InSync(first)
  <2> HIDE DEF l, r, m, p, q, s, t
  <2>1. PICK a \in 0 .. 7 : a = l + r + m
    BY <1>1
  <2>2. PICK c \in 0 .. 15 : 16 * c = p + q + s + t
    <3>1. \E i \in {0, 1} : p = 16 * i
      BY <1>2
    <3>2. \E i \in {0, 1} : q = 32 * i
      BY <1>2
    <3>3. \E i \in {0, 1} : s = 64 * i
      BY <1>2
    <3>4. \E i \in {0, 1} : t = 128 * i
      BY <1>2
    <3> QED BY <3>1, <3>2, <3>3, <3>4
  <2>3. first = 8 + a + 16 * c
    BY <1>1, <1>2, <2>1, <2>2
  <2> QED BY <2>3, FlagBits
<1>5. MovementByte(move.dx) \in Byte /\ MovementByte(move.dy) \in Byte
  BY ByteTypes DEF Move
<1> QED BY <1>3, <1>4, <1>5

-----------------------------------------------------------------------------
(* The driver *)

LEMMA ClampInside ==
  ASSUME NEW n \in Int, NEW limit \in Nat \ {0}
  PROVE  Clamp(n, limit) \in 0 .. limit - 1
  BY DEF Clamp

LEMMA DistanceType ==
  ASSUME NEW byte \in Byte, NEW negative \in BOOLEAN, NEW overflow \in BOOLEAN
  PROVE  Magnitude(byte, negative) \in Byte /\ Distance(byte, negative, overflow) \in Int
<1>1. (256 - byte) % 256 \in 0 .. 255
  BY DEF Byte
<1> QED BY <1>1 DEF Distance, Magnitude, Flag, Byte

(* HandleMouse keeps the driver's types.                                   *)
LEMMA HandleMouseType ==
  ASSUME TypeOK, NEW data \in Byte, HandleMouse(data)
  PROVE  /\ MouseCycle' \in 0 .. 2
         /\ RawMousePacket' \in [0 .. 2 -> Byte]
         /\ MousePacketReady' \in BOOLEAN
         /\ mousePosition' \in [X : 0 .. Width - 1, Y : 0 .. Height - 1]
         /\ mousePacket' \in Report
<1> DEFINE first == RawMousePacket[0]
           dx == Distance(RawMousePacket[1], Has(first, 16), Has(first, 64))
           dy == Distance(RawMousePacket[2], Has(first, 32), Has(first, 128))
<1>1. /\ RawMousePacket \in [0 .. 2 -> Byte]
      /\ MouseCycle \in 0 .. 2
      /\ mousePosition \in [X : 0 .. Width - 1, Y : 0 .. Height - 1]
      /\ mousePacket \in Report
  BY DEF TypeOK
<1>2. \A mask : Has(first, mask) \in BOOLEAN
  BY DEF Has
<1>3. dx \in Int /\ dy \in Int
  BY <1>1, <1>2, DistanceType
<1>4. Consumed(RawMousePacket) \in [0 .. 2 -> Byte]
  <2>1. /\ Magnitude(RawMousePacket[1], Has(first, 16)) \in Byte
        /\ Magnitude(RawMousePacket[2], Has(first, 32)) \in Byte
    BY <1>1, <1>2, DistanceType
  <2> QED BY <1>1, <2>1 DEF Consumed
<1>5. RawAfterProcessing \in [0 .. 2 -> Byte]
  BY <1>1, <1>4 DEF RawAfterProcessing
<1>6. Moved(mousePosition, RawMousePacket)
        \in [X : 0 .. Width - 1, Y : 0 .. Height - 1]
  <2>1. mousePosition.X \in Int /\ mousePosition.Y \in Int
    BY <1>1, MouseAssumption
  <2>2. /\ Clamp(mousePosition.X + dx, Width) \in 0 .. Width - 1
        /\ Clamp(mousePosition.Y - dy, Height) \in 0 .. Height - 1
    <3> HIDE DEF dx, dy
    <3>1. mousePosition.X + dx \in Int /\ mousePosition.Y - dy \in Int
      BY <1>3, <2>1
    <3> QED BY <3>1, ClampInside, MouseAssumption
  <2> QED BY <2>2 DEF Moved
<1>7. Pressed(first) \in SUBSET Button
  BY DEF Pressed, Button
<1>8. CASE MousePacketReady
  <2>1. mousePosition' = Moved(mousePosition, RawMousePacket)
    BY <1>8 DEF HandleMouse, ProcessMousePacket
  <2>2. mousePacket' = [x |-> mousePosition'.X, y |-> mousePosition'.Y,
                        buttons |-> Pressed(first)]
    BY <1>8 DEF HandleMouse, ProcessMousePacket, ReportOf
  <2>3. mousePacket' \in Report
    BY <1>6, <1>7, <2>1, <2>2 DEF Report
  <2> QED BY <1>1, <1>5, <1>6, <2>1, <2>3 DEF HandleMouse
<1>9. CASE ~MousePacketReady
  BY <1>1, <1>5, <1>9 DEF HandleMouse, ProcessMousePacket
<1> QED BY <1>8, <1>9

(* Where HandleMouse leaves MouseCycle.                                    *)
LEMMA CycleAfter ==
  ASSUME TypeOK, NEW data \in Byte, HandleMouse(data)
  PROVE  /\ MouseCycle = 0 /\ InSync(data) => MouseCycle' = 1
         /\ MouseCycle = 0 /\ ~InSync(data) => MouseCycle' = 0
         /\ MouseCycle = 1 => MouseCycle' = 2
         /\ MouseCycle = 2 => MouseCycle' = 0
<1>1. MouseCycle' = IF Accepted(data) THEN (MouseCycle + 1) % 3 ELSE 0
  BY DEF HandleMouse
<1>2. (0 + 1) % 3 = 1 /\ (1 + 1) % 3 = 2 /\ (2 + 1) % 3 = 0
  OBVIOUS
<1> QED BY <1>1, <1>2 DEF Accepted

-----------------------------------------------------------------------------
(* The invariant *)

LEMMA MouseInit == Init => MouseInv
<1> SUFFICES ASSUME Init PROVE MouseInv
  OBVIOUS
<1>1. TypeOK
  <2>1. [i \in 0 .. 2 |-> 0] \in [0 .. 2 -> Byte]
    BY DEF Byte
  <2>2. NoReport \in Report
    BY MouseAssumption DEF NoReport, Report
  <2>3. [X |-> 0, Y |-> 0] \in [X : 0 .. Width - 1, Y : 0 .. Height - 1]
    BY MouseAssumption
  <2>4. wire \in Seq(Byte) /\ Len(wire) <= 3
    BY DEF Init
  <2>5. trouble \in 0 .. MaxTrouble
    BY MouseAssumption DEF Init
  <2>6. /\ MouseCycle \in 0 .. 2 /\ MousePacketReady \in BOOLEAN
        /\ sending \in Moves /\ synced \in BOOLEAN /\ intact \in BOOLEAN
    <3>1. MouseCycle = 0 /\ sending \in Moves
      BY DEF Init
    <3>2. MousePacketReady = FALSE /\ synced = TRUE /\ intact = TRUE
      BY Zenon DEF Init
    <3>3. MousePacketReady \in BOOLEAN /\ synced \in BOOLEAN /\ intact \in BOOLEAN
      BY <3>2
    <3> QED BY <3>1, <3>3
  <2>7. /\ RawMousePacket \in [0 .. 2 -> Byte]
        /\ mousePosition \in [X : 0 .. Width - 1, Y : 0 .. Height - 1]
        /\ mousePacket \in Report
    <3>1. /\ RawMousePacket = [i \in 0 .. 2 |-> 0]
          /\ mousePosition = [X |-> 0, Y |-> 0]
          /\ mousePacket = NoReport
      BY DEF Init
    <3> QED BY <2>1, <2>2, <2>3, <3>1
  <2> QED BY <2>4, <2>5, <2>6, <2>7 DEF TypeOK
<1>2. WireIsTheRest /\ QuietLeadsBack /\ SyncedMeansAligned
  BY DEF Init, WireIsTheRest, QuietLeadsBack, SyncedMeansAligned, Aligned
<1> QED BY <1>1, <1>2 DEF MouseInv

(* The head of what is left, and what is left after it.                    *)
LEMMA HeadOfTheRest ==
  ASSUME MouseInv, wire # <<>>, wire' = Tail(wire), sending' = sending
  PROVE  /\ Head(wire) \in Byte
         /\ Len(wire) \in 1 .. 3
         /\ wire' \in Seq(Byte) /\ Len(wire') = Len(wire) - 1
         /\ WireIsTheRest'
         /\ Len(wire) = 3 => InSync(Head(wire))
         /\ Len(wire) = 2 /\ Quiet(sending) => ~InSync(Head(wire))
         /\ Len(wire) = 1 /\ Quiet(sending) => ~InSync(Head(wire))
<1>1. wire \in Seq(Byte) /\ Len(wire) <= 3 /\ sending \in Move
  BY MouseAssumption DEF MouseInv, TypeOK
<1>2. /\ Head(wire) = wire[1] /\ Head(wire) \in Byte
      /\ Len(wire) \in 1 .. 3
      /\ wire' \in Seq(Byte) /\ Len(wire') = Len(wire) - 1
      /\ \A i \in 1 .. Len(wire') : wire'[i] = wire[i + 1]
  <2>0. Len(wire) \in Nat /\ Len(wire) # 0
    BY <1>1
  <2>1. Len(wire) \in 1 .. 3 /\ Head(wire) = wire[1] /\ Head(wire) \in Byte
    <3>1. Head(wire) = wire[1]
      BY <1>1, <2>0
    <3>2. 1 \in 1 .. Len(wire)
      BY <2>0
    <3>3. wire[1] \in Byte
      BY <1>1, <3>2
    <3>4. \A n \in Nat : n # 0 /\ n <= 3 => n \in 1 .. 3
      OBVIOUS
    <3>5. Len(wire) \in 1 .. 3
      BY <1>1, <2>0, <3>4
    <3>6. Head(wire) \in Byte
      BY <3>1, <3>3
    <3> QED BY <3>1, <3>5, <3>6
  <2>2. Tail(wire) \in Seq(Byte) /\ Len(Tail(wire)) = Len(wire) - 1
    BY <1>1
  <2>3. \A i \in 1 .. Len(Tail(wire)) : Tail(wire)[i] = wire[i + 1]
    BY <1>1
  <2> QED BY <2>1, <2>2, <2>3
<1>3. Head(wire) = Encode(sending)[4 - Len(wire)]
  BY <1>2 DEF MouseInv, WireIsTheRest
<1>4. WireIsTheRest'
  <2>0. Encode(sending)' = Encode(sending)
    OBVIOUS
  <2> SUFFICES ASSUME NEW i \in 1 .. Len(wire')
               PROVE  wire'[i] = Encode(sending)[3 - Len(wire') + i]
    BY <2>0 DEF WireIsTheRest
  <2>1. i + 1 \in 1 .. Len(wire) /\ 3 - Len(wire) + (i + 1) = 3 - Len(wire') + i
    BY <1>2
  <2> QED BY <1>2, <2>1 DEF MouseInv, WireIsTheRest
<1>5. /\ InSync(Encode(sending)[1])
      /\ Quiet(sending) => ~InSync(Encode(sending)[2]) /\ ~InSync(Encode(sending)[3])
  BY <1>1, FirstByte DEF Quiet
<1>6. /\ Len(wire) = 3 => Head(wire) = Encode(sending)[1]
      /\ Len(wire) = 2 => Head(wire) = Encode(sending)[2]
      /\ Len(wire) = 1 => Head(wire) = Encode(sending)[3]
  <2>1. CASE Len(wire) = 3
    BY <1>3, <2>1
  <2>2. CASE Len(wire) = 2
    BY <1>3, <2>2
  <2>3. CASE Len(wire) = 1
    BY <1>3, <2>3
  <2> QED BY <2>1, <2>2, <2>3
<1> QED BY <1>2, <1>4, <1>5, <1>6

LEMMA SendStep ==
  ASSUME MouseInv, NEW move \in Moves, Send(move)
  PROVE  MouseInv'
<1>1. /\ move \in Move
      /\ wire' = Encode(move) /\ Len(wire') = 3 /\ wire' \in Seq(Byte)
  BY MouseAssumption, FirstByte DEF Send
<1>2. TypeOK'
  BY <1>1 DEF MouseInv, TypeOK, Send, driver
<1>3. WireIsTheRest'
  <2>1. sending' = move
    BY DEF Send
  <2> SUFFICES ASSUME NEW i \in 1 .. Len(wire')
               PROVE  wire'[i] = Encode(move)[3 - Len(wire') + i]
    BY <2>1 DEF WireIsTheRest, Encode
  <2>2. 3 - Len(wire') + i = i
    BY <1>1
  <2> QED BY <1>1, <2>2
<1>4. QuietLeadsBack'
  BY <1>1 DEF QuietLeadsBack
<1>5. SyncedMeansAligned'
  <2>1. synced' = synced /\ MouseCycle' = MouseCycle /\ Len(wire) = 0
    BY DEF Send, driver
  <2>2. (3 - 0) % 3 = (3 - 3) % 3
    OBVIOUS
  <2> QED BY <1>1, <2>1, <2>2 DEF MouseInv, SyncedMeansAligned, Aligned
<1> QED BY <1>2, <1>3, <1>4, <1>5 DEF MouseInv

LEMMA DeliverStep ==
  ASSUME MouseInv, Deliver
  PROVE  MouseInv'
<1> DEFINE data == Head(wire)
<1>1. /\ wire # <<>> /\ HandleMouse(data) /\ wire' = Tail(wire)
      /\ sending' = sending /\ trouble' = trouble /\ intact' = intact
      /\ synced' = (synced \/ (Len(wire) = 1 /\ intact /\ Quiet(sending)))
  BY DEF Deliver
<1>2. TypeOK
  BY DEF MouseInv
<1>3. /\ data \in Byte
      /\ Len(wire) \in 1 .. 3
      /\ wire' \in Seq(Byte) /\ Len(wire') = Len(wire) - 1
      /\ WireIsTheRest'
      /\ Len(wire) = 3 => InSync(data)
      /\ Len(wire) = 2 /\ Quiet(sending) => ~InSync(data)
      /\ Len(wire) = 1 /\ Quiet(sending) => ~InSync(data)
  BY <1>1, HeadOfTheRest
<1> HIDE DEF data
<1>4. /\ MouseCycle \in 0 .. 2 /\ MouseCycle' \in 0 .. 2
      /\ MouseCycle = 0 /\ InSync(data) => MouseCycle' = 1
      /\ MouseCycle = 0 /\ ~InSync(data) => MouseCycle' = 0
      /\ MouseCycle = 1 => MouseCycle' = 2
      /\ MouseCycle = 2 => MouseCycle' = 0
  BY <1>1, <1>2, <1>3, CycleAfter, HandleMouseType DEF TypeOK
<1>5. TypeOK'
  <2>1. /\ MouseCycle' \in 0 .. 2
        /\ RawMousePacket' \in [0 .. 2 -> Byte]
        /\ MousePacketReady' \in BOOLEAN
        /\ mousePosition' \in [X : 0 .. Width - 1, Y : 0 .. Height - 1]
        /\ mousePacket' \in Report
    BY <1>1, <1>2, <1>3, HandleMouseType
  <2>2. synced' \in BOOLEAN /\ intact' \in BOOLEAN
    BY <1>1, <1>2 DEF TypeOK, Quiet
  <2>3. wire' \in Seq(Byte) /\ Len(wire') <= 3
    BY <1>3
  <2>4. sending' \in Moves /\ trouble' \in 0 .. MaxTrouble
    BY <1>1, <1>2 DEF TypeOK
  <2>5. Report' = Report
    BY DEF Report
  <2> QED BY <2>1, <2>2, <2>3, <2>4, <2>5 DEF TypeOK
<1>6. Quiet(sending') = Quiet(sending)
  BY <1>1
<1>7. intact /\ Quiet(sending) /\ Len(wire) = 2 => MouseCycle' \in {0, 2}
  BY <1>3, <1>4
<1>8. intact /\ Quiet(sending) /\ Len(wire) = 1 => MouseCycle' = 0
  BY <1>3, <1>4 DEF MouseInv, QuietLeadsBack
<1>9. QuietLeadsBack'
  <2> SUFFICES ASSUME intact', Quiet(sending')
               PROVE  /\ Len(wire') = 1 => MouseCycle' \in {0, 2}
                      /\ Len(wire') = 0 => MouseCycle' = 0 \/ synced'
    BY DEF QuietLeadsBack, Quiet, MovementByte, Counts, Abs, InSync, Has
  <2> QED BY <1>1, <1>3, <1>6, <1>7, <1>8
<1>10. SyncedMeansAligned'
  <2> SUFFICES ASSUME synced' PROVE MouseCycle' = (3 - Len(wire')) % 3
    BY DEF SyncedMeansAligned, Aligned
  <2>1. (3 - 0) % 3 = 0 /\ (3 - 1) % 3 = 2 /\ (3 - 2) % 3 = 1 /\ (3 - 3) % 3 = 0
    OBVIOUS
  <2>0. Len(wire') = 0 \/ Len(wire') = 1 \/ Len(wire') = 2
    BY <1>3
  <2>2. CASE synced
    <3>1. MouseCycle = (3 - Len(wire)) % 3
      BY <2>2 DEF MouseInv, SyncedMeansAligned, Aligned
    <3>2. CASE Len(wire) = 3
      BY <1>3, <1>4, <2>1, <3>1, <3>2
    <3>3. CASE Len(wire) = 2
      BY <1>3, <1>4, <2>1, <3>1, <3>3
    <3>4. CASE Len(wire) = 1
      BY <1>3, <1>4, <2>1, <3>1, <3>4
    <3> QED BY <1>3, <3>2, <3>3, <3>4
  <2>3. CASE ~synced
    <3>1. Len(wire) = 1 /\ MouseCycle' = 0
      BY <1>1, <1>8, <2>3
    <3> QED BY <1>3, <2>1, <3>1
  <2> QED BY <2>2, <2>3
<1> QED BY <1>3, <1>5, <1>9, <1>10 DEF MouseInv

LEMMA LoseStep ==
  ASSUME MouseInv, Lose
  PROVE  MouseInv'
<1>1. /\ wire # <<>> /\ wire' = Tail(wire) /\ sending' = sending
      /\ synced' = FALSE /\ intact' = FALSE /\ UNCHANGED driver
      /\ trouble < MaxTrouble /\ trouble' = trouble + 1
  BY DEF Lose
<1>2. wire' \in Seq(Byte) /\ Len(wire') <= 3 /\ WireIsTheRest'
  BY <1>1, HeadOfTheRest
<1>3. trouble' \in 0 .. MaxTrouble
  BY <1>1, MouseAssumption DEF MouseInv, TypeOK
<1>4. TypeOK'
  BY <1>1, <1>2, <1>3 DEF MouseInv, TypeOK, driver, Report
<1>5. QuietLeadsBack' /\ SyncedMeansAligned'
  BY <1>1 DEF QuietLeadsBack, SyncedMeansAligned
<1> QED BY <1>2, <1>4, <1>5 DEF MouseInv

LEMMA StrayStep ==
  ASSUME MouseInv, NEW data \in StrayBytes, Stray(data)
  PROVE  MouseInv'
<1>1. /\ HandleMouse(data) /\ UNCHANGED <<wire, sending>>
      /\ synced' = FALSE /\ intact' = FALSE
      /\ trouble < MaxTrouble /\ trouble' = trouble + 1
  BY DEF Stray
<1>2. data \in Byte
  BY MouseAssumption
<1>3. trouble' \in 0 .. MaxTrouble
  BY <1>1, MouseAssumption DEF MouseInv, TypeOK
<1>4. TypeOK'
  <2>1. TypeOK
    BY DEF MouseInv
  <2> QED BY <1>1, <1>2, <1>3, <2>1, HandleMouseType DEF TypeOK, Report
<1>5. WireIsTheRest'
  <2>1. WireIsTheRest
    BY DEF MouseInv
  <2>2. wire' = wire /\ sending' = sending
    BY <1>1
  <2> QED BY <2>1, <2>2, ZenonT(30) DEF WireIsTheRest, Encode
<1>6. QuietLeadsBack' /\ SyncedMeansAligned'
  BY <1>1 DEF QuietLeadsBack, SyncedMeansAligned
<1> QED BY <1>4, <1>5, <1>6 DEF MouseInv

LEMMA MouseStutter ==
  ASSUME MouseInv, UNCHANGED vars
  PROVE  MouseInv'
<1>1. UNCHANGED <<wire, sending, trouble, synced, intact>> /\ UNCHANGED driver
  BY DEF vars, device
<1>2. TypeOK'
  BY <1>1 DEF MouseInv, TypeOK, driver, Report
<1>3. WireIsTheRest'
  <2>1. WireIsTheRest
    BY DEF MouseInv
  <2>2. wire' = wire /\ sending' = sending
    BY <1>1
  <2> QED BY <2>1, <2>2, ZenonT(30) DEF WireIsTheRest, Encode
<1>4. QuietLeadsBack' /\ SyncedMeansAligned'
  BY <1>1 DEF MouseInv, QuietLeadsBack, SyncedMeansAligned, Aligned, Quiet, driver
<1> QED BY <1>2, <1>3, <1>4 DEF MouseInv

LEMMA MouseStep ==
  ASSUME MouseInv, [Next]_vars
  PROVE  MouseInv'
<1>1. ASSUME NEW move \in Moves, Send(move) PROVE MouseInv'
  BY <1>1, SendStep
<1>2. CASE Deliver
  BY <1>2, DeliverStep
<1>3. CASE Lose
  BY <1>3, LoseStep
<1>4. ASSUME NEW data \in StrayBytes, Stray(data) PROVE MouseInv'
  BY <1>4, StrayStep
<1>5. CASE UNCHANGED vars
  BY <1>5, MouseStutter
<1> QED BY <1>1, <1>2, <1>3, <1>4, <1>5 DEF Next

(* MouseInv is inductive: it is what HandleMouse, byte by byte, keeps.     *)
THEOREM MouseInvariance == Spec => []MouseInv
  BY MouseInit, MouseStep, PTL DEF Spec

(* The position stays on the screen and the driver's state in its types,   *)
(* whatever bytes come in: HandleMouse, ProcessMousePacket.                *)
THEOREM MouseTypeCorrect == Spec => []TypeOK
<1>1. MouseInv => TypeOK
  BY DEF MouseInv
<1> QED BY <1>1, MouseInvariance, PTL

(* One quiet packet gives HandleMouse its place in the stream again, and it *)
(* keeps it until the next byte is lost or comes astray.                   *)
THEOREM Alignment == Spec => []SyncedMeansAligned
<1>1. MouseInv => SyncedMeansAligned
  BY DEF MouseInv
<1> QED BY <1>1, MouseInvariance, PTL

-----------------------------------------------------------------------------
(* The driver implements Pointer *)

(* The position shown is the position kept, a whole packet is only there   *)
(* between packets, and a driver in its place has gathered what the device *)
(* has sent so far.                                                        *)
Shown == mousePacket.x = mousePosition.X /\ mousePacket.y = mousePosition.Y

ReadyBetweenPackets == MousePacketReady => MouseCycle = 0

Gathered ==
  synced /\ Len(wire) \in {1, 2} =>
    /\ RawMousePacket[0] = Encode(sending)[1]
    /\ Len(wire) = 1 => RawMousePacket[1] = Encode(sending)[2]

PointerInv == MouseInv /\ Shown /\ ReadyBetweenPackets /\ Gathered

(* The bits of a first byte are the device's flags.                        *)
LEMMA FirstByteBits ==
  ASSUME NEW move \in Move
  PROVE  LET first == Encode(move)[1]
         IN  /\ Has(first, 1) = ("left" \in move.buttons)
             /\ Has(first, 2) = ("right" \in move.buttons)
             /\ Has(first, 4) = ("middle" \in move.buttons)
             /\ Has(first, 16) = (move.dx < 0)
             /\ Has(first, 32) = (move.dy < 0)
             /\ Has(first, 64) = (Abs(move.dx) > 255)
             /\ Has(first, 128) = (Abs(move.dy) > 255)
<1> DEFINE bl == "left" \in move.buttons
           br == "right" \in move.buttons
           bm == "middle" \in move.buttons
           bp == move.dx < 0
           bq == move.dy < 0
           bs == Abs(move.dx) > 255
           bt == Abs(move.dy) > 255
           first == 8 + Flag(bl, 1) + Flag(br, 2) + Flag(bm, 4) + Flag(bp, 16)
                      + Flag(bq, 32) + Flag(bs, 64) + Flag(bt, 128)
<1>1. Encode(move)[1] = first
  BY DEF Encode
<1>2. /\ bl \in BOOLEAN /\ br \in BOOLEAN /\ bm \in BOOLEAN
      /\ bp \in BOOLEAN /\ bq \in BOOLEAN
      /\ bs \in BOOLEAN /\ bt \in BOOLEAN
  OBVIOUS
<1> HIDE DEF bl, br, bm, bp, bq, bs, bt
<1>3. PICK l \in {0, 1}, r \in {0, 1}, m \in {0, 1}, p \in {0, 1},
           q \in {0, 1}, s \in {0, 1}, t \in {0, 1} :
        /\ first = 8 + l + 2 * r + 4 * m + 16 * p + 32 * q + 64 * s + 128 * t
        /\ (l = 1) = bl /\ (r = 1) = br /\ (m = 1) = bm /\ (p = 1) = bp
        /\ (q = 1) = bq /\ (s = 1) = bs /\ (t = 1) = bt
  BY <1>2 DEF Flag
<1> HIDE DEF first
<1>4. /\ Has(first, 1) = (l = 1)
      /\ Has(first, 2) = (r = 1)
      /\ Has(first, 4) = (m = 1)
      /\ Has(first, 16) = (p = 1)
      /\ Has(first, 32) = (q = 1)
      /\ Has(first, 64) = (s = 1)
      /\ Has(first, 128) = (t = 1)
  BY <1>3 DEF Has
<1> QED BY <1>1, <1>3, <1>4 DEF bl, br, bm, bp, bq, bs, bt

(* Sign, byte and overflow bit together are the distance.                  *)
LEMMA DistanceOfByte ==
  ASSUME NEW d \in -510 .. 510
  PROVE  Distance(MovementByte(d), d < 0, Abs(d) > 255) = d
<1>0. Distance(MovementByte(d), d < 0, Abs(d) > 255)
        = IF d < 0
          THEN -(Magnitude(MovementByte(d), d < 0) + Flag(Abs(d) > 255, 255))
          ELSE Magnitude(MovementByte(d), d < 0) + Flag(Abs(d) > 255, 255)
  BY DEF Distance
<1>1. CASE d < 0
  <2>1. Counts(d) \in 1 .. 255 /\ d = -(Counts(d) + Flag(Abs(d) > 255, 255))
    BY <1>1 DEF Counts, Abs, Flag
  <2>2. Magnitude(MovementByte(d), d < 0) = Counts(d)
    BY <1>1, <2>1 DEF Magnitude, MovementByte
  <2> QED BY <1>0, <1>1, <2>1, <2>2
<1>2. CASE ~(d < 0)
  <2>1. d = Counts(d) + Flag(Abs(d) > 255, 255)
    BY <1>2 DEF Counts, Abs, Flag
  <2>2. Magnitude(MovementByte(d), d < 0) = Counts(d)
    BY <1>2 DEF Magnitude, MovementByte
  <2> QED BY <1>0, <1>2, <2>1, <2>2
<1> QED BY <1>1, <1>2

LEMMA ClampIsBounded ==
  ASSUME NEW n \in Int, NEW limit \in Nat \ {0}
  PROVE  Clamp(n, limit) = P!Bounded(n, limit)
  BY DEF Clamp, P!Bounded

(* A whole packet of the device is reported as the device's movement.      *)
LEMMA ReportOfPacket ==
  ASSUME NEW move \in Move, NEW raw \in [0 .. 2 -> Byte],
         NEW position \in [X : 0 .. Width - 1, Y : 0 .. Height - 1],
         NEW report, report.x = position.X, report.y = position.Y,
         \A i \in 0 .. 2 : raw[i] = Encode(move)[i + 1]
  PROVE  ReportOf(position, raw) = P!Apply(report, move)
<1> DEFINE first == raw[0]
<1>1. /\ first = Encode(move)[1]
      /\ raw[1] = MovementByte(move.dx)
      /\ raw[2] = MovementByte(move.dy)
  BY FirstByte
<1>2. /\ Has(first, 1) = ("left" \in move.buttons)
      /\ Has(first, 2) = ("right" \in move.buttons)
      /\ Has(first, 4) = ("middle" \in move.buttons)
      /\ Has(first, 16) = (move.dx < 0)
      /\ Has(first, 32) = (move.dy < 0)
      /\ Has(first, 64) = (Abs(move.dx) > 255)
      /\ Has(first, 128) = (Abs(move.dy) > 255)
  BY <1>1, FirstByteBits
<1>3. /\ Distance(raw[1], Has(first, 16), Has(first, 64)) = move.dx
      /\ Distance(raw[2], Has(first, 32), Has(first, 128)) = move.dy
  <2>1. move.dx \in -510 .. 510 /\ move.dy \in -510 .. 510
    BY DEF Move
  <2> DEFINE D(d) == Distance(MovementByte(d), d < 0, Abs(d) > 255) = d
  <2>2. \A d \in -510 .. 510 : D(d)
    BY DistanceOfByte
  <2>3. D(move.dx) /\ D(move.dy)
    <3> HIDE DEF D
    <3> QED BY <2>1, <2>2
  <2> QED BY <1>1, <1>2, <2>3, Zenon
<1>4. Pressed(first) = move.buttons
  <2>1. /\ Has(first, 1) <=> "left" \in move.buttons
        /\ Has(first, 2) <=> "right" \in move.buttons
        /\ Has(first, 4) <=> "middle" \in move.buttons
    BY <1>2
  <2>2. move.buttons \subseteq {"left", "right", "middle"}
    BY DEF Move, Button
  <2> HIDE DEF first
  <2>3. \A b : b \in Pressed(first) <=> b \in move.buttons
    BY <2>1, <2>2 DEF Pressed
  <2> QED BY <2>3
<1>5. /\ Moved(position, raw).X = Clamp(position.X + move.dx, Width)
      /\ Moved(position, raw).Y = Clamp(position.Y - move.dy, Height)
  BY <1>3 DEF Moved
<1>6. /\ Clamp(position.X + move.dx, Width) = P!Bounded(report.x + move.dx, Width)
      /\ Clamp(position.Y - move.dy, Height) = P!Bounded(report.y - move.dy, Height)
  <2>1. /\ position.X + move.dx \in Int
        /\ position.Y - move.dy \in Int
    <3>1. position.X \in Int /\ position.Y \in Int
      BY MouseAssumption
    <3>2. move.dx \in Int /\ move.dy \in Int
      BY DEF Move
    <3> QED BY <3>1, <3>2
  <2>2. /\ P!Bounded(position.X + move.dx, Width) = P!Bounded(report.x + move.dx, Width)
        /\ P!Bounded(position.Y - move.dy, Height) = P!Bounded(report.y - move.dy, Height)
    OBVIOUS
  <2> QED BY <2>1, <2>2, ClampIsBounded, MouseAssumption
<1> QED BY <1>4, <1>5, <1>6 DEF ReportOf, P!Apply

(* What HandleMouse does to the API and the packet in terms of Latest.     *)
LEMMA HandleMouseShows ==
  ASSUME PointerInv, NEW data \in Byte, HandleMouse(data)
  PROVE  /\ mousePacket' = Latest
         /\ mousePacket'.x = mousePosition'.X /\ mousePacket'.y = mousePosition'.Y
         /\ MousePacketReady' = (MouseCycle = 2)
         /\ MouseCycle # 0 => /\ ~MousePacketReady
                              /\ UNCHANGED <<mousePosition, mousePacket>>
                              /\ RawMousePacket' = [RawMousePacket EXCEPT ![MouseCycle] = data]
<1>1. /\ mousePacket' = Latest
      /\ mousePacket'.x = mousePosition'.X /\ mousePacket'.y = mousePosition'.Y
  <2>1. CASE MousePacketReady
    BY <2>1 DEF HandleMouse, ProcessMousePacket, Latest, ReportOf
  <2>2. CASE ~MousePacketReady
    BY <2>2 DEF HandleMouse, ProcessMousePacket, Latest, PointerInv, Shown
  <2> QED BY <2>1, <2>2
<1>2. MousePacketReady' = (MouseCycle = 2)
  BY Zenon DEF HandleMouse
<1>3. ASSUME MouseCycle # 0
      PROVE  /\ ~MousePacketReady
             /\ UNCHANGED <<mousePosition, mousePacket>>
             /\ RawMousePacket' = [RawMousePacket EXCEPT ![MouseCycle] = data]
  <2>1. ~MousePacketReady
    BY <1>3 DEF PointerInv, ReadyBetweenPackets
  <2> QED BY <1>3, <2>1 DEF HandleMouse, ProcessMousePacket, RawAfterProcessing, Accepted
<1> QED BY <1>1, <1>2, <1>3

(* Where a driver in its place is when a byte of a packet comes.           *)
LEMMA InItsPlace ==
  ASSUME MouseInv, synced, wire # <<>>
  PROVE  /\ Len(wire) = 3 => MouseCycle = 0
         /\ Len(wire) = 2 => MouseCycle = 1
         /\ Len(wire) = 1 => MouseCycle = 2
<1>1. MouseCycle = (3 - Len(wire)) % 3
  BY DEF MouseInv, SyncedMeansAligned, Aligned
<1>2. (3 - 3) % 3 = 0 /\ (3 - 2) % 3 = 1 /\ (3 - 1) % 3 = 2
  OBVIOUS
<1> QED BY <1>1, <1>2

(* The byte on the wire is the one of its packet that is due.              *)
LEMMA HeadOfPacket ==
  ASSUME MouseInv, wire # <<>>
  PROVE  /\ sending \in Move
         /\ Head(wire) \in Byte
         /\ Len(wire) \in 1 .. 3
         /\ Len(Tail(wire)) = Len(wire) - 1
         /\ Head(wire) = Encode(sending)[4 - Len(wire)]
         /\ Len(wire) = 3 => InSync(Head(wire))
<1>1. wire \in Seq(Byte) /\ Len(wire) <= 3 /\ sending \in Move
  BY MouseAssumption DEF MouseInv, TypeOK
<1>2. Len(wire) \in Nat /\ Len(wire) # 0
  BY <1>1
<1>3. Len(wire) \in 1 .. 3
  <2>1. \A n \in Nat : n # 0 /\ n <= 3 => n \in 1 .. 3
    OBVIOUS
  <2> QED BY <1>1, <1>2, <2>1
<1>4. Head(wire) = wire[1] /\ 1 \in 1 .. Len(wire) /\ wire[1] \in Byte
  BY <1>1, <1>3
<1>5. Head(wire) = Encode(sending)[3 - Len(wire) + 1]
  BY <1>4 DEF MouseInv, WireIsTheRest
<1>6. 3 - Len(wire) + 1 = 4 - Len(wire)
  BY <1>3
<1>7. Len(wire) = 3 => InSync(Head(wire))
  BY <1>1, <1>5, <1>6, FirstByte
<1>8. Len(Tail(wire)) = Len(wire) - 1
  BY <1>1, <1>2
<1> QED BY <1>1, <1>3, <1>4, <1>5, <1>6, <1>7, <1>8

LEMMA DeliverGathers ==
  ASSUME PointerInv, Deliver
  PROVE  Shown' /\ ReadyBetweenPackets' /\ Gathered'
<1> DEFINE data == Head(wire)
<1>1. /\ wire # <<>> /\ HandleMouse(data) /\ wire' = Tail(wire) /\ sending' = sending
      /\ synced' = (synced \/ (Len(wire) = 1 /\ intact /\ Quiet(sending)))
  BY DEF Deliver
<1>2. MouseInv /\ TypeOK
  BY DEF PointerInv, MouseInv
<1>3. /\ data \in Byte /\ Len(wire) \in 1 .. 3 /\ Len(wire') = Len(wire) - 1
      /\ data = Encode(sending)[4 - Len(wire)]
      /\ Len(wire) = 3 => InSync(data)
  BY <1>1, <1>2, HeadOfPacket
<1> HIDE DEF data
<1>4. /\ mousePacket'.x = mousePosition'.X /\ mousePacket'.y = mousePosition'.Y
      /\ MousePacketReady' = (MouseCycle = 2)
      /\ MouseCycle # 0 => RawMousePacket' = [RawMousePacket EXCEPT ![MouseCycle] = data]
  BY <1>1, <1>3, HandleMouseShows
<1>5. ReadyBetweenPackets'
  BY <1>1, <1>2, <1>3, <1>4, CycleAfter DEF ReadyBetweenPackets
<1>6. Gathered'
  <2> SUFFICES ASSUME synced', Len(wire') \in {1, 2}
               PROVE  /\ RawMousePacket'[0] = Encode(sending)[1]
                      /\ Len(wire') = 1 => RawMousePacket'[1] = Encode(sending)[2]
    <3>1. Encode(sending)' = Encode(sending)
      BY <1>1 DEF Encode
    <3> QED BY <3>1 DEF Gathered
  <2>0. Len(wire) \in {2, 3} /\ Len(wire) # 1
    <3>1. \A n \in 1 .. 3 : n - 1 \in {1, 2} => n \in {2, 3} /\ n # 1
      OBVIOUS
    <3> QED BY <1>3, <3>1, Zenon
  <2>1. synced /\ Len(wire) \in {2, 3}
    BY <1>1, <2>0, Zenon
  <2>2. RawMousePacket \in [0 .. 2 -> Byte]
    BY <1>2 DEF TypeOK
  <2>3. CASE Len(wire) = 3
    <3>1. MouseCycle = 0 /\ InSync(data)
      BY <1>1, <1>2, <1>3, <2>1, <2>3, InItsPlace
    <3>2. RawMousePacket' = [RawAfterProcessing EXCEPT ![0] = data]
      BY <1>1, <3>1 DEF HandleMouse, Accepted
    <3>3. 0 \in DOMAIN RawAfterProcessing
      BY <2>2 DEF RawAfterProcessing, Consumed
    <3>4. RawMousePacket'[0] = data
      BY <3>2, <3>3
    <3>5. data = Encode(sending)[1] /\ Len(wire') # 1
      <4>1. 4 - Len(wire) = 1 /\ Len(wire) - 1 # 1
        BY <2>3
      <4> QED BY <1>3, <4>1, Zenon
    <3> QED BY <3>4, <3>5
  <2>4. CASE Len(wire) = 2
    <3>1. MouseCycle = 1
      BY <1>1, <1>2, <2>1, <2>4, InItsPlace
    <3>2. RawMousePacket' = [RawMousePacket EXCEPT ![1] = data]
      BY <1>4, <3>1
    <3>3. RawMousePacket[0] = Encode(sending)[1]
      BY <2>1, <2>4 DEF PointerInv, Gathered
    <3>4. RawMousePacket'[0] = RawMousePacket[0] /\ RawMousePacket'[1] = data
      BY <2>2, <3>2
    <3>5. data = Encode(sending)[2]
      <4>1. 4 - Len(wire) = 2
        BY <2>4
      <4> QED BY <1>3, <4>1
    <3> QED BY <3>3, <3>4, <3>5
  <2> QED BY <2>1, <2>3, <2>4
<1> QED BY <1>4, <1>5, <1>6 DEF Shown

LEMMA PointerInvInit == Init => PointerInv
<1> SUFFICES ASSUME Init PROVE PointerInv
  OBVIOUS
<1>1. Shown
  BY DEF Init, NoReport, Shown
<1>2. ReadyBetweenPackets
  BY Zenon DEF Init, ReadyBetweenPackets
<1>3. Gathered
  BY DEF Init, Gathered
<1> QED BY <1>1, <1>2, <1>3, MouseInit DEF PointerInv

LEMMA PointerInvNext ==
  ASSUME PointerInv, [Next]_vars
  PROVE  PointerInv'
<1>1. MouseInv'
  BY MouseStep DEF PointerInv
<1>2. ASSUME NEW move \in Moves, Send(move)
      PROVE  Shown' /\ ReadyBetweenPackets' /\ Gathered'
  <2>1. UNCHANGED driver /\ wire' = Encode(move) /\ move \in Move
    BY <1>2, MouseAssumption DEF Send
  <2>2. Len(wire') = 3
    BY <2>1, FirstByte
  <2> QED BY <2>1, <2>2 DEF PointerInv, Shown, ReadyBetweenPackets, Gathered, driver
<1>3. CASE Deliver
  BY <1>1, <1>3, DeliverGathers DEF PointerInv
<1>4. CASE Lose
  <2>1. UNCHANGED driver /\ synced' = FALSE
    BY <1>4 DEF Lose
  <2> QED BY <1>1, <2>1 DEF PointerInv, Shown, ReadyBetweenPackets, Gathered, driver
<1>5. ASSUME NEW data \in StrayBytes, Stray(data)
      PROVE  Shown' /\ ReadyBetweenPackets' /\ Gathered'
  <2>1. HandleMouse(data) /\ data \in Byte /\ synced' = FALSE
    BY <1>5, MouseAssumption DEF Stray
  <2>2. Shown' /\ MousePacketReady' = (MouseCycle = 2)
    BY <2>1, HandleMouseShows DEF Shown
  <2>3. TypeOK
    BY DEF PointerInv, MouseInv
  <2>4. MouseCycle = 2 => MouseCycle' = 0
    BY <2>1, <2>3, CycleAfter
  <2> QED BY <2>1, <2>2, <2>4 DEF ReadyBetweenPackets, Gathered
<1>6. CASE UNCHANGED vars
  <2>1. UNCHANGED driver /\ UNCHANGED device
    BY <1>6 DEF vars
  <2> QED BY <1>1, <2>1 DEF PointerInv, Shown, ReadyBetweenPackets, Gathered, driver,
                            device, Encode
<1> QED BY <1>1, <1>2, <1>3, <1>4, <1>5, <1>6 DEF Next, PointerInv

(* Bytes that move the driver on in its place show or complete a movement. *)
LEMMA DeliverImplements ==
  ASSUME PointerInv, synced, Deliver
  PROVE  P!Show \/ P!Complete(sending) \/ UNCHANGED P!vars
<1> DEFINE data == Head(wire)
<1>1. wire # <<>> /\ HandleMouse(data)
  BY DEF Deliver
<1>2. MouseInv /\ TypeOK
  BY DEF PointerInv, MouseInv
<1>3. /\ sending \in Move /\ data \in Byte /\ Len(wire) \in 1 .. 3
      /\ data = Encode(sending)[4 - Len(wire)]
  BY <1>1, <1>2, HeadOfPacket
<1>4. /\ Len(wire) = 3 => MouseCycle = 0
      /\ Len(wire) = 2 => MouseCycle = 1
      /\ Len(wire) = 1 => MouseCycle = 2
  BY <1>1, <1>2, InItsPlace
<1> HIDE DEF data
<1>5. /\ mousePacket' = Latest
      /\ MousePacketReady' = (MouseCycle = 2)
      /\ MouseCycle # 0 => /\ ~MousePacketReady
                           /\ UNCHANGED <<mousePosition, mousePacket>>
                           /\ RawMousePacket' = [RawMousePacket EXCEPT ![MouseCycle] = data]
  BY <1>1, <1>3, HandleMouseShows
<1>6. CASE MouseCycle # 2
  <2>1. MousePacketReady' = FALSE
    BY <1>5, <1>6
  <2>2. Latest' = mousePacket'
    BY <2>1 DEF Latest
  <2>3. CASE MousePacketReady
    BY <1>5, <2>1, <2>2, <2>3 DEF P!Show
  <2>4. CASE ~MousePacketReady
    <3>1. Latest = mousePacket /\ MousePacketReady' = MousePacketReady
      BY <1>2, <2>1, <2>4 DEF Latest, TypeOK
    <3> QED BY <1>5, <2>2, <3>1 DEF P!vars
  <2> QED BY <2>3, <2>4
<1>7. CASE MouseCycle = 2
  <2>1. Len(wire) = 1
    BY <1>3, <1>4, <1>7
  <2>2. /\ ~MousePacketReady /\ MousePacketReady'
        /\ mousePosition' = mousePosition /\ mousePacket' = mousePacket
        /\ RawMousePacket' = [RawMousePacket EXCEPT ![2] = data]
    <3>1. MouseCycle # 0
      BY <1>7
    <3>2. MousePacketReady'
      BY <1>5, <1>7, Zenon
    <3>3. /\ ~MousePacketReady
          /\ mousePosition' = mousePosition /\ mousePacket' = mousePacket
      BY <1>5, <3>1, Zenon
    <3>4. RawMousePacket' = [RawMousePacket EXCEPT ![2] = data]
      BY <1>5, <1>7, <3>1
    <3> QED BY <3>2, <3>3, <3>4
  <2>3. RawMousePacket \in [0 .. 2 -> Byte]
    BY <1>2 DEF TypeOK
  <2>4. RawMousePacket' \in [0 .. 2 -> Byte]
    BY <1>3, <2>2, <2>3
  <2>5. \A i \in 0 .. 2 : RawMousePacket'[i] = Encode(sending)[i + 1]
    <3>1. RawMousePacket[0] = Encode(sending)[1] /\ RawMousePacket[1] = Encode(sending)[2]
      BY <2>1 DEF PointerInv, Gathered
    <3>2. data = Encode(sending)[3]
      <4>1. 4 - Len(wire) = 3
        BY <2>1
      <4> QED BY <1>3, <4>1
    <3>3. /\ RawMousePacket'[0] = Encode(sending)[1]
          /\ RawMousePacket'[1] = Encode(sending)[2]
          /\ RawMousePacket'[2] = Encode(sending)[3]
      BY <2>2, <2>3, <3>1, <3>2
    <3>4. \A i \in 0 .. 2 : i = 0 \/ i = 1 \/ i = 2
      OBVIOUS
    <3>5. 0 + 1 = 1 /\ 1 + 1 = 2 /\ 2 + 1 = 3
      OBVIOUS
    <3> TAKE i \in 0 .. 2
    <3> QED BY <3>3, <3>4, <3>5
  <2>6. mousePosition \in [X : 0 .. Width - 1, Y : 0 .. Height - 1]
    BY <1>2 DEF TypeOK
  <2>7. mousePacket.x = mousePosition.X /\ mousePacket.y = mousePosition.Y
    BY DEF PointerInv, Shown
  <2>8. ReportOf(mousePosition, RawMousePacket') = P!Apply(mousePacket, sending)
    <3> DEFINE raw == RawMousePacket'
    <3>1. raw \in [0 .. 2 -> Byte] /\ \A i \in 0 .. 2 : raw[i] = Encode(sending)[i + 1]
      BY <2>4, <2>5
    <3> HIDE DEF raw
    <3>2. ReportOf(mousePosition, raw) = P!Apply(mousePacket, sending)
      BY <1>3, <2>6, <2>7, <3>1, ReportOfPacket
    <3> QED BY <3>2 DEF raw
  <2>9. Latest = mousePacket /\ Latest' = ReportOf(mousePosition, RawMousePacket')
    BY <2>2 DEF Latest
  <2> QED BY <2>2, <2>8, <2>9 DEF P!Complete
<1> QED BY <1>6, <1>7

(* The driver implements Pointer in every step between a first byte it     *)
(* takes for what it is and the next byte that is lost or comes astray:    *)
(* HandleMouse, ProcessMousePacket.                                        *)
THEOREM MouseImplementsPointer == Spec => PointerImplemented
<1>1. Init => P!Init
  <2> SUFFICES ASSUME Init PROVE P!Init
    OBVIOUS
  <2>1. MousePacketReady = FALSE
    BY Zenon DEF Init
  <2>2. mousePacket = NoReport /\ Latest = NoReport
    BY <2>1 DEF Init, Latest
  <2> QED BY <2>1, <2>2 DEF P!Init, P!Start, NoReport
<1>2. PointerInv /\ [Next]_vars
        => [synced /\ trouble' = trouble => [P!Next]_(P!vars)]_vars
  <2> SUFFICES ASSUME PointerInv, Next, synced, trouble' = trouble
               PROVE  P!Next \/ UNCHANGED P!vars
    OBVIOUS
  <2>0. trouble \in Nat
    BY MouseAssumption DEF PointerInv, MouseInv, TypeOK
  <2>1. ASSUME NEW move \in Moves, Send(move) PROVE UNCHANGED P!vars
    BY <2>1 DEF Send, driver, P!vars, Latest
  <2>2. CASE Deliver
    <3>1. sending \in Moves
      BY DEF PointerInv, MouseInv, TypeOK
    <3> QED BY <2>2, <3>1, DeliverImplements DEF P!Next
  <2>3. CASE Lose
    BY <2>0, <2>3 DEF Lose
  <2>4. ASSUME NEW data \in StrayBytes, Stray(data) PROVE FALSE
    BY <2>0, <2>4 DEF Stray
  <2> QED BY <2>1, <2>2, <2>3, <2>4 DEF Next
<1>3. Spec => []PointerInv
  BY PointerInvInit, PointerInvNext, PTL DEF Spec
<1> QED BY <1>1, <1>2, <1>3, PTL DEF Spec, PointerImplemented
=============================================================================
