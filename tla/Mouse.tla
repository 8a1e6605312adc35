--------------------------------- MODULE Mouse ---------------------------------
(***************************************************************************)
(* The PS/2 mouse driver of CorgiOS (InputOutput/UserInput/mouse.cpp)      *)
(* against its device.  The device sends packets of three bytes; IRQ 12    *)
(* hands them one by one to HandleMouse, which gathers packets, tries to   *)
(* notice when it has lost its place in the stream, and processes a whole  *)
(* packet when the first byte of the next one comes in.                    *)
(*                                                                         *)
(* Bytes are the numbers 0 .. 255 they are.  On the way a byte may be lost *)
(* (the controller's buffer is read or overrun by someone else) or a reply *)
(* of the device to a set-up command may arrive among the packets.         *)
(***************************************************************************)
EXTENDS Integers, Sequences

CONSTANTS
  Moves,       (* the movements the device may report                       *)
  StrayBytes,  (* replies to set-up commands: 0xFA, 0xAA and 0              *)
  Width,       (* corgiGL.getFramebuffer()->PixelsPerScanLine               *)
  Height,      (* corgiGL.getFramebuffer()->Height                          *)
  MaxTrouble   (* bound: bytes lost or strayed                              *)

Byte == 0 .. 255

Button == {"left", "right", "middle"}

Move == [dx : -510 .. 510, dy : -510 .. 510, buttons : SUBSET Button]

ASSUME MouseAssumption ==
  /\ Moves \subseteq Move
  /\ StrayBytes \subseteq Byte
  /\ Width \in Nat \ {0}
  /\ Height \in Nat \ {0}
  /\ MaxTrouble \in Nat

VARIABLES
  MouseCycle,        (* which byte of a packet HandleMouse expects          *)
  RawMousePacket,    (* the bytes gathered                                  *)
  MousePacketReady,  (* they are a whole packet                             *)
  mousePosition,     (* X, Y                                                *)
  mousePacket,       (* what fluffAPI was given last                        *)
  wire,              (* the bytes of its packet the device has yet to send  *)
  sending,           (* the movement those bytes belong to                  *)
  trouble,           (* how many bytes have been lost or strayed            *)
  synced,            (* history: nothing has gone wrong since the stream    *)
                     (* last gave the driver its place                      *)
  intact             (* history: the packet under way has lost no byte      *)

driver == <<MouseCycle, RawMousePacket, MousePacketReady, mousePosition,
            mousePacket>>
device == <<wire, sending, trouble, synced, intact>>
vars == <<driver, device>>

Has(byte, mask) == (byte \div mask) % 2 = 1

InSync(byte) == Has(byte, 8)

-----------------------------------------------------------------------------
(* The device: the bytes of a packet.  The overflow bit stands for 255     *)
(* counts on top of those in the byte.                                     *)

Abs(d) == IF d < 0 THEN -d ELSE d

Counts(d) == IF Abs(d) > 255 THEN Abs(d) - 255 ELSE Abs(d)

MovementByte(d) == IF d < 0 THEN 256 - Counts(d) ELSE Counts(d)

Flag(condition, mask) == IF condition THEN mask ELSE 0

Encode(move) ==
  << 8 + Flag("left" \in move.buttons, 1) + Flag("right" \in move.buttons, 2)
       + Flag("middle" \in move.buttons, 4)
       + Flag(move.dx < 0, 16) + Flag(move.dy < 0, 32)
       + Flag(Abs(move.dx) > 255, 64) + Flag(Abs(move.dy) > 255, 128),
     MovementByte(move.dx), MovementByte(move.dy) >>

(* A packet whose movement bytes cannot be taken for a first byte.         *)
Quiet(move) ==
  ~InSync(MovementByte(move.dx)) /\ ~InSync(MovementByte(move.dy))

-----------------------------------------------------------------------------
(* The driver *)

Clamp(n, limit) == IF n < 0 THEN 0 ELSE IF n > limit - 1 THEN limit - 1 ELSE n

(* Mutant: what is stored back does not fit in a byte.                     *)
MagnitudeUnwrapped(byte, negative) == IF negative THEN 256 - byte ELSE byte

(* 256 - RawMousePacket[i], stored back in a byte.                         *)
Magnitude(byte, negative) == IF negative THEN (256 - byte) % 256 ELSE byte

Distance(byte, negative, overflow) ==
  LET d == Magnitude(byte, negative) + Flag(overflow, 255)
  IN  IF negative THEN -d ELSE d

(* Mutant: the overflow bits of X and Y are swapped.                       *)
MovedSwappingOverflow(position, raw) ==
  LET first == raw[0]
  IN  [X |-> Clamp(position.X
                     + Distance(raw[1], Has(first, 16), Has(first, 128)), Width),
       Y |-> Clamp(position.Y
                     - Distance(raw[2], Has(first, 32), Has(first, 64)), Height)]

(* The position after the packet raw.                                      *)
Moved(position, raw) ==
  LET first == raw[0]
  IN  [X |-> Clamp(position.X
                     + Distance(raw[1], Has(first, 16), Has(first, 64)), Width),
       Y |-> Clamp(position.Y
                     - Distance(raw[2], Has(first, 32), Has(first, 128)), Height)]

Pressed(first) ==
  (IF Has(first, 1) THEN {"left"} ELSE {})
    \cup (IF Has(first, 2) THEN {"right"} ELSE {})
    \cup (IF Has(first, 4) THEN {"middle"} ELSE {})

(* Negative movements are turned into magnitudes in the packet itself.     *)
Consumed(raw) ==
  [raw EXCEPT ![1] = Magnitude(@, Has(raw[0], 16)),
              ![2] = Magnitude(@, Has(raw[0], 32))]

(* What the desktop is told after the packet raw.                          *)
ReportOf(position, raw) ==
  LET moved == Moved(position, raw)
  IN  [x |-> moved.X, y |-> moved.Y, buttons |-> Pressed(raw[0])]

(* ProcessMousePacket: the position and the desktop's API, and what it     *)
(* leaves in the packet.                                                   *)
ProcessMousePacket ==
  IF MousePacketReady
  THEN /\ mousePosition' = Moved(mousePosition, RawMousePacket)
       /\ mousePacket' = ReportOf(mousePosition, RawMousePacket)
  ELSE UNCHANGED <<mousePosition, mousePacket>>

RawAfterProcessing ==
  IF MousePacketReady THEN Consumed(RawMousePacket) ELSE RawMousePacket

(* Mutant: a byte that is out of sync is not skipped.                      *)
AcceptedAlways(data) == MouseCycle \in 0 .. 2 \/ InSync(data)

Accepted(data) == MouseCycle # 0 \/ InSync(data)

(* HandleMouse processes the packet that is ready, then takes the byte.    *)
(* MouseCycle is never past 2, so its default branch is not reached.       *)
HandleMouse(data) ==
  /\ ProcessMousePacket
  /\ MousePacketReady' = (MouseCycle = 2)
  /\ RawMousePacket' = IF Accepted(data)
                       THEN [RawAfterProcessing EXCEPT ![MouseCycle] = data]
                       ELSE RawAfterProcessing
  /\ MouseCycle' = IF Accepted(data) THEN (MouseCycle + 1) % 3 ELSE 0

-----------------------------------------------------------------------------
(* The machine *)

NoReport == [x |-> 0, y |-> 0, buttons |-> {}]

Init ==
  /\ MouseCycle = 0
  /\ RawMousePacket = [i \in 0 .. 2 |-> 0]
  /\ MousePacketReady = FALSE
  /\ mousePosition = [X |-> 0, Y |-> 0]
  /\ mousePacket = NoReport
  /\ wire = <<>>
  /\ sending \in Moves
  /\ trouble = 0
  /\ synced = TRUE
  /\ intact = TRUE

Send(move) ==
  /\ wire = <<>>
  /\ wire' = Encode(move)
  /\ sending' = move
  /\ intact' = TRUE
  /\ UNCHANGED <<driver, trouble, synced>>

Deliver ==
  /\ wire # <<>>
  /\ HandleMouse(Head(wire))
  /\ wire' = Tail(wire)
  /\ synced' = (synced \/ (Len(wire) = 1 /\ intact /\ Quiet(sending)))
  /\ UNCHANGED <<sending, trouble, intact>>

Lose ==
  /\ wire # <<>>
  /\ trouble < MaxTrouble
  /\ wire' = Tail(wire)
  /\ trouble' = trouble + 1
  /\ synced' = FALSE
  /\ intact' = FALSE
  /\ UNCHANGED <<driver, sending>>

Stray(data) ==
  /\ trouble < MaxTrouble
  /\ HandleMouse(data)
  /\ trouble' = trouble + 1
  /\ synced' = FALSE
  /\ intact' = FALSE
  /\ UNCHANGED <<wire, sending>>

Next ==
  \/ \E move \in Moves : Send(move)
  \/ Deliver
  \/ Lose
  \/ \E data \in StrayBytes : Stray(data)

Spec == Init /\ [][Next]_vars

-----------------------------------------------------------------------------
(* Correctness *)

Report == [x : 0 .. Width - 1, y : 0 .. Height - 1, buttons : SUBSET Button]

(* The types; the position and what the desktop is told are on the screen. *)
TypeOK ==
  /\ MouseCycle \in 0 .. 2
  /\ RawMousePacket \in [0 .. 2 -> Byte]
  /\ MousePacketReady \in BOOLEAN
  /\ mousePosition \in [X : 0 .. Width - 1, Y : 0 .. Height - 1]
  /\ mousePacket \in Report
  /\ wire \in Seq(Byte) /\ Len(wire) <= 3
  /\ sending \in Moves
  /\ trouble \in 0 .. MaxTrouble
  /\ synced \in BOOLEAN
  /\ intact \in BOOLEAN

Aligned == MouseCycle = (3 - Len(wire)) % 3

(* The out-of-sync check works: one whole packet whose movement bytes have *)
(* bit 3 clear gives the driver its place again, whatever was lost or came *)
(* astray before, and from then on every byte is taken for what it is      *)
(* until the next trouble.                                                 *)
SyncedMeansAligned == synced => Aligned

(* While it has its place, from the start or after finding it again, the   *)
(* driver implements Pointer: every movement, negative and overflowing     *)
(* ones included, is applied once, in order, clamped to the screen, and    *)
(* shown before the next is complete.                                      *)
Latest ==
  IF MousePacketReady THEN ReportOf(mousePosition, RawMousePacket)
  ELSE mousePacket

P == INSTANCE Pointer
       WITH latest <- Latest, pending <- MousePacketReady, shown <- mousePacket

PointerImplemented ==
  P!Init /\ [][synced /\ trouble' = trouble => [P!Next]_(P!vars)]_vars
=============================================================================
