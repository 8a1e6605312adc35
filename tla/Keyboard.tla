-------------------------------- MODULE Keyboard --------------------------------
(***************************************************************************)
(* The PS/2 keyboard driver of CorgiOS (InputOutput/UserInput/keyboard.cpp *)
(* and kbScancodeTranslation.cpp) against its device.  The device sends a  *)
(* byte per key pressed, repeated or released, after 0xE0 for the keys of  *)
(* the extended set; IRQ 1 hands them to HandleKeyboard one by one.  Bytes *)
(* may be lost on the way, and late replies of the device to set-up        *)
(* commands, or bytes of the mouse, may come among them (PS2Setup).        *)
(*                                                                         *)
(* Scancodes are the numbers they are.  A character is the scancode it     *)
(* comes from and its kind: the tables of the code say which is which.     *)
(***************************************************************************)
EXTENDS Integers, Sequences, FiniteSets

CONSTANTS
  Keys,          (* codes of the plain keys of the device                   *)
  ExtendedKeys,  (* codes of those it sends after 0xE0                      *)
  MaxDown,       (* bound: keys held at a time                              *)
  StrayBytes,    (* bytes that are not about any key                        *)
  MaxLost        (* bound: bytes lost or strayed                            *)

Code == 0 .. 127

Scancode == 0 .. 255

Extended == 224

LeftShift == 42
RightShift == 54
Ctrl == 29

(* No key's release is the byte 0xE0, and no keyboard is without these.    *)
ASSUME KeyboardAssumption ==
  /\ Keys \subseteq Code /\ ExtendedKeys \subseteq Code
  /\ Extended - 128 \notin Keys \cup ExtendedKeys
  /\ {LeftShift, RightShift, Ctrl} \subseteq Keys
  /\ StrayBytes \subseteq Scancode
  /\ MaxDown \in Nat /\ MaxLost \in Nat

(* A key of the device is its code and the set it is of.  Two keys may     *)
(* have one code: left and right Ctrl, the two Enters.                     *)
DeviceKeys == (Keys \X {"plain"}) \cup (ExtendedKeys \X {"extended"})

CapsLock == 58
Enter == 28
BackSpace == 14
Tab == 15
Spacebar == 57
LetterS == 31

(* The keys that set special_key and nothing else.                         *)
SpecialKeys ==
  {Ctrl, 56, 91, 1, 55, 70, 69, 82, 71, 73, 83, 79, 81, 72, 80, 75, 77, 99,
   87, 88} \cup (59 .. 68)

(* Where ASCIITable has letters and where other characters.                *)
Letters == (16 .. 25) \cup (30 .. 38) \cup (44 .. 50)

Symbols ==
  (2 .. 13) \cup {26, 27} \cup (39 .. 41) \cup {43} \cup (51 .. 53) \cup {55, 57}

LastOfTable == 57

NoChar == [key |-> 0, kind |-> "none"]

Blank == [key |-> Spacebar, kind |-> "plain"]

Character ==
  [key : Scancode, kind : {"none", "plain", "shifted", "lower", "upper", "control"}]

VARIABLES
  isLeftShiftPressed, isRightShiftPressed, isCapsLockActive,
  keyboardPacket,   (* ascii_key, special_key and rawStates: the codes down *)
  fluffPacket,      (* the packet fluffAPI was given last                   *)
  printed,          (* the character the last byte made the desktop print   *)
  saving,           (* it also made it print "Saving."                      *)
  tableIndex,       (* history: the element of the table read last, or the  *)
                    (* one after its end                                    *)
  wire,             (* bytes the device has yet to send                     *)
  key,              (* the key they are about                               *)
  down,             (* the keys that are down                               *)
  lost,             (* how many bytes have been lost or strayed             *)
  sure              (* history: the keys whose last byte came through, no   *)
                    (* other byte with their code having come after it      *)

flags == <<isLeftShiftPressed, isRightShiftPressed, isCapsLockActive>>
driver == <<flags, keyboardPacket, fluffPacket, printed, saving, tableIndex>>
device == <<wire, key, down, lost, sure>>
vars == <<driver, device>>

-----------------------------------------------------------------------------
(* QwertyUS::Translate *)

(* Mutant: Caps Lock only makes letters bigger.                            *)
CapitalOnly(character) ==
  IF character.kind = "lower" THEN [character EXCEPT !.kind = "upper"]
  ELSE character

Capital(character) ==
  IF character.kind = "lower" THEN [character EXCEPT !.kind = "upper"]
  ELSE IF character.kind = "upper" THEN [character EXCEPT !.kind = "lower"]
  ELSE character

(* The element of the table; `beyond' is what lies after its end.          *)
Element(scancode, shift, beyond) ==
  IF scancode > LastOfTable THEN beyond
  ELSE IF scancode \in Letters
       THEN [key |-> scancode, kind |-> IF shift THEN "upper" ELSE "lower"]
  ELSE IF scancode \in Symbols
       THEN [key |-> scancode, kind |-> IF shift THEN "shifted" ELSE "plain"]
  ELSE NoChar

(* Mutant: the check of the scancode is forgotten.                         *)
InTableUnchecked(scancode) == scancode \in Scancode

InTable(scancode) == scancode <= 58

Translate(scancode, shift, caps, beyond) ==
  IF ~InTable(scancode) THEN NoChar
  ELSE IF caps THEN Capital(Element(scancode, shift, beyond))
  ELSE Element(scancode, shift, beyond)

(* What the compiler and the linker may have put after the tables: the     *)
(* zero of padding, or a character.                                        *)
AfterTable == {NoChar, [key |-> CapsLock, kind |-> "plain"]}

-----------------------------------------------------------------------------
(* HandleKeyboard *)

Modifier(flag, code, scancode) ==
  IF scancode = code THEN TRUE
  ELSE IF scancode = code + 128 THEN FALSE
  ELSE flag

(* Mutant: the code of a release is not recognised.                        *)
RawStatesByScancode(states, scancode) ==
  IF scancode >= 128 THEN states \ {scancode} ELSE states \cup {scancode}

RawStates(states, scancode) ==
  IF scancode >= 128 THEN states \ {scancode - 128} ELSE states \cup {scancode}

(* Mutant: Ctrl is looked for in the packet's special key.                 *)
SaveHotkeyBySpecialKey(packet) ==
  /\ packet.special_key = Ctrl
  /\ packet.ascii_key = [key |-> LetterS, kind |-> "lower"]

(* Fluff::onInputKeyboard: isHotkeyComboFixed(true, false, false, 's').    *)
SaveHotkey(packet) ==
  /\ Ctrl \in packet.rawStates
  /\ packet.ascii_key = [key |-> LetterS, kind |-> "lower"]

HandleKeyboard(scancode, beyond) ==
  LET states == RawStates(keyboardPacket.rawStates, scancode)
      left == Modifier(isLeftShiftPressed, LeftShift, scancode)
      right == Modifier(isRightShiftPressed, RightShift, scancode)
      caps == IF scancode = CapsLock THEN ~isCapsLockActive ELSE isCapsLockActive
      handed == scancode \in {Enter, BackSpace, Tab, Spacebar}
      switched == [ascii_key |-> IF handed /\ scancode # Spacebar
                                 THEN [key |-> scancode, kind |-> "control"]
                                 ELSE Blank,
                   special_key |-> IF scancode \in SpecialKeys
                                   THEN scancode ELSE 0,
                   rawStates |-> states]
      ascii == Translate(scancode, left \/ right, caps, beyond)
      packet == IF ascii = NoChar THEN switched
                ELSE [switched EXCEPT !.ascii_key = ascii]
  IN  /\ isLeftShiftPressed' = left
      /\ isRightShiftPressed' = right
      /\ isCapsLockActive' = caps
      /\ keyboardPacket' = packet
      /\ fluffPacket' = IF handed \/ ascii # NoChar THEN packet ELSE fluffPacket
      /\ printed' = ascii
      /\ saving' = (ascii # NoChar /\ SaveHotkey(packet))
      /\ tableIndex' = IF InTable(scancode) THEN scancode ELSE tableIndex

-----------------------------------------------------------------------------
(* The machine *)

Init ==
  /\ isLeftShiftPressed = FALSE
  /\ isRightShiftPressed = FALSE
  /\ isCapsLockActive = FALSE
  /\ keyboardPacket = [ascii_key |-> NoChar, special_key |-> 0, rawStates |-> {}]
  /\ fluffPacket = [ascii_key |-> NoChar, special_key |-> 0, rawStates |-> {}]
  /\ printed = NoChar
  /\ saving = FALSE
  /\ tableIndex = 0
  /\ wire = <<>>
  /\ key \in DeviceKeys
  /\ down = {}
  /\ lost = 0
  /\ sure = DeviceKeys

Bytes(k, byte) == IF k[2] = "extended" THEN <<Extended, byte>> ELSE <<byte>>

Press(k) ==
  /\ wire = <<>>
  /\ k \notin down
  /\ Cardinality(down) < MaxDown
  /\ wire' = Bytes(k, k[1])
  /\ key' = k
  /\ down' = down \cup {k}
  /\ UNCHANGED <<driver, lost, sure>>

(* A key that is held is sent again and again.                             *)
Repeat ==
  /\ wire = <<>>
  /\ key \in down
  /\ wire' = Bytes(key, key[1])
  /\ UNCHANGED <<driver, key, down, lost, sure>>

Release(k) ==
  /\ wire = <<>>
  /\ k \in down
  /\ wire' = Bytes(k, k[1] + 128)
  /\ key' = k
  /\ down' = down \ {k}
  /\ UNCHANGED <<driver, lost, sure>>

(* The keys this one's release is taken for as well.                       *)
Twins(k) == {other \in DeviceKeys \ {k} : other[1] = k[1]}

Deliver ==
  /\ wire # <<>>
  /\ \E beyond \in AfterTable : HandleKeyboard(Head(wire), beyond)
  /\ wire' = Tail(wire)
  /\ sure' = IF Len(wire) > 1 THEN sure
             ELSE (sure \cup {key})
                    \ (IF key \in down THEN {} ELSE Twins(key) \cap down)
  /\ UNCHANGED <<key, down, lost>>

Lose ==
  /\ wire # <<>>
  /\ lost < MaxLost
  /\ wire' = Tail(wire)
  /\ lost' = lost + 1
  /\ sure' = IF Len(wire) = 1 THEN sure \ {key} ELSE sure
  /\ UNCHANGED <<driver, key, down>>

Stray(data) ==
  /\ lost < MaxLost
  /\ \E beyond \in AfterTable : HandleKeyboard(data, beyond)
  /\ lost' = lost + 1
  /\ sure' = {k \in sure : k[1] # data % 128}
  /\ UNCHANGED <<wire, key, down>>

Next ==
  \/ \E k \in DeviceKeys : Press(k) \/ Release(k)
  \/ Repeat
  \/ Deliver
  \/ Lose
  \/ \E data \in StrayBytes : Stray(data)

Spec == Init /\ [][Next]_vars

-----------------------------------------------------------------------------
(* Correctness *)

Packet == [ascii_key : Character, special_key : Scancode, rawStates : SUBSET Scancode]

TypeOK ==
  /\ flags \in BOOLEAN \X BOOLEAN \X BOOLEAN
  /\ keyboardPacket \in Packet
  /\ keyboardPacket.rawStates \subseteq Code
  /\ fluffPacket \in Packet
  /\ printed \in Character
  /\ saving \in BOOLEAN
  /\ tableIndex \in 0 .. CapsLock
  /\ wire \in Seq(Scancode)
  /\ key \in DeviceKeys
  /\ down \subseteq DeviceKeys /\ Cardinality(down) <= MaxDown
  /\ lost \in 0 .. MaxLost
  /\ sure \subseteq DeviceKeys

(* A code whose keys' last bytes came through is known to be down as one   *)
(* of them is, so a lost release leaves that code stuck, and releasing one *)
(* of two keys that share it hides the other, only until its next byte;    *)
(* 0xE0 and repeats disturb nothing.                                       *)
Sure(code) == \A k \in DeviceKeys : k[1] = code => k \in sure

Held(code) == \E k \in down : k[1] = code

StatesFollowKeys ==
  wire = <<>> =>
    \A code \in Keys \cup ExtendedKeys :
      Sure(code) => (code \in keyboardPacket.rawStates) = Held(code)

(* The case of a letter that is printed follows from the shift keys that   *)
(* are down and from Caps Lock.                                            *)
SureOfCase == Sure(LeftShift) /\ Sure(RightShift)

BigLetters == (Held(LeftShift) \/ Held(RightShift)) # isCapsLockActive

LetterCase ==
  [][Deliver /\ printed'.key \in Letters /\ SureOfCase
       => printed'.kind = IF BigLetters' THEN "upper" ELSE "lower"]_vars

(* "Saving." is printed for an s exactly when a Ctrl is held and the s is  *)
(* a small one: the packet the desktop compares is that of the s, while    *)
(* Ctrl was seen in an earlier one, with any keys and repeats in between.  *)
SavingByCtrlS ==
  [][Deliver /\ printed'.key = LetterS /\ SureOfCase /\ Sure(Ctrl)
       => saving' = (Held(Ctrl) /\ ~BigLetters')]_vars
=============================================================================
