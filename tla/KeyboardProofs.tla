----------------------------- MODULE KeyboardProofs -----------------------------
(***************************************************************************)
(* Proofs about the keyboard driver: its types, that it knows which keys   *)
(* are down, and what follows for the case of letters and for the Ctrl-s   *)
(* hot key, for every set of keys and stray bytes and any amount of        *)
(* trouble on the line.                                                    *)
(***************************************************************************)
EXTENDS Keyboard, FiniteSetTheorems, TLAPS

(* The byte that says of the key what has become of it.                    *)
LastByte == IF key \in down THEN key[1] ELSE key[1] + 128

(* What is on the wire are the last bytes about the key.                   *)
WireIsTheRest == wire \in {<<>>, <<LastByte>>, <<Extended, LastByte>>}

(* StatesFollowKeys for the codes that nothing on the wire is about.       *)
Settled(code) == wire = <<>> \/ code # key[1]

SettledStatesFollow ==
  \A code \in Keys \cup ExtendedKeys :
    Settled(code) /\ Sure(code) => (code \in keyboardPacket.rawStates) = Held(code)

(* The flags of the shift keys say what rawStates say.                     *)
FlagsFollowStates ==
  /\ isLeftShiftPressed = (LeftShift \in keyboardPacket.rawStates)
  /\ isRightShiftPressed = (RightShift \in keyboardPacket.rawStates)

KeyboardInv ==
  /\ TypeOK
  /\ IsFiniteSet(down)
  /\ WireIsTheRest
  /\ SettledStatesFollow
  /\ FlagsFollowStates

-----------------------------------------------------------------------------
(* The bytes of the device and what the driver makes of a byte             *)

LEMMA KeyCodes ==
  ASSUME NEW k \in DeviceKeys
  PROVE  /\ k[1] \in Code /\ k[1] \in Keys \cup ExtendedKeys
         /\ k[1] # 96
         /\ k[1] \in Scancode /\ k[1] + 128 \in Scancode
<1>1. k[1] \in Keys \cup ExtendedKeys
  BY DEF DeviceKeys
<1>2. k[1] \in 0 .. 127 /\ k[1] # 224 - 128
  BY <1>1, KeyboardAssumption DEF Code, Extended
<1> QED BY <1>1, <1>2 DEF Code, Scancode

LEMMA BytesType ==
  ASSUME NEW k, NEW byte \in Scancode
  PROVE  Bytes(k, byte) \in Seq(Scancode)
<1>1. Extended \in Scancode
  BY DEF Extended, Scancode
<1>2. <<byte>> \in Seq(Scancode) /\ <<Extended, byte>> \in Seq(Scancode)
  BY <1>1
<1> QED BY <1>2 DEF Bytes

LEMMA CharacterTypes ==
  /\ NoChar \in Character /\ Blank \in Character
  /\ \A scancode \in Scancode :
       [key |-> scancode, kind |-> "control"] \in Character
BY DEF NoChar, Blank, Character, Scancode, Spacebar

LEMMA TranslateType ==
  ASSUME NEW scancode \in Scancode, NEW shift \in BOOLEAN, NEW caps \in BOOLEAN,
         NEW beyond \in AfterTable
  PROVE  Translate(scancode, shift, caps, beyond) \in Character
<1>1. beyond \in Character
  BY DEF AfterTable, NoChar, Character, CapsLock, Scancode
<1>2. Element(scancode, shift, beyond) \in Character
  BY <1>1, CharacterTypes DEF Element, Character
<1>3. ASSUME NEW c \in Character PROVE Capital(c) \in Character
  BY DEF Capital, Character
<1> QED BY <1>2, <1>3, CharacterTypes DEF Translate

(* A letter is that of its scancode, and big when just one of shift and    *)
(* Caps Lock is on.                                                        *)
LEMMA TranslateLetter ==
  ASSUME NEW scancode \in Scancode, NEW shift \in BOOLEAN, NEW caps \in BOOLEAN,
         NEW beyond \in AfterTable,
         Translate(scancode, shift, caps, beyond).key \in Letters
  PROVE  /\ scancode \in Letters
         /\ Translate(scancode, shift, caps, beyond)
              = [key |-> scancode,
                 kind |-> IF shift # caps THEN "upper" ELSE "lower"]
<1>1. beyond.key \notin Letters /\ NoChar.key \notin Letters
  BY DEF AfterTable, NoChar, CapsLock, Letters
<1>2. ASSUME NEW c \in {beyond, NoChar} PROVE Capital(c) = c
  BY DEF Capital, AfterTable, NoChar
<1>3. CASE scancode \notin Letters
  <2>1. Element(scancode, shift, beyond)
          \in {beyond, NoChar, [key |-> scancode, kind |-> "shifted"],
               [key |-> scancode, kind |-> "plain"]}
    BY <1>3 DEF Element
  <2>2. ASSUME NEW kind \in {"shifted", "plain"}
        PROVE  LET c == [key |-> scancode, kind |-> kind]
               IN  Capital(c) = c /\ c.key \notin Letters
    BY <1>3 DEF Capital
  <2> QED BY <2>1, <2>2, <1>1, <1>2 DEF Translate
<1>4. CASE scancode \in Letters
  <2>1. scancode <= LastOfTable /\ InTable(scancode)
    BY <1>4 DEF Letters, LastOfTable, InTable
  <2>2. Element(scancode, shift, beyond)
          = [key |-> scancode, kind |-> IF shift THEN "upper" ELSE "lower"]
    BY <1>4, <2>1 DEF Element, Scancode, LastOfTable
  <2> QED BY <1>4, <2>1, <2>2 DEF Translate, Capital
<1> QED BY <1>3, <1>4

(* One byte, in terms of the codes that are down.                          *)
LEMMA HandleKeyboardStep ==
  ASSUME TypeOK, FlagsFollowStates,
         NEW scancode \in Scancode, NEW beyond \in AfterTable,
         HandleKeyboard(scancode, beyond)
  PROVE  /\ flags' \in BOOLEAN \X BOOLEAN \X BOOLEAN
         /\ keyboardPacket' \in Packet /\ keyboardPacket'.rawStates \subseteq Code
         /\ keyboardPacket'.rawStates = RawStates(keyboardPacket.rawStates, scancode)
         /\ fluffPacket' \in Packet
         /\ printed' = Translate(scancode, isLeftShiftPressed' \/ isRightShiftPressed',
                                 isCapsLockActive', beyond)
         /\ printed' \in Character
         /\ saving' = (printed' # NoChar /\ SaveHotkey(keyboardPacket'))
         /\ printed' # NoChar => keyboardPacket'.ascii_key = printed'
         /\ tableIndex' \in 0 .. CapsLock
         /\ FlagsFollowStates'
<1> DEFINE states == RawStates(keyboardPacket.rawStates, scancode)
           left == Modifier(isLeftShiftPressed, LeftShift, scancode)
           right == Modifier(isRightShiftPressed, RightShift, scancode)
           caps == IF scancode = CapsLock THEN ~isCapsLockActive ELSE isCapsLockActive
           handed == scancode \in {Enter, BackSpace, Tab, Spacebar}
           switched == [ascii_key |-> IF handed /\ scancode # Spacebar
                                      THEN [key |-> scancode, kind |-> "control"]
                                      ELSE Blank,
                        special_key |-> IF scancode \in SpecialKeys
                                        THEN scancode ELSE 0,
                        rawStates |-> states]
           ascii == Translate(scancode, left \/ right, caps, beyond)
           packet == IF ascii = NoChar THEN switched
                     ELSE [switched EXCEPT !.ascii_key = ascii]
<1>1. /\ isLeftShiftPressed' = left /\ isRightShiftPressed' = right
      /\ isCapsLockActive' = caps
      /\ keyboardPacket' = packet
      /\ fluffPacket' = IF handed \/ ascii # NoChar THEN packet ELSE fluffPacket
      /\ printed' = ascii
      /\ saving' = (ascii # NoChar /\ SaveHotkey(packet))
      /\ tableIndex' = IF InTable(scancode) THEN scancode ELSE tableIndex
  BY DEF HandleKeyboard
<1>2. /\ isLeftShiftPressed \in BOOLEAN /\ isRightShiftPressed \in BOOLEAN
      /\ isCapsLockActive \in BOOLEAN
      /\ keyboardPacket.rawStates \subseteq Code
  BY DEF TypeOK, flags
<1>3. left \in BOOLEAN /\ right \in BOOLEAN /\ caps \in BOOLEAN
  BY <1>2 DEF Modifier
<1>4. states \subseteq Code /\ states \in SUBSET Scancode
  BY <1>2 DEF RawStates, Code, Scancode
<1>5. ascii \in Character
  BY <1>3, TranslateType
<1>6. switched \in Packet
  <2>1. (IF handed /\ scancode # Spacebar
         THEN [key |-> scancode, kind |-> "control"] ELSE Blank) \in Character
    BY CharacterTypes
  <2>2. (IF scancode \in SpecialKeys THEN scancode ELSE 0) \in Scancode
    BY DEF Scancode
  <2> HIDE DEF states
  <2> QED BY <1>4, <2>1, <2>2 DEF Packet
<1>7. packet \in Packet /\ packet.rawStates = states
      /\ (ascii # NoChar => packet.ascii_key = ascii)
  <2> HIDE DEF ascii
  <2>1. switched.rawStates = states
    OBVIOUS
  <2> HIDE DEF switched
  <2> QED BY <1>5, <1>6, <2>1 DEF Packet
<1>8. tableIndex' \in 0 .. CapsLock
  <2>1. tableIndex' = IF InTable(scancode) THEN scancode ELSE tableIndex
    BY <1>1
  <2>2. tableIndex \in 0 .. 58
    BY DEF TypeOK, CapsLock
  <2> QED BY <2>1, <2>2 DEF InTable, Scancode, CapsLock
<1>9. /\ left = (LeftShift \in states)
      /\ right = (RightShift \in states)
  <2>1. /\ isLeftShiftPressed = (LeftShift \in keyboardPacket.rawStates)
        /\ isRightShiftPressed = (RightShift \in keyboardPacket.rawStates)
    BY DEF FlagsFollowStates
  <2>2. ASSUME NEW code \in {LeftShift, RightShift}, NEW flag \in BOOLEAN,
               flag = (code \in keyboardPacket.rawStates)
        PROVE  Modifier(flag, code, scancode) = (code \in states)
    <3>1. code \in 0 .. 127 /\ scancode \in 0 .. 255
      BY DEF LeftShift, RightShift, Scancode
    <3>2. CASE scancode = code
      <4>1. Modifier(flag, code, scancode) = TRUE
        BY <3>2 DEF Modifier
      <4>2. code \in states
        BY <3>1, <3>2 DEF RawStates
      <4> QED BY <4>1, <4>2
    <3>3. CASE scancode = code + 128
      <4>1. Modifier(flag, code, scancode) = FALSE
        BY <3>1, <3>3 DEF Modifier
      <4>2. (code \in states) = FALSE
        BY <3>1, <3>3 DEF RawStates
      <4> QED BY <4>1, <4>2, Zenon
    <3>4. CASE scancode # code /\ scancode # code + 128
      <4>1. Modifier(flag, code, scancode) = flag
        BY <3>4 DEF Modifier
      <4>2. (code \in states) = (code \in keyboardPacket.rawStates)
        BY <3>1, <3>4 DEF RawStates
      <4> QED BY <4>1, <4>2, <2>2
    <3> QED BY <3>2, <3>3, <3>4
  <2> QED BY <1>2, <2>1, <2>2
<1>10. FlagsFollowStates'
  BY <1>1, <1>7, <1>9 DEF FlagsFollowStates
<1>11. fluffPacket' \in Packet
  BY <1>1, <1>7 DEF TypeOK
<1>12. flags' \in BOOLEAN \X BOOLEAN \X BOOLEAN
  BY <1>1, <1>3 DEF flags
<1> HIDE DEF states, left, right, caps, switched, ascii, packet
<1>13. ascii = Translate(scancode, isLeftShiftPressed' \/ isRightShiftPressed',
                         isCapsLockActive', beyond)
  BY <1>1 DEF ascii
<1>14. keyboardPacket'.rawStates = RawStates(keyboardPacket.rawStates, scancode)
  BY <1>1, <1>7 DEF states
<1> QED BY <1>1, <1>4, <1>5, <1>7, <1>8, <1>10, <1>11, <1>12, <1>13, <1>14
           DEF states

-----------------------------------------------------------------------------
(* The invariant *)

LEMMA InitEstablishes == Init => KeyboardInv
<1> SUFFICES ASSUME Init PROVE KeyboardInv
  OBVIOUS
<1>1. IsFiniteSet(down) /\ Cardinality(down) <= MaxDown
  BY FS_EmptySet, KeyboardAssumption DEF Init
<1>2. [ascii_key |-> NoChar, special_key |-> 0, rawStates |-> {}] \in Packet
  BY CharacterTypes DEF Packet, Scancode
<1>3. keyboardPacket.rawStates = {}
  BY DEF Init
<1>4. flags \in BOOLEAN \X BOOLEAN \X BOOLEAN
  BY DEF Init, flags
<1>5. TypeOK
  <2>1. /\ keyboardPacket \in Packet /\ fluffPacket \in Packet
        /\ printed \in Character
    BY <1>2, CharacterTypes DEF Init
  <2>2. saving \in BOOLEAN /\ tableIndex \in 0 .. CapsLock /\ lost \in 0 .. MaxLost
    <3>1. saving = FALSE /\ tableIndex = 0 /\ lost = 0
      BY DEF Init
    <3>2. MaxLost \in Nat
      BY KeyboardAssumption
    <3>3. tableIndex \in 0 .. CapsLock /\ lost \in 0 .. MaxLost
      BY <3>1, <3>2 DEF CapsLock
    <3> QED BY <3>1, <3>3
  <2>3. /\ wire \in Seq(Scancode) /\ key \in DeviceKeys
        /\ down \subseteq DeviceKeys /\ sure \subseteq DeviceKeys
    BY DEF Init
  <2> QED BY <1>1, <1>3, <1>4, <2>1, <2>2, <2>3 DEF TypeOK
<1>6. WireIsTheRest
  BY DEF Init, WireIsTheRest
<1>7. FlagsFollowStates
  <2>1. isLeftShiftPressed = FALSE /\ isRightShiftPressed = FALSE
    BY DEF Init
  <2>2. \A code : (code \in keyboardPacket.rawStates) = FALSE
    BY <1>3
  <2> QED BY <2>1, <2>2, Zenon DEF FlagsFollowStates
<1>8. SettledStatesFollow
  <2>1. \A code : Held(code) = FALSE
    BY DEF Init, Held
  <2>2. \A code : (code \in keyboardPacket.rawStates) = FALSE
    BY <1>3
  <2> QED BY <2>1, <2>2, Zenon DEF SettledStatesFollow
<1> QED BY <1>1, <1>5, <1>6, <1>7, <1>8 DEF KeyboardInv

(* A key that is not the one a code belongs to says nothing of the code.   *)
LEMMA HeldOfOthers ==
  ASSUME NEW code, NEW k, k[1] # code, down' = down \cup {k} \/ down' = down \ {k}
  PROVE  Held(code)' = Held(code)
BY DEF Held

LEMMA PressPreserves ==
  ASSUME KeyboardInv, NEW k \in DeviceKeys, Press(k)
  PROVE  KeyboardInv'
<1>1. /\ wire = <<>> /\ wire' = Bytes(k, k[1]) /\ key' = k
      /\ down' = down \cup {k} /\ k \notin down /\ Cardinality(down) < MaxDown
      /\ UNCHANGED <<driver, lost, sure>>
  BY DEF Press
<1>2. IsFiniteSet(down') /\ Cardinality(down') <= MaxDown
  <2>1. IsFiniteSet(down)
    BY DEF KeyboardInv
  <2>2. /\ IsFiniteSet(down \cup {k})
        /\ Cardinality(down \cup {k}) = Cardinality(down) + 1
    BY <1>1, <2>1, FS_AddElement
  <2>3. Cardinality(down) \in Nat
    BY <2>1, FS_CardinalityType
  <2> QED BY <1>1, <2>2, <2>3, KeyboardAssumption
<1>3. wire' \in Seq(Scancode)
  BY <1>1, BytesType, KeyCodes
<1>4. TypeOK'
  BY <1>1, <1>2, <1>3 DEF KeyboardInv, TypeOK, driver, flags
<1>5. WireIsTheRest'
  BY <1>1 DEF WireIsTheRest, LastByte, Bytes
<1>6. FlagsFollowStates'
  BY <1>1 DEF KeyboardInv, FlagsFollowStates, driver, flags
<1>7. SettledStatesFollow'
  <2> SUFFICES ASSUME NEW code \in Keys \cup ExtendedKeys,
                      Settled(code)', Sure(code)'
               PROVE  (code \in keyboardPacket'.rawStates) = Held(code)'
    BY DEF SettledStatesFollow
  <2>1. wire' # <<>>
    BY <1>1 DEF Bytes
  <2>2. code # k[1]
    BY <1>1, <2>1 DEF Settled
  <2>3. (code \in keyboardPacket.rawStates) = Held(code)
    BY <1>1 DEF KeyboardInv, SettledStatesFollow, Settled, Sure
  <2> QED BY <1>1, <2>2, <2>3, HeldOfOthers DEF driver
<1> QED BY <1>2, <1>4, <1>5, <1>6, <1>7 DEF KeyboardInv

LEMMA ReleasePreserves ==
  ASSUME KeyboardInv, NEW k \in DeviceKeys, Release(k)
  PROVE  KeyboardInv'
<1>1. /\ wire = <<>> /\ wire' = Bytes(k, k[1] + 128) /\ key' = k
      /\ down' = down \ {k} /\ k \in down
      /\ UNCHANGED <<driver, lost, sure>>
  BY DEF Release
<1>2. IsFiniteSet(down') /\ Cardinality(down') <= MaxDown
  <2>1. IsFiniteSet(down) /\ Cardinality(down) <= MaxDown
    BY DEF KeyboardInv, TypeOK
  <2>2. /\ IsFiniteSet(down \ {k})
        /\ Cardinality(down \ {k}) = Cardinality(down) - 1
    BY <1>1, <2>1, FS_RemoveElement
  <2>3. Cardinality(down) \in Nat
    BY <2>1, FS_CardinalityType
  <2> QED BY <1>1, <2>1, <2>2, <2>3, KeyboardAssumption
<1>3. wire' \in Seq(Scancode)
  BY <1>1, BytesType, KeyCodes
<1>4. TypeOK'
  BY <1>1, <1>2, <1>3 DEF KeyboardInv, TypeOK, driver, flags
<1>5. WireIsTheRest'
  BY <1>1 DEF WireIsTheRest, LastByte, Bytes
<1>6. FlagsFollowStates'
  BY <1>1 DEF KeyboardInv, FlagsFollowStates, driver, flags
<1>7. SettledStatesFollow'
  <2> SUFFICES ASSUME NEW code \in Keys \cup ExtendedKeys,
                      Settled(code)', Sure(code)'
               PROVE  (code \in keyboardPacket'.rawStates) = Held(code)'
    BY DEF SettledStatesFollow
  <2>1. wire' # <<>>
    BY <1>1 DEF Bytes
  <2>2. code # k[1]
    BY <1>1, <2>1 DEF Settled
  <2>3. (code \in keyboardPacket.rawStates) = Held(code)
    BY <1>1 DEF KeyboardInv, SettledStatesFollow, Settled, Sure
  <2> QED BY <1>1, <2>2, <2>3, HeldOfOthers DEF driver
<1> QED BY <1>2, <1>4, <1>5, <1>6, <1>7 DEF KeyboardInv

LEMMA RepeatPreserves ==
  ASSUME KeyboardInv, Repeat
  PROVE  KeyboardInv'
<1>1. /\ wire = <<>> /\ key \in down /\ wire' = Bytes(key, key[1])
      /\ UNCHANGED <<driver, key, down, lost, sure>>
  BY DEF Repeat
<1>2. key \in DeviceKeys /\ wire' \in Seq(Scancode)
  BY <1>1, BytesType, KeyCodes DEF KeyboardInv, TypeOK
<1>3. TypeOK'
  BY <1>1, <1>2 DEF KeyboardInv, TypeOK, driver, flags
<1>4. WireIsTheRest' /\ IsFiniteSet(down')
  BY <1>1 DEF WireIsTheRest, LastByte, Bytes, KeyboardInv
<1>5. FlagsFollowStates'
  BY <1>1 DEF KeyboardInv, FlagsFollowStates, driver, flags
<1>6. SettledStatesFollow'
  BY <1>1 DEF KeyboardInv, SettledStatesFollow, Settled, Sure, Held, driver
<1> QED BY <1>3, <1>4, <1>5, <1>6 DEF KeyboardInv

(* A byte the driver takes changes what it knows of the byte's own code.   *)
LEMMA OtherCodes ==
  ASSUME NEW scancode \in Scancode, NEW states, NEW code \in Code,
         code # scancode % 128
  PROVE  (code \in RawStates(states, scancode)) = (code \in states)
<1>1. scancode \in 0 .. 255 /\ code \in 0 .. 127
  BY DEF Scancode, Code
<1>2. CASE scancode >= 128
  <2>1. scancode % 128 = scancode - 128
    BY <1>1, <1>2
  <2> QED BY <1>2, <2>1 DEF RawStates
<1>3. CASE ~(scancode >= 128)
  <2>1. scancode % 128 = scancode
    BY <1>1, <1>3
  <2> QED BY <1>3, <2>1 DEF RawStates
<1> QED BY <1>2, <1>3

LEMMA DeliverPreserves ==
  ASSUME KeyboardInv, Deliver
  PROVE  KeyboardInv'
<1> DEFINE scancode == Head(wire)
           gone == IF key \in down THEN {} ELSE Twins(key) \cap down
<1>1. PICK beyond \in AfterTable : HandleKeyboard(scancode, beyond)
  BY DEF Deliver
<1>2. /\ wire # <<>> /\ wire' = Tail(wire)
      /\ sure' = IF Len(wire) > 1 THEN sure ELSE (sure \cup {key}) \ gone
      /\ UNCHANGED <<key, down, lost>>
  BY DEF Deliver
<1>3. key \in DeviceKeys /\ down \subseteq DeviceKeys /\ sure \subseteq DeviceKeys
      /\ wire \in Seq(Scancode) /\ IsFiniteSet(down)
  BY DEF KeyboardInv, TypeOK
<1>4. scancode \in Scancode /\ wire' \in Seq(Scancode)
  BY <1>2, <1>3
<1>5. /\ flags' \in BOOLEAN \X BOOLEAN \X BOOLEAN
      /\ keyboardPacket' \in Packet /\ keyboardPacket'.rawStates \subseteq Code
      /\ keyboardPacket'.rawStates = RawStates(keyboardPacket.rawStates, scancode)
      /\ fluffPacket' \in Packet
      /\ printed' \in Character
      /\ saving' \in BOOLEAN
      /\ tableIndex' \in 0 .. CapsLock
      /\ FlagsFollowStates'
  BY <1>1, <1>4, HandleKeyboardStep DEF KeyboardInv
<1>6. TypeOK'
  BY <1>2, <1>3, <1>4, <1>5 DEF KeyboardInv, TypeOK
<1>7. CASE wire = <<Extended, LastByte>>
  <2>1. scancode = 224 /\ wire' = <<LastByte>> /\ sure' = sure
    BY <1>2, <1>7 DEF Extended
  <2>2. WireIsTheRest'
    BY <1>2, <2>1 DEF WireIsTheRest, LastByte
  <2>3. SettledStatesFollow'
    <3> SUFFICES ASSUME NEW code \in Keys \cup ExtendedKeys,
                        Settled(code)', Sure(code)'
                 PROVE  (code \in keyboardPacket'.rawStates) = Held(code)'
      BY DEF SettledStatesFollow
    <3>1. wire' # <<>>
      BY <2>1
    <3>2. Settled(code) /\ Sure(code) /\ Held(code)' = Held(code)
      BY <1>2, <2>1, <3>1 DEF Settled, Sure, Held
    <3>3. code \in Code /\ code # scancode % 128
      BY <2>1, KeyboardAssumption DEF Extended
    <3>4. (code \in keyboardPacket'.rawStates) = (code \in keyboardPacket.rawStates)
      BY <1>4, <1>5, <3>3, OtherCodes
    <3> QED BY <3>2, <3>4 DEF KeyboardInv, SettledStatesFollow
  <2> QED BY <1>2, <1>3, <1>5, <1>6, <2>2, <2>3 DEF KeyboardInv
<1>8. CASE wire = <<LastByte>>
  <2>1. scancode = LastByte /\ wire' = <<>> /\ sure' = (sure \cup {key}) \ gone
    BY <1>2, <1>8
  <2>2. WireIsTheRest'
    BY <2>1 DEF WireIsTheRest
  <2>3. key[1] \in 0 .. 127 /\ scancode % 128 = key[1]
    <3>1. key[1] \in 0 .. 127
      BY <1>3, KeyCodes DEF Code
    <3>2. scancode \in {key[1], key[1] + 128}
      BY <2>1 DEF LastByte
    <3> HIDE DEF scancode
    <3> QED BY <3>1, <3>2
  <2>4. SettledStatesFollow'
    <3> SUFFICES ASSUME NEW code \in Keys \cup ExtendedKeys, Sure(code)'
                 PROVE  (code \in keyboardPacket'.rawStates) = Held(code)'
      BY DEF SettledStatesFollow
    <3>0. Held(code)' = Held(code)
      BY <1>2 DEF Held
    <3>1. CASE code # key[1]
      <4>1. Settled(code)
        BY <3>1 DEF Settled
      <4>2. Sure(code)
        BY <2>1, <3>1 DEF Sure
      <4>3. code \in Code /\ code # scancode % 128
        BY <2>3, <3>1, KeyboardAssumption
      <4>4. (code \in keyboardPacket'.rawStates) = (code \in keyboardPacket.rawStates)
        BY <1>4, <1>5, <4>3, OtherCodes
      <4> QED BY <3>0, <4>1, <4>2, <4>4 DEF KeyboardInv, SettledStatesFollow
    <3>2. CASE code = key[1] /\ key \in down
      <4>1. scancode = code
        BY <2>1, <3>2 DEF LastByte
      <4>2. (code \in keyboardPacket'.rawStates) = TRUE
        BY <1>5, <2>3, <3>2, <4>1 DEF RawStates
      <4>3. Held(code) = TRUE
        BY <3>2 DEF Held
      <4> QED BY <3>0, <4>2, <4>3
    <3>3. CASE code = key[1] /\ key \notin down
      <4>1. scancode = code + 128
        BY <2>1, <3>3 DEF LastByte
      <4>2. (code \in keyboardPacket'.rawStates) = FALSE
        BY <1>5, <2>3, <3>3, <4>1 DEF RawStates
      <4>3. ASSUME NEW other \in down, other[1] = code PROVE FALSE
        <5>1. other \in gone
          BY <1>3, <3>3, <4>3 DEF Twins
        <5>2. other \in sure'
          BY <1>3, <4>3 DEF Sure
        <5> QED BY <2>1, <5>1, <5>2
      <4>4. Held(code) = FALSE
        BY <4>3 DEF Held
      <4> QED BY <3>0, <4>2, <4>4
    <3> QED BY <3>1, <3>2, <3>3
  <2> QED BY <1>2, <1>3, <1>5, <1>6, <2>2, <2>4 DEF KeyboardInv
<1> QED BY <1>2, <1>7, <1>8 DEF KeyboardInv, WireIsTheRest

LEMMA LosePreserves ==
  ASSUME KeyboardInv, Lose
  PROVE  KeyboardInv'
<1>1. /\ wire # <<>> /\ wire' = Tail(wire)
      /\ lost < MaxLost /\ lost' = lost + 1
      /\ sure' = IF Len(wire) = 1 THEN sure \ {key} ELSE sure
      /\ UNCHANGED <<driver, key, down>>
  BY DEF Lose
<1>2. wire' \in Seq(Scancode) /\ lost' \in 0 .. MaxLost /\ sure' \subseteq DeviceKeys
  <2>1. /\ wire \in Seq(Scancode) /\ lost \in 0 .. MaxLost
        /\ sure \subseteq DeviceKeys
    BY DEF KeyboardInv, TypeOK
  <2>2. MaxLost \in Nat
    BY KeyboardAssumption
  <2> QED BY <1>1, <2>1, <2>2
<1>3. TypeOK'
  BY <1>1, <1>2 DEF KeyboardInv, TypeOK, driver, flags
<1>4. FlagsFollowStates' /\ IsFiniteSet(down')
  BY <1>1 DEF KeyboardInv, FlagsFollowStates, driver, flags
<1>5. CASE wire = <<Extended, LastByte>>
  <2>1. wire' = <<LastByte>> /\ sure' = sure
    BY <1>1, <1>5
  <2>2. WireIsTheRest'
    BY <1>1, <2>1 DEF WireIsTheRest, LastByte
  <2>3. SettledStatesFollow'
    <3> SUFFICES ASSUME NEW code \in Keys \cup ExtendedKeys,
                        Settled(code)', Sure(code)'
                 PROVE  (code \in keyboardPacket'.rawStates) = Held(code)'
      BY DEF SettledStatesFollow
    <3>1. wire' # <<>>
      BY <2>1
    <3>2. Settled(code) /\ Sure(code) /\ Held(code)' = Held(code)
      BY <1>1, <2>1, <3>1 DEF Settled, Sure, Held
    <3> QED BY <1>1, <3>2 DEF KeyboardInv, SettledStatesFollow, driver
  <2> QED BY <1>3, <1>4, <2>2, <2>3 DEF KeyboardInv
<1>6. CASE wire = <<LastByte>>
  <2>1. wire' = <<>> /\ sure' = sure \ {key}
    BY <1>1, <1>6
  <2>2. WireIsTheRest'
    BY <2>1 DEF WireIsTheRest
  <2>3. SettledStatesFollow'
    <3> SUFFICES ASSUME NEW code \in Keys \cup ExtendedKeys, Sure(code)'
                 PROVE  (code \in keyboardPacket'.rawStates) = Held(code)'
      BY DEF SettledStatesFollow
    <3>1. key \in DeviceKeys
      BY DEF KeyboardInv, TypeOK
    <3>2. code # key[1] /\ Sure(code)
      BY <2>1, <3>1 DEF Sure
    <3>3. (code \in keyboardPacket.rawStates) = Held(code)
      BY <3>2 DEF KeyboardInv, SettledStatesFollow, Settled
    <3> QED BY <1>1, <3>3 DEF Held, driver
  <2> QED BY <1>3, <1>4, <2>2, <2>3 DEF KeyboardInv
<1> QED BY <1>1, <1>5, <1>6 DEF KeyboardInv, WireIsTheRest

LEMMA StrayPreserves ==
  ASSUME KeyboardInv, NEW data \in StrayBytes, Stray(data)
  PROVE  KeyboardInv'
<1>1. PICK beyond \in AfterTable : HandleKeyboard(data, beyond)
  BY DEF Stray
<1>2. /\ lost < MaxLost /\ lost' = lost + 1
      /\ sure' = {k \in sure : k[1] # data % 128}
      /\ UNCHANGED <<wire, key, down>>
  BY DEF Stray
<1>3. data \in Scancode
  BY KeyboardAssumption
<1>4. /\ flags' \in BOOLEAN \X BOOLEAN \X BOOLEAN
      /\ keyboardPacket' \in Packet /\ keyboardPacket'.rawStates \subseteq Code
      /\ keyboardPacket'.rawStates = RawStates(keyboardPacket.rawStates, data)
      /\ fluffPacket' \in Packet
      /\ printed' \in Character
      /\ saving' \in BOOLEAN
      /\ tableIndex' \in 0 .. CapsLock
      /\ FlagsFollowStates'
  BY <1>1, <1>3, HandleKeyboardStep DEF KeyboardInv
<1>5. lost' \in 0 .. MaxLost /\ sure' \subseteq DeviceKeys
  <2>1. lost \in 0 .. MaxLost /\ sure \subseteq DeviceKeys
    BY DEF KeyboardInv, TypeOK
  <2>2. MaxLost \in Nat
    BY KeyboardAssumption
  <2> QED BY <1>2, <2>1, <2>2
<1>6. TypeOK'
  BY <1>2, <1>4, <1>5 DEF KeyboardInv, TypeOK
<1>7. WireIsTheRest' /\ IsFiniteSet(down')
  BY <1>2 DEF KeyboardInv, WireIsTheRest, LastByte
<1>8. SettledStatesFollow'
  <2> SUFFICES ASSUME NEW code \in Keys \cup ExtendedKeys,
                      Settled(code)', Sure(code)'
               PROVE  (code \in keyboardPacket'.rawStates) = Held(code)'
    BY DEF SettledStatesFollow
  <2>1. PICK k \in DeviceKeys : k[1] = code
    <3>1. <<code, "plain">> \in DeviceKeys \/ <<code, "extended">> \in DeviceKeys
      BY DEF DeviceKeys
    <3> QED BY <3>1
  <2>2. code # data % 128
    BY <1>2, <2>1 DEF Sure
  <2>3. Settled(code) /\ Sure(code) /\ Held(code)' = Held(code)
    BY <1>2 DEF Settled, Sure, Held
  <2>4. code \in Code
    BY KeyboardAssumption
  <2>5. (code \in keyboardPacket'.rawStates) = (code \in keyboardPacket.rawStates)
    BY <1>3, <1>4, <2>2, <2>4, OtherCodes
  <2> QED BY <2>3, <2>5 DEF KeyboardInv, SettledStatesFollow
<1> QED BY <1>4, <1>6, <1>7, <1>8 DEF KeyboardInv

LEMMA StutterPreserves == KeyboardInv /\ UNCHANGED vars => KeyboardInv'
<1> SUFFICES ASSUME KeyboardInv, UNCHANGED vars PROVE KeyboardInv'
  OBVIOUS
<1>1. TypeOK'
  BY DEF KeyboardInv, TypeOK, vars, driver, device, flags
<1>2. WireIsTheRest' /\ FlagsFollowStates' /\ IsFiniteSet(down')
  BY DEF KeyboardInv, WireIsTheRest, LastByte, FlagsFollowStates, vars, driver,
         device, flags
<1>3. SettledStatesFollow'
  BY DEF KeyboardInv, SettledStatesFollow, Settled, Sure, Held, vars, driver, device
<1> QED BY <1>1, <1>2, <1>3 DEF KeyboardInv

(* KeyboardInv holds in every state, whatever is pressed, lost or strayed. *)
THEOREM Invariance == Spec => []KeyboardInv
<1>1. KeyboardInv /\ [Next]_vars => KeyboardInv'
  BY PressPreserves, ReleasePreserves, RepeatPreserves, DeliverPreserves,
     LosePreserves, StrayPreserves, StutterPreserves DEF Next
<1> QED BY <1>1, InitEstablishes, PTL DEF Spec

(* The types of the driver's and the device's state: no scancode is put in *)
(* rawStates that is not a code, and no element of the table is read but   *)
(* the first after its end (keyboard.cpp:14, kbScancodeTranslation.cpp:41).*)
THEOREM KeyboardTypeCorrect == Spec => []TypeOK
<1>1. KeyboardInv => TypeOK
  BY DEF KeyboardInv
<1> QED BY <1>1, Invariance, PTL

(* The driver knows of each code whose keys' last bytes came through       *)
(* whether it is down (keyboard.cpp:14).                                   *)
THEOREM KnowsTheKeys == Spec => []StatesFollowKeys
<1>1. KeyboardInv => StatesFollowKeys
  BY DEF KeyboardInv, SettledStatesFollow, StatesFollowKeys, Settled
<1> QED BY <1>1, Invariance, PTL

-----------------------------------------------------------------------------
(* What is printed *)

(* When a letter is printed, its byte came whole, and of the codes of      *)
(* shift and Ctrl the driver knows what it knew before.                    *)
LEMMA LetterPrinted ==
  ASSUME KeyboardInv, Deliver, printed'.key \in Letters
  PROVE  /\ printed' = [key |-> printed'.key,
                       kind |-> IF (isLeftShiftPressed' \/ isRightShiftPressed')
                                     # isCapsLockActive'
                                THEN "upper" ELSE "lower"]
         /\ saving' = SaveHotkey(keyboardPacket')
         /\ keyboardPacket'.ascii_key = printed'
         /\ \A code \in {LeftShift, RightShift, Ctrl} :
              Sure(code) => (code \in keyboardPacket'.rawStates) = Held(code)'
         /\ FlagsFollowStates'
<1> DEFINE scancode == Head(wire)
<1>1. PICK beyond \in AfterTable : HandleKeyboard(scancode, beyond)
  BY DEF Deliver
<1>2. wire \in Seq(Scancode) /\ wire # <<>> /\ UNCHANGED <<key, down>>
      /\ key \in DeviceKeys
  BY DEF Deliver, KeyboardInv, TypeOK
<1>3. scancode \in Scancode
  BY <1>2
<1>4. /\ flags' \in BOOLEAN \X BOOLEAN \X BOOLEAN
      /\ keyboardPacket'.rawStates = RawStates(keyboardPacket.rawStates, scancode)
      /\ printed' = Translate(scancode, isLeftShiftPressed' \/ isRightShiftPressed',
                              isCapsLockActive', beyond)
      /\ saving' = (printed' # NoChar /\ SaveHotkey(keyboardPacket'))
      /\ printed' # NoChar => keyboardPacket'.ascii_key = printed'
      /\ FlagsFollowStates'
  BY <1>1, <1>3, HandleKeyboardStep DEF KeyboardInv
<1>5. /\ isLeftShiftPressed' \in BOOLEAN /\ isRightShiftPressed' \in BOOLEAN
      /\ isCapsLockActive' \in BOOLEAN
  BY <1>4 DEF flags
<1>6. /\ scancode \in Letters
      /\ printed' = [key |-> scancode,
                     kind |-> IF (isLeftShiftPressed' \/ isRightShiftPressed')
                                   # isCapsLockActive'
                              THEN "upper" ELSE "lower"]
  <2> DEFINE shift == isLeftShiftPressed' \/ isRightShiftPressed'
  <2>1. shift \in BOOLEAN
    BY <1>5
  <2>2. printed' = Translate(scancode, shift, isCapsLockActive', beyond)
    BY <1>4
  <2> HIDE DEF shift, scancode
  <2>3. /\ scancode \in Letters
        /\ Translate(scancode, shift, isCapsLockActive', beyond)
             = [key |-> scancode,
                kind |-> IF shift # isCapsLockActive' THEN "upper" ELSE "lower"]
    BY <1>3, <1>5, <2>1, <2>2, TranslateLetter
  <2> QED BY <2>2, <2>3 DEF shift
<1>7. printed'.key = scancode /\ printed' # NoChar
  BY <1>6 DEF NoChar, Letters
<1>8. key[1] = scancode
  <2>1. key[1] \in 0 .. 127
    BY <1>2, KeyCodes DEF Code
  <2>2. scancode \in {Extended, LastByte}
    BY <1>2 DEF KeyboardInv, WireIsTheRest
  <2> QED BY <1>6, <2>1, <2>2 DEF Extended, LastByte, Letters
<1>9. ASSUME NEW code \in {LeftShift, RightShift, Ctrl}, Sure(code)
      PROVE  (code \in keyboardPacket'.rawStates) = Held(code)'
  <2>1. code \in Keys \cup ExtendedKeys /\ code \in Code
    BY KeyboardAssumption
  <2>2. scancode \in 0 .. 127 /\ code # scancode /\ scancode % 128 = scancode
    BY <1>6 DEF Letters, LeftShift, RightShift, Ctrl
  <2>3. (code \in keyboardPacket.rawStates) = Held(code)
    BY <1>8, <1>9, <2>1, <2>2 DEF KeyboardInv, SettledStatesFollow, Settled
  <2>4. (code \in keyboardPacket'.rawStates) = (code \in keyboardPacket.rawStates)
    BY <1>3, <1>4, <2>1, <2>2, OtherCodes
  <2> QED BY <1>2, <2>3, <2>4 DEF Held
<1>10. saving' = SaveHotkey(keyboardPacket')
  BY <1>4, <1>7 DEF SaveHotkey
<1>11. printed' = [key |-> printed'.key,
                   kind |-> IF (isLeftShiftPressed' \/ isRightShiftPressed')
                                 # isCapsLockActive'
                            THEN "upper" ELSE "lower"]
  BY <1>6, <1>7
<1> QED BY <1>4, <1>7, <1>9, <1>10, <1>11

(* The case of a letter follows the keys: a byte that is about a letter    *)
(* changes no flag, and the flags are those of the shift keys.             *)
LEMMA LetterCaseStep ==
  ASSUME KeyboardInv, Deliver, printed'.key \in Letters, SureOfCase
  PROVE  /\ printed'.kind = IF BigLetters' THEN "upper" ELSE "lower"
         /\ BigLetters' = ((isLeftShiftPressed' \/ isRightShiftPressed')
                              # isCapsLockActive')
<1>1. /\ (LeftShift \in keyboardPacket'.rawStates) = Held(LeftShift)'
      /\ (RightShift \in keyboardPacket'.rawStates) = Held(RightShift)'
  BY LetterPrinted DEF SureOfCase
<1>2. /\ isLeftShiftPressed' = Held(LeftShift)'
      /\ isRightShiftPressed' = Held(RightShift)'
  BY <1>1, LetterPrinted DEF FlagsFollowStates
<1>3. BigLetters' = ((isLeftShiftPressed' \/ isRightShiftPressed')
                       # isCapsLockActive')
  BY <1>2 DEF BigLetters
<1>4. printed'.kind = IF (isLeftShiftPressed' \/ isRightShiftPressed')
                           # isCapsLockActive'
                      THEN "upper" ELSE "lower"
  BY LetterPrinted
<1> QED BY <1>3, <1>4

(* The case of every letter that is printed follows the shift keys that    *)
(* down and Caps Lock (kbScancodeTranslation.cpp:43).                      *)
THEOREM LetterCaseCorrect == Spec => LetterCase
<1>1. KeyboardInv /\ [Next]_vars =>
        [Deliver /\ printed'.key \in Letters /\ SureOfCase
           => printed'.kind = IF BigLetters' THEN "upper" ELSE "lower"]_vars
  BY LetterCaseStep
<1> QED BY <1>1, Invariance, PTL DEF Spec, LetterCase

(* "Saving." is printed exactly for a small s typed while a Ctrl is held   *)
(* (Fluff.cpp:55).                                                         *)
THEOREM SavingCorrect == Spec => SavingByCtrlS
<1>1. ASSUME KeyboardInv, Deliver, printed'.key = LetterS, SureOfCase, Sure(Ctrl)
      PROVE  saving' = (Held(Ctrl)' /\ ~BigLetters')
  <2>1. printed'.key \in Letters
    BY <1>1 DEF LetterS, Letters
  <2>2. /\ saving' = SaveHotkey(keyboardPacket')
        /\ keyboardPacket'.ascii_key = printed'
        /\ (Ctrl \in keyboardPacket'.rawStates) = Held(Ctrl)'
    BY <1>1, <2>1, LetterPrinted
  <2>3. printed' = [key |-> LetterS,
                    kind |-> IF BigLetters' THEN "upper" ELSE "lower"]
    BY <1>1, <2>1, LetterPrinted, LetterCaseStep
  <2>4. (printed' = [key |-> LetterS, kind |-> "lower"]) = ~BigLetters'
    BY <2>3
  <2> QED BY <2>2, <2>4 DEF SaveHotkey
<1>2. Deliver => Held(Ctrl)' = Held(Ctrl)
  BY DEF Deliver, Held
<1>3. KeyboardInv /\ [Next]_vars =>
        [Deliver /\ printed'.key = LetterS /\ SureOfCase /\ Sure(Ctrl)
           => saving' = (Held(Ctrl) /\ ~BigLetters')]_vars
  BY <1>1, <1>2
<1> QED BY <1>3, Invariance, PTL DEF Spec, SavingByCtrlS
=============================================================================
