--------------------------------- MODULE Panic ---------------------------------
(***************************************************************************)
(* Panic::Trigger of CorgiOS (KernelUtils/panic.cpp) and what it prints    *)
(* with: println of CorgiGL (Graphics/CorgiGL.cpp) and, for the message of *)
(* a page fault, toHexString (Libs/Strings.cpp) and strcat.  Interrupts    *)
(* are off and nothing else runs, so that one step is one line.            *)
(*                                                                         *)
(* A text is a sequence of characters; of the lines every panic prints     *)
(* only their lengths are kept.  The screen is the rows of glyphs drawn on *)
(* it since it was cleared, pixels are not told apart.                     *)
(***************************************************************************)
EXTENDS Integers, Sequences, FiniteSets, SequencesExt, FiniteSetsExt

CONSTANTS
  Screens,      (* framebuffers: [Width, Height, PixelsPerScanLine]         *)
  Messages,     (* what Message may point to; <<>> is also the null pointer *)
  charsize,     (* height of a glyph of the font                            *)
  LineSize,     (* size of Trigger's line buffer, 128                       *)
  Word,         (* 2^32, the numbers of an unsigned int                     *)
  HexDigits,    (* hexadecimal digits of a uint64_t, 16                     *)
  Numbers       (* those given to toHexString, faulting addresses too       *)

FONT_WIDTH == 8

Framebuffer == [Width : Nat, Height : Nat, PixelsPerScanLine : Nat]

ASSUME PanicAssumption ==
  /\ {charsize, LineSize, Word, HexDigits} \subseteq Nat \ {0}
  /\ \A screen \in Screens :
       /\ screen \in Framebuffer
       /\ FONT_WIDTH <= screen.Width
       /\ screen.Width <= screen.PixelsPerScanLine
       /\ charsize <= screen.Height
       /\ 2 * screen.PixelsPerScanLine < Word

(* Neither x nor y wraps around: a line's blanks end far from where x      *)
(* does, and a page with a message of n characters far from where y does.  *)
Deepest(n) == (charsize + 2) * (LineSize + n + 150)

ASSUME MessagesAssumption ==
  /\ 64 * LineSize < Word
  /\ Deepest(HexDigits + 96) < Word
  /\ \A info \in Messages : info \in Seq(STRING) /\ Deepest(Len(info)) < Word

VARIABLES
  framebuffer,
  hexBuffer,       (* toHexString's static buffer                           *)
  message, type,   (* the PanicInfo                                         *)
  at,              (* how much of Page is done                              *)
  rest,            (* what of the message is not printed yet                *)
  y,               (* Trigger's y                                           *)
  lines,           (* given to println so far: a text, its x and its y      *)
  stage            (* "running", "header", "message" or "halted"            *)

vars == <<framebuffer, hexBuffer, message, type, at, rest, y, lines, stage>>

-----------------------------------------------------------------------------
(* Text, on a print point [x, y].                                          *)

Down(point) == [x |-> 0, y |-> (point.y + charsize) % Word]

(* Mutant: the bound forgets the height of a glyph.                        *)
LowestTopHeight == framebuffer.Height

(* The top of the lowest row of glyphs.                                    *)
LowestTop == framebuffer.Height - charsize

Rows(glyphs, inRow) == IF glyphs <= 0 THEN 0 ELSE (glyphs - 1) \div inRow + 1

(* printc for each glyph of a run: a glyph that does not fit beside the    *)
(* last one goes to the start of the next row, and from the first row that *)
(* is too low on the print point stays.  A negative number in 32 bits is a *)
(* point far to the right.  What is drawn are rows of glyphs.              *)
printc(paper, run) ==
  LET stride == framebuffer.PixelsPerScanLine
      point == paper.point
      beside == IF (point.x + FONT_WIDTH) % Word > stride THEN 0
                ELSE (stride - point.x) \div FONT_WIDTH
      inRow == stride \div FONT_WIDTH
      First(r) == IF r = 0 THEN 1 ELSE beside + (r - 1) * inRow + 1
      LastOf(r) == Min({beside + r * inRow, Len(run)})
      Left(r) == IF r = 0 THEN point.x ELSE 0
      Top(r) == (point.y + r * charsize) % Word
      reached == (IF beside = 0 THEN 1 ELSE 0) .. Rows(Len(run) - beside, inRow)
      drawn == {r \in reached : Top(r) <= LowestTop}
      stop == Min((reached \ drawn) \cup {Max(reached)})
  IN  IF run = <<>> THEN paper
      ELSE [point |-> [x |-> Left(stop) + (IF stop \in drawn
                               THEN FONT_WIDTH * (LastOf(stop) - First(stop) + 1)
                               ELSE 0),
                       y |-> Top(stop)],
            rows |-> paper.rows \cup
              {[x |-> Left(r), y |-> Top(r),
                text |-> SubSeq(run, First(r), LastOf(r))] : r \in drawn}]

Blanks == {" ", "\t", "\r", "\n"}

Blank(point, c) ==
  CASE c = " "  -> [point EXCEPT !.x = (@ + 8) % Word]
    [] c = "\t" -> [point EXCEPT !.x = (@ + 32) % Word]
    [] c = "\r" -> [point EXCEPT !.x = 0]
    [] c = "\n" -> Down(point)

prints(point, text) ==
  LET blanks == {i \in DOMAIN text : text[i] \in Blanks}
      Before(i) == Max({0} \cup {k \in blanks : k < i})
      After[i \in {0} \cup blanks] ==
        IF i = 0 THEN [point |-> point, rows |-> {}]
        ELSE LET before == Before(i)
                 run == printc(After[before], SubSeq(text, before + 1, i - 1))
             IN  [run EXCEPT !.point = Blank(@, text[i])]
      last == Before(Len(text) + 1)
  IN  printc(After[last], SubSeq(text, last + 1, Len(text))).rows

-----------------------------------------------------------------------------
(* The message of a page fault.                                            *)

NUL == "NUL"

HexChars == <<"0", "1", "2", "3", "4", "5", "6", "7", "8", "9",
              "a", "b", "c", "d", "e", "f">>

(* What toHexString's loop leaves of the value in k turns: each takes the  *)
(* last digit.                                                             *)
LeftOf(value) ==
  LET Left[k \in 0 .. HexDigits] ==
        IF k = 0 THEN value ELSE Left[k - 1] \div 16
  IN  Left

(* Nothing is left of a uint64_t after HexDigits of them.                  *)
ASSUME NumbersAssumption ==
  Numbers \subseteq {value \in Nat : LeftOf(value)[HexDigits] = 0}

(* The digits of a value, one for 0.                                       *)
Turns(value) == Max({1} \cup {k \in 1 .. HexDigits : LeftOf(value)[k - 1] > 0})

(* Mutant: the NUL is put after the buffer's digits, not after the copy's. *)
toHexStringLateEnd(buffer, value) ==
  LET n == Turns(value)
      Digit(k) == HexChars[(LeftOf(value)[n - k] % 16) + 1]
  IN  [i \in DOMAIN buffer |->
         CASE i = 0 -> "0"
           [] i = 1 -> "x"
           [] i \in 2 .. n + 1 -> Digit(i - 1)
           [] i = HexDigits + 2 -> NUL
           [] OTHER -> buffer[i]]

(* toHexString's static buffer after a call with this value: the digits    *)
(* are put at its end, and from there copied to their place.               *)
toHexString(buffer, value) ==
  LET n == Turns(value)
      Digit(k) == HexChars[(LeftOf(value)[n - k] % 16) + 1]
      end == HexDigits + 2
  IN  [i \in DOMAIN buffer |->
         CASE i = 0 -> "0"
           [] i = 1 -> "x"
           [] i \in 2 .. n + 1 -> Digit(i - 1)
           [] i = n + 2 -> NUL
           [] i \in Max({n + 3, end - n + 1}) .. end /\ value # 0
                -> Digit(i - (end - n))
           [] OTHER -> buffer[i]]

(* The string at the start of a buffer.                                    *)
CString(buffer) ==
  LET end == CHOOSE i \in DOMAIN buffer :
               buffer[i] = NUL /\ \A k \in DOMAIN buffer : k < i => buffer[k] # NUL
  IN  [k \in 1 .. end |-> buffer[k - 1]]

Glyphs(n) == [i \in 1 .. n |-> "*"]

PageFaultMessage(buffer) ==
  Glyphs(73) \o <<"\n">> \o Glyphs(18) \o CString(buffer)

GPFaultMessage == Glyphs(58) \o <<"\n">>

DoubleFaultMessage == Glyphs(68) \o <<"\n">>

PanicTypeToString(panicType) ==
  CASE panicType = "PageFault" -> Glyphs(10)
    [] panicType = "GeneralProtectionFault" -> Glyphs(24)
    [] panicType = "DoubleFault" -> Glyphs(12)
    [] OTHER -> Glyphs(18)

-----------------------------------------------------------------------------
(* The screen of a panic.                                                  *)

(* The lengths of its lines; Gap is y += fontHeight.                       *)
Gap == -1

Header ==
  <<31, 83, Gap, 17, 24, 64, Gap, 22, 4, 51, 28, 33, 44, 41, Gap,
    19, 4, 25, 46, 65, 67, 45, Gap, 15>>

TypeLabel == 14

Title == 14

NoInfo == 22

centerX(text) ==
  ((framebuffer.PixelsPerScanLine - Len(text) * FONT_WIDTH) % Word) \div 2

(* Mutant: the next line is put by the width of the font.                  *)
printlnCenteredTight(text) ==
  /\ lines' = Append(lines, [x |-> centerX(text), y |-> y, text |-> text])
  /\ y' = y + FONT_WIDTH + 2

(* setPrintPoint and println: every line has a print point of its own.     *)
printlnCentered(text) ==
  /\ lines' = Append(lines, [x |-> centerX(text), y |-> y, text |-> text])
  /\ y' = y + charsize + 2

(* What Trigger prints before the message.                                 *)
Page ==
  Header \o <<TypeLabel + Len(PanicTypeToString(type)), Gap, Title>>

(* Interrupts are off from here on.                                        *)
Trigger(panicType, info) ==
  /\ stage = "running"
  /\ stage' = "header"
  /\ type' = panicType
  /\ message' = info
  /\ rest' = info
  /\ y' = 20
  /\ UNCHANGED <<framebuffer, lines, at>>

PrintHeader ==
  /\ stage = "header"
  /\ at' = at + 1
  /\ stage' = IF at + 1 = Len(Page) THEN "message" ELSE "header"
  /\ IF Page[at + 1] = Gap
     THEN y' = y + charsize /\ UNCHANGED lines
     ELSE printlnCentered(Glyphs(Page[at + 1]))
  /\ UNCHANGED <<framebuffer, hexBuffer, message, type, rest>>

(* Where the line of the message that comes next ends.                     *)
LineEnd == Min({k \in DOMAIN rest : rest[k] = "\n"} \cup {Len(rest) + 1})

(* Mutant: what is left when the message ends is not printed.              *)
PrintMessageLineEnded ==
  /\ stage = "message"
  /\ message # <<>>
  /\ IF LineEnd > Len(rest) THEN UNCHANGED <<lines, y>>
     ELSE printlnCentered(SubSeq(rest, 1, Min({LineEnd, LineSize}) - 1))
  /\ rest' = SubSeq(rest, LineEnd + 1, Len(rest))
  /\ stage' = IF LineEnd > Len(rest) THEN "halted" ELSE "message"
  /\ UNCHANGED <<framebuffer, hexBuffer, message, type, at>>

(* A line of the message, of which the line buffer keeps a part.           *)
PrintMessageLine ==
  /\ stage = "message"
  /\ message # <<>>
  /\ printlnCentered(SubSeq(rest, 1, Min({LineEnd, LineSize}) - 1))
  /\ rest' = SubSeq(rest, LineEnd + 1, Len(rest))
  /\ stage' = IF LineEnd > Len(rest) THEN "halted" ELSE "message"
  /\ UNCHANGED <<framebuffer, hexBuffer, message, type, at>>

PrintNoInfo ==
  /\ stage = "message"
  /\ message = <<>>
  /\ printlnCentered(Glyphs(NoInfo))
  /\ stage' = "halted"
  /\ UNCHANGED <<framebuffer, hexBuffer, message, type, rest, at>>

Halted == stage = "halted" /\ UNCHANGED vars

-----------------------------------------------------------------------------
(* Who panics, and who uses toHexString before.                            *)

Init ==
  /\ framebuffer \in Screens
  /\ hexBuffer = [i \in 0 .. HexDigits + 4 |-> NUL]
  /\ message = <<>> /\ type = "none" /\ rest = <<>>
  /\ at = 0 /\ y = 0
  /\ lines = <<>>
  /\ stage = "running"

(* The name of a PCI device that has none (PCI/pciDescriptors.cpp).        *)
NameByHex(value) ==
  /\ stage = "running"
  /\ hexBuffer' = toHexString(hexBuffer, value)
  /\ UNCHANGED <<framebuffer, message, type, at, rest, y, lines, stage>>

(* A page fault that is not repaired (KernelMemory).                       *)
PageFault_handler(faultingAddress) ==
  LET buffer == toHexString(hexBuffer, faultingAddress)
  IN  /\ Trigger("PageFault", PageFaultMessage(buffer))
      /\ hexBuffer' = buffer

GPFault_handler ==
  /\ Trigger("GeneralProtectionFault", GPFaultMessage)
  /\ UNCHANGED hexBuffer

DoubleFault_handler ==
  /\ Trigger("DoubleFault", DoubleFaultMessage)
  /\ UNCHANGED hexBuffer

(* Whoever else may call it.                                               *)
OtherTrigger(info) == Trigger("other", info) /\ UNCHANGED hexBuffer

Next ==
  \/ \E value \in Numbers : NameByHex(value) \/ PageFault_handler(value)
  \/ GPFault_handler
  \/ DoubleFault_handler
  \/ \E info \in Messages : OtherTrigger(info)
  \/ PrintHeader
  \/ PrintMessageLine
  \/ PrintNoInfo
  \/ Halted

Fairness == WF_vars(PrintHeader \/ PrintMessageLine \/ PrintNoInfo)

Spec == Init /\ [][Next]_vars /\ Fairness

-----------------------------------------------------------------------------
(* What a panic promises.                                                  *)

(* Where the lines of the message start.                                   *)
Starts == {1} \cup {i + 1 : i \in {k \in DOMAIN message : message[k] = "\n"}}

Above(start) == Cardinality({s \in Starts : s < start})

(* The line that starts there, cut to the line buffer.                     *)
LineAt(start) ==
  [k \in {k \in 1 .. LineSize - 1 :
            /\ start + k - 1 \in DOMAIN message
            /\ ~ \E b \in start .. start + k - 1 : message[b] = "\n"}
     |-> message[start + k - 1]]

(* Blanks that are not one glyph wide.                                     *)
Plain(text) == \A i \in DOMAIN text : text[i] \notin {"\t", "\r"}

FitsWidth(text) ==
  Plain(text) /\ FONT_WIDTH * Len(text) <= framebuffer.PixelsPerScanLine

(* How far down the first entries of the page lead.                        *)
PageTop(entries) ==
  LET printed == Cardinality({k \in 1 .. entries : Page[k] # Gap})
  IN  20 + printed * (charsize + 2) + (entries - printed) * charsize

(* What a line draws.                                                      *)
RowsOf(line) == prints([x |-> line.x, y |-> line.y], line.text)

GlyphAt(rows, x, top, c) ==
  \E row \in rows :
    /\ row.y = top
    /\ \E i \in DOMAIN row.text :
         row.text[i] = c /\ row.x + FONT_WIDTH * (i - 1) = x

(* No glyph is written outside the framebuffer, nor over the end of a row  *)
(* of pixels, though the x of a text wider than the screen is a difference *)
(* below zero, taken without a sign (centerX, printc).                     *)
InsideFramebuffer ==
  lines # <<>> =>
    \A row \in RowsOf(Last(lines)) :
      /\ row.x + FONT_WIDTH * Len(row.text) <= framebuffer.PixelsPerScanLine
      /\ row.y + charsize <= framebuffer.Height

(* A line that is not wider than the screen is never drawn over by one     *)
(* that Trigger prints later: the steps of y leave room for its glyphs.    *)
NeverDrawnOver ==
  stage = "halted" =>
    \A n \in DOMAIN lines :
      FitsWidth(lines[n].text) =>
        \A row \in RowsOf(lines[n]) :
          \A later \in n + 1 .. Len(lines) :
            \A over \in RowsOf(lines[later]) : row.y + charsize <= over.y

(* Nothing but one line draws on the rows of pixels of a glyph at this     *)
(* height.                                                                 *)
StandsAlone(top) ==
  \E k \in DOMAIN lines : \A n \in DOMAIN lines \ {k} :
    \A row \in RowsOf(lines[n]) :
      row.y + charsize <= top \/ top + charsize <= row.y

(* Each line of the message that has its place on the screen stands there  *)
(* whole, the address of a page fault on the last, and nothing else is     *)
(* drawn into it, unless a line further up is wider than the screen: its   *)
(* rows go down over the lines below it.                                   *)
MessageShown ==
  message # <<>> =>
    \A start \in Starts :
      LET text == LineAt(start)
          left == (framebuffer.PixelsPerScanLine - FONT_WIDTH * Len(text)) \div 2
          top == PageTop(Len(Page)) + Above(start) * (charsize + 2)
          rows == UNION {RowsOf(lines[k]) : k \in DOMAIN lines}
      IN  FitsWidth(text) /\ top + charsize <= framebuffer.Height =>
            /\ \A i \in DOMAIN text :
                 text[i] # " " =>
                   GlyphAt(rows, left + FONT_WIDTH * (i - 1), top, text[i])
            /\ (\A n \in DOMAIN lines : lines[n].y < top => FitsWidth(lines[n].text))
                 => StandsAlone(top)

(* A panic halts in the end, for any message, and then its whole message   *)
(* is on the screen: no line is lost, and none is waited for forever, when *)
(* it is cut at its '\n' (panic.cpp:71).                                   *)
WholeMessageShown ==
  (stage = "header") ~> (stage = "halted" /\ MessageShown)

(* What a string of hexadecimal digits says after its 0x; -1 if it is none.*)
ValueOf(text) ==
  LET digits == SubSeq(text, 3, Len(text))
      Value(c) == CHOOSE v \in 0 .. 15 : HexChars[v + 1] = c
  IN  IF \E i \in DOMAIN digits : \A v \in DOMAIN HexChars : HexChars[v] # digits[i]
      THEN -1
      ELSE LET Read[i \in 0 .. Len(digits)] ==
                 IF i = 0 THEN 0 ELSE 16 * Read[i - 1] + Value(digits[i])
           IN  Read[Len(digits)]

(* The number that toHexString is given is the one its text says, whatever *)
(* an earlier call left in its buffer, and a panic's message ends in it.   *)
NumbersReadBack ==
  [][\A value \in Numbers :
       /\ NameByHex(value) \/ PageFault_handler(value)
            => ValueOf(CString(hexBuffer')) = value
       /\ PageFault_handler(value)
            => ValueOf(SubSeq(message', 73 + 1 + 18 + 1, Len(message'))) = value]_vars
=============================================================================
