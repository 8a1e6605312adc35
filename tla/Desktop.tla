-------------------------------- MODULE Desktop --------------------------------
(***************************************************************************)
(* The Fluff desktop of CorgiOS (Graphics/Fluff) on CorgiGL, its drawing   *)
(* library.  _start paints the desktop pixel by pixel (onStart) while the  *)
(* mouse and keyboard handlers, which run with interrupts off and so in    *)
(* one step, draw the cursor, print what is typed and answer clicks.  All  *)
(* of them share the framebuffer and the print point.                      *)
(*                                                                         *)
(* A pixel is a pair <<x, y>>; a colour is the name of what was drawn.     *)
(* `ideal' is what the screen would be without a cursor: every drawing of  *)
(* the program goes to both, the cursor only to the screen.                *)
(***************************************************************************)
EXTENDS Integers, Sequences, SequencesExt

CONSTANTS
  Width,          (* the framebuffer, without padding at the line ends      *)
  Height,
  TaskbarHeight,  (* GUI::taskbarHeight                                     *)
  CharWidth,      (* 8                                                      *)
  CharSize,       (* psf1_Header->charsize                                  *)
  CursorBox,      (* the offsets saved behind the cursor                    *)
  CursorShape,    (* those of them the cursor is drawn on                   *)
  Places,         (* the positions the mouse goes to                        *)
  ClickText,      (* "Button Clicked!": which characters are spaces         *)
  SaveText,       (* "Saving."                                              *)
  MaxInterrupts   (* bound: mouse and keyboard interrupts                   *)

ASSUME DesktopAssumption ==
  /\ Width \in Nat \ {0} /\ Height \in Nat \ {0}
  /\ TaskbarHeight \in 1 .. Height
  /\ CharWidth \in 1 .. Width /\ CharSize \in 1 .. Height
  /\ CharWidth <= TaskbarHeight
  /\ CursorBox \subseteq Nat \X Nat /\ CursorShape \subseteq CursorBox
  /\ Places \subseteq (0 .. Width - 1) \X (0 .. Height - 1)
  /\ ClickText \in Seq({"letter", "space"})
  /\ SaveText \in Seq({"letter", "space"})
  /\ MaxInterrupts \in Nat

VARIABLES
  step,               (* what onStart does next                             *)
  glyph,              (* the x and y of printc's loops while '=' is drawn   *)
  OldPoint,           (* DrawTaskbarIcon's copy of the print point          *)
  gl,                 (* the screen, its ideal and the print point          *)
  cursorInitialized,
  savedPixels,        (* the pixels behind the cursor                       *)
  oldMousePacket,     (* where the cursor is, and button 1                  *)
  interrupts          (* how many there have been                           *)

vars == <<step, glyph, OldPoint, gl, cursorInitialized, savedPixels,
          oldMousePacket, interrupts>>

Screen == (0 .. Width - 1) \X (0 .. Height - 1)

Colour == {"black", "desk", "bar", "icon", "border", "ink", "cursor"}

At(x, y, offset) == <<x + offset[1], y + offset[2]>>

-----------------------------------------------------------------------------
(* CorgiGL *)

(* The pixels of the screen the cursor's saved area covers.                *)
Covered(packet) == {At(packet.x, packet.y, o) : o \in CursorBox} \cap Screen

(* The program draws.  DrawPixel ignores what is off the screen.  `stale'  *)
(* are the pixels drawn while the cursor's saved area covered them.        *)
Draw(g, pixels, colour, covered) ==
  LET on == pixels \cap Screen
  IN  [g EXCEPT !.screen = [p \in Screen |-> IF p \in on THEN colour ELSE @[p]],
                !.ideal = [p \in Screen |-> IF p \in on THEN colour ELSE @[p]],
                !.stale = (@ \ on) \cup (on \cap covered)]

CoveredNow == IF cursorInitialized THEN Covered(oldMousePacket) ELSE {}

(* The element of the framebuffer that printc, which does not look, takes  *)
(* for the pixel x, y; `outside' says that it has written past the end.    *)
PixelPointer(x, y) ==
  <<(x + y * Width) % Width, (x + y * Width) \div Width>>

(* printc: go to the next line at the right edge, ...                      *)
Wrapped(point) ==
  IF point.x + CharWidth > Width
  THEN [point EXCEPT !.x = 0, !.y = @ + CharSize]
  ELSE point

(* Mutant: printc may start anywhere on the screen.                        *)
FitsAnywhere(point) == point.y < Height

(* ... print nothing below the screen, ...                                 *)
Fits(point) == point.y <= Height - CharSize

Box(point) ==
  (point.x .. point.x + CharWidth - 1) \X (point.y .. point.y + CharSize - 1)

(* ... draw, and go on to the right: printc without interruption.  The     *)
(* whole of the glyph's box is taken to have ink.                          *)
Printc(g, covered) ==
  LET point == Wrapped(g.printPoint)
      written == {PixelPointer(p[1], p[2]) : p \in Box(point)}
      drawn == [Draw(g, written, "ink", covered)
                  EXCEPT !.outside = @ \/ ~(written \subseteq Screen)]
  IN  IF Fits(point)
      THEN [drawn EXCEPT !.printPoint = [point EXCEPT !.x = @ + CharWidth]]
      ELSE [g EXCEPT !.printPoint = point]

(* prints moves on over a space without looking for the edge.              *)
Prints(g, text, covered) ==
  FoldLeft(LAMBDA h, character :
             IF character = "space"
             THEN [h EXCEPT !.printPoint.x = @ + CharWidth]
             ELSE Printc(h, covered),
           g, text)

(* Mutant: println goes back to the left edge and stays on its line.       *)
PrintlnOnSameLine(g, text, covered) ==
  [Prints(g, text, covered) EXCEPT !.printPoint.x = 0]

(* println *)
Println(g, text, covered) ==
  [Prints(g, text, covered)
         EXCEPT !.printPoint.x = 0, !.printPoint.y = @ + CharSize]

-----------------------------------------------------------------------------
(* The cursor: Graphics/Fluff/Cursor.cpp *)

(* Mutant: the first call restores what was never saved.                   *)
ClearMouseCursorAtOnce(screen, packet) ==
  [p \in Screen |->
     IF p \in Covered(packet)
     THEN savedPixels[<<p[1] - packet.x, p[2] - packet.y>>].colour
     ELSE screen[p]]

(* RestorePixelsBehindCursor, but for the first call.                      *)
ClearMouseCursor(screen, packet) ==
  [p \in Screen |->
     IF cursorInitialized /\ p \in Covered(packet)
     THEN savedPixels[<<p[1] - packet.x, p[2] - packet.y>>].colour
     ELSE screen[p]]

(* Mutant: off the screen, what GetPixel answers there is saved.           *)
SavePixelsUnclipped(screen, x, y) ==
  [o \in CursorBox |->
     [colour |-> IF At(x, y, o) \in Screen THEN screen[At(x, y, o)] ELSE "black",
      from |-> At(x, y, o)]]

(* Mutant: the last line of the screen is taken to be off it.              *)
SavePixelsOffByOne(screen, x, y) ==
  [o \in CursorBox |->
     IF At(x, y, o) \in Screen /\ y + o[2] < Height - 1
     THEN [colour |-> screen[At(x, y, o)], from |-> At(x, y, o)]
     ELSE savedPixels[o]]

(* What is off the screen keeps what was saved before.  `from' is history. *)
SavePixelsBehindCursor(screen, x, y) ==
  [o \in CursorBox |->
     IF At(x, y, o) \in Screen
     THEN [colour |-> screen[At(x, y, o)], from |-> At(x, y, o)]
     ELSE savedPixels[o]]

CursorPixels(packet) == {At(packet.x, packet.y, o) : o \in CursorShape} \cap Screen

DrawMouseCursor(screen, packet) ==
  [p \in Screen |->
     IF p \in CursorPixels(packet) THEN "cursor" ELSE screen[p]]

-----------------------------------------------------------------------------
(* The machine *)

Origin == [x |-> 0, y |-> 0]

Nowhere == <<-1, -1>>

(* PrepareGraphics has cleared the framebuffer; statics are zero.          *)
Init ==
  /\ step = [what |-> "clear", x |-> 0, y |-> 0]
  /\ glyph = Origin
  /\ OldPoint = Origin
  /\ gl = [screen |-> [p \in Screen |-> "black"],
           ideal |-> [p \in Screen |-> "black"],
           stale |-> {}, outside |-> FALSE, printPoint |-> Origin]
  /\ cursorInitialized = FALSE
  /\ savedPixels = [o \in CursorBox |-> [colour |-> "black", from |-> Nowhere]]
  /\ oldMousePacket = [x |-> 0, y |-> 0, button1 |-> FALSE]
  /\ interrupts = 0

(* The rectangles onStart fills, one after the other, row by row: the      *)
(* screen, the task bar and its icon's background, then the icon's edge.   *)
(* Pixels off the screen are not drawn, so the loops end at its edges, and *)
(* the edge is drawn row by row although the code does its long sides      *)
(* together.                                                               *)
Top == Height - TaskbarHeight

IconWidth == IF TaskbarHeight < Width THEN TaskbarHeight ELSE Width

Fill == [
  clear |-> [x |-> 0, y |-> 0, width |-> Width, colour |-> "desk"],
  bar   |-> [x |-> 0, y |-> Top, width |-> Width, colour |-> "bar"],
  icon  |-> [x |-> 0, y |-> Top, width |-> IconWidth, colour |-> "icon"],
  edge  |-> [x |-> 0, y |-> Top, width |-> IconWidth, colour |-> "border"]]

After == [clear |-> "home", bar |-> "icon", icon |-> "edge", edge |-> "save"]

OnEdge(x, y) ==
  \/ x \in {0, TaskbarHeight - 1}
  \/ y \in {Top, Height - 1}

Start(what) == [what |-> what, x |-> Fill[what].x, y |-> Fill[what].y]

Doing(what) == [what |-> what, x |-> 0, y |-> 0]

NextPixel(s) ==
  IF s.x + 1 < Fill[s.what].width THEN [s EXCEPT !.x = @ + 1]
  ELSE IF s.y + 1 < Height THEN [s EXCEPT !.x = 0, !.y = @ + 1]
  ELSE IF After[s.what] \in DOMAIN Fill THEN Start(After[s.what])
  ELSE Doing(After[s.what])

(* ClearScreen, DrawRect and DrawRectHollow: one pixel.                    *)
FillPixel ==
  /\ step.what \in DOMAIN Fill
  /\ gl' = IF step.what = "edge" /\ ~OnEdge(step.x, step.y) THEN gl
           ELSE Draw(gl, {<<step.x, step.y>>}, Fill[step.what].colour, CoveredNow)
  /\ step' = NextPixel(step)
  /\ UNCHANGED <<glyph, OldPoint, cursorInitialized, savedPixels,
                 oldMousePacket, interrupts>>

(* ClearScreen's last line: setPrintPoint(0, 0, ...).                      *)
HomePrintPoint ==
  /\ step.what = "home"
  /\ gl' = [gl EXCEPT !.printPoint = Origin]
  /\ step' = Start("bar")
  /\ UNCHANGED <<glyph, OldPoint, cursorInitialized, savedPixels,
                 oldMousePacket, interrupts>>

(* DrawTaskbarIcon: save the print point, ...                              *)
SavePrintPoint ==
  /\ step.what = "save"
  /\ OldPoint' = gl.printPoint
  /\ step' = Doing("centre")
  /\ UNCHANGED <<glyph, gl, cursorInitialized, savedPixels, oldMousePacket,
                 interrupts>>

(* ... move it, ...                                                        *)
Centre == [x |-> TaskbarHeight \div 2 - CharWidth \div 2,
           y |-> Top + TaskbarHeight \div 2 - CharSize \div 2]

MovePrintPoint ==
  /\ step.what = "centre"
  /\ gl' = [gl EXCEPT !.printPoint = Centre]
  /\ step' = Doing("printc")
  /\ UNCHANGED <<glyph, OldPoint, cursorInitialized, savedPixels,
                 oldMousePacket, interrupts>>

(* ... print '=': printc again, this time with interrupts on.              *)
BeginGlyph ==
  /\ step.what = "printc"
  /\ LET point == Wrapped(gl.printPoint)
     IN  /\ gl' = [gl EXCEPT !.printPoint = point]
         /\ glyph' = [x |-> point.x, y |-> point.y]
         /\ step' = Doing(IF Fits(point) THEN "glyph" ELSE "restore")
  /\ UNCHANGED <<OldPoint, cursorInitialized, savedPixels, oldMousePacket,
                 interrupts>>

(* One turn of its loops, whose bounds are read from the print point every *)
(* time: the font says which pixels have ink.                              *)
GlyphPixel ==
  /\ step.what = "glyph"
  /\ glyph.y < gl.printPoint.y + CharSize
  /\ glyph.x < gl.printPoint.x + CharWidth
  /\ \/ gl' = gl
     \/ LET pixel == PixelPointer(glyph.x, glyph.y)
        IN  gl' = [Draw(gl, {pixel}, "ink", CoveredNow)
                     EXCEPT !.outside = @ \/ pixel \notin Screen]
  /\ glyph' = [glyph EXCEPT !.x = @ + 1]
  /\ UNCHANGED <<step, OldPoint, cursorInitialized, savedPixels,
                 oldMousePacket, interrupts>>

GlyphRow ==
  /\ step.what = "glyph"
  /\ glyph.y < gl.printPoint.y + CharSize
  /\ glyph.x >= gl.printPoint.x + CharWidth
  /\ glyph' = [x |-> gl.printPoint.x, y |-> glyph.y + 1]
  /\ UNCHANGED <<step, OldPoint, gl, cursorInitialized, savedPixels,
                 oldMousePacket, interrupts>>

EndGlyph ==
  /\ step.what = "glyph"
  /\ glyph.y >= gl.printPoint.y + CharSize
  /\ gl' = [gl EXCEPT !.printPoint.x = @ + CharWidth]
  /\ step' = Doing("restore")
  /\ UNCHANGED <<glyph, OldPoint, cursorInitialized, savedPixels,
                 oldMousePacket, interrupts>>

(* ... and put the print point back.  After that _start does nothing more. *)
RestorePrintPoint ==
  /\ step.what = "restore"
  /\ gl' = [gl EXCEPT !.printPoint = OldPoint]
  /\ step' = Doing("update")
  /\ UNCHANGED <<glyph, OldPoint, cursorInitialized, savedPixels,
                 oldMousePacket, interrupts>>

onStart ==
  \/ FillPixel \/ HomePrintPoint \/ SavePrintPoint \/ MovePrintPoint
  \/ BeginGlyph \/ GlyphPixel \/ GlyphRow \/ EndGlyph \/ RestorePrintPoint

(* onClick of button 1, and TryTaskbarClick.                               *)
OnTaskbarIcon(packet) == packet.x < TaskbarHeight /\ packet.y >= Top

Clicked(packet) ==
  IF packet.button1 /\ ~oldMousePacket.button1 /\ OnTaskbarIcon(packet)
  THEN Println(gl, ClickText, CoveredNow)
  ELSE gl

(* One mouse interrupt that completes a packet.                            *)
onInputMouse(packet) ==
  /\ interrupts < MaxInterrupts
  /\ LET g == Clicked(packet)
         cleared == ClearMouseCursor(g.screen, oldMousePacket)
     IN  /\ gl' = [g EXCEPT !.screen = DrawMouseCursor(cleared, packet)]
         /\ savedPixels' = SavePixelsBehindCursor(cleared, packet.x, packet.y)
  /\ cursorInitialized' = TRUE
  /\ oldMousePacket' = packet
  /\ interrupts' = interrupts + 1
  /\ UNCHANGED <<step, glyph, OldPoint>>

(* One keyboard interrupt of a key with a character; with Ctrl and s down  *)
(* it also prints "Saving.".                                               *)
onInputKeyboard(save) ==
  /\ interrupts < MaxInterrupts
  /\ LET typed == Printc(gl, CoveredNow)
     IN  gl' = IF save THEN Println(typed, SaveText, CoveredNow) ELSE typed
  /\ interrupts' = interrupts + 1
  /\ UNCHANGED <<step, glyph, OldPoint, cursorInitialized, savedPixels,
                 oldMousePacket>>

MousePackets ==
  {[x |-> place[1], y |-> place[2], button1 |-> down] :
     place \in Places, down \in BOOLEAN}

Next ==
  \/ onStart
  \/ \E packet \in MousePackets : onInputMouse(packet)
  \/ \E save \in BOOLEAN : onInputKeyboard(save)

Spec == Init /\ [][Next]_vars

-----------------------------------------------------------------------------
(* Correctness *)

TypeOK ==
  /\ step.what \in DOMAIN Fill \cup {"home", "save", "centre", "printc",
                                     "glyph", "restore", "update"}
  /\ glyph \in [x : Nat, y : Nat]
  /\ OldPoint \in [x : Nat, y : Nat]
  /\ gl \in [screen : [Screen -> Colour], ideal : [Screen -> Colour \ {"cursor"}],
             stale : SUBSET Screen, outside : BOOLEAN,
             printPoint : [x : Nat, y : Nat]]
  /\ cursorInitialized \in BOOLEAN
  /\ savedPixels \in
       [CursorBox -> [colour : Colour, from : Screen \cup {Nowhere}]]
  /\ oldMousePacket \in
       [x : 0 .. Width - 1, y : 0 .. Height - 1, button1 : BOOLEAN]
  /\ interrupts \in 0 .. MaxInterrupts

(* Every pixel the next ClearMouseCursor puts back was saved from the very *)
(* place it goes to: no black box of BugLog.txt #3, at the edges either.   *)
OnlySavedPixelsComeBack ==
  cursorInitialized =>
    \A o \in CursorBox :
      LET p == At(oldMousePacket.x, oldMousePacket.y, o)
      IN  p \in Screen => savedPixels[o].from = p

(* The cursor leaves no trace but on pixels that the program drew while    *)
(* the cursor covered them: elsewhere the screen, or what is saved for it, *)
(* is what the program drew last; and the cursor itself is there.          *)
TracesOnlyWhereCovered ==
  \A p \in Screen \ gl.stale :
    IF p \in CoveredNow
    THEN /\ savedPixels[<<p[1] - oldMousePacket.x,
                          p[2] - oldMousePacket.y>>].colour = gl.ideal[p]
         /\ gl.screen[p] = IF p \in CursorPixels(oldMousePacket)
                           THEN "cursor" ELSE gl.ideal[p]
    ELSE gl.screen[p] = gl.ideal[p]

(* Printed lines never move back: once onStart is over no text is printed  *)
(* over earlier text, whatever keys and clicks come.                       *)
TextMovesOn ==
  [][step.what = "update" =>
       \/ gl'.printPoint.y > gl.printPoint.y
       \/ /\ gl'.printPoint.y = gl.printPoint.y
          /\ gl'.printPoint.x >= gl.printPoint.x]_vars

(* The handlers never draw past the framebuffer: whatever has been typed   *)
(* and clicked, and wherever onStart left the print point, printc's checks *)
(* are enough when nothing comes between them and the drawing.             *)
HandlersPrintInside ==
  [][~onStart => gl'.outside = gl.outside]_vars

(* CorgiGL.cpp:84, "Prevent printing beyond framebuffer height".           *)
PrintingStaysInside == ~gl.outside
=============================================================================
