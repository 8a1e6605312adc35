-------------------------------- MODULE MCPanic --------------------------------
(***************************************************************************)
(* Screens of the usual modes and at the edges: two too narrow for the     *)
(* page, one where a line of the message just fits below, one where it     *)
(* just does not, one with padding.  Messages of lines shorter, as long as *)
(* and longer than the line buffer, empty ones among them.                 *)
(***************************************************************************)
EXTENDS Panic

Screen(width, height, stride) ==
  [Width |-> width, Height |-> height, PixelsPerScanLine |-> stride]

MCScreens ==
  {Screen(640, 480, 640), Screen(800, 600, 800), Screen(1024, 768, 1056),
   Screen(1280, 552, 1280), Screen(1280, 551, 1280), Screen(10, 16, 12)}

Line(n) == [i \in 1 .. n |-> IF i = 2 THEN " " ELSE "a"]

MCMessages ==
  {<<>>, <<"\n">>, <<"a", "\t", "b", "\r", "\n", "c">>}
    \cup {Line(n) : n \in {1, 127, 128, 140}}
    \cup {Line(m) \o <<"\n">> \o Line(n) : m, n \in {0, 3, 127, 128}}
    \cup {Line(3) \o <<"\n", "\n">> \o Line(n) : n \in {0, 2}}
=============================================================================
