------------------------------- MODULE MCDesktop -------------------------------
(* A cursor of two pixels, one of them transparent; mouse positions in the *)
(* corner onStart begins with, in the middle, on the task bar's icon and   *)
(* at the edge, where half of the cursor is off the screen.                *)
EXTENDS Desktop

MCCursorBox == {<<0, 0>>, <<0, 1>>}
MCCursorShape == {<<0, 0>>}
MCPlaces == {<<0, 0>>, <<1, 1>>, <<0, 3>>, <<2, 4>>}
MCClickText == <<"letter", "space", "letter">>
MCSaveText == <<"letter">>
=============================================================================
