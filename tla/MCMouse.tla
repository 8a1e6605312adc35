-------------------------------- MODULE MCMouse --------------------------------
(* Movements that press and release, go both ways, stop at every edge of   *)
(* the screen and overflow; the bytes of Drag, Back and Far have bit 3 set, *)
(* those of Step, Rest and Jump are quiet.                                  *)
EXTENDS Mouse

Step == [dx |-> 2, dy |-> -256, buttons |-> {"left"}]
Rest == [dx |-> 0, dy |-> 0, buttons |-> {}]
Drag == [dx |-> 8, dy |-> 9, buttons |-> {"right", "middle"}]
Back == [dx |-> -3, dy |-> -4, buttons |-> {}]
Far == [dx |-> -300, dy |-> 5, buttons |-> {"left"}]
Jump == [dx |-> 257, dy |-> 2, buttons |-> {}]

MCMoves == {Step, Rest, Drag, Back, Far, Jump}
MCStrayBytes == {250, 170, 0}
=============================================================================
