-------------------------------- MODULE Pointer --------------------------------
(***************************************************************************)
(* What a pointer driver promises: every movement the device reports is    *)
(* applied to the position exactly once and in order, and the desktop is   *)
(* shown the result of each before the next one is complete.               *)
(***************************************************************************)
EXTENDS Integers

CONSTANTS
  Moves,   (* the movements: records of dx, dy (dy grows upwards), buttons  *)
  Width,   (* the screen                                                    *)
  Height

VARIABLES
  latest,   (* where the movements received so far lead                     *)
  pending,  (* the last of them has not been shown yet                      *)
  shown     (* what the desktop was told last                               *)

vars == <<latest, pending, shown>>

Bounded(n, limit) == IF n < 0 THEN 0 ELSE IF n >= limit THEN limit - 1 ELSE n

Apply(report, move) ==
  [x |-> Bounded(report.x + move.dx, Width),
   y |-> Bounded(report.y - move.dy, Height),
   buttons |-> move.buttons]

Start == [x |-> 0, y |-> 0, buttons |-> {}]

Init == latest = Start /\ pending = FALSE /\ shown = Start

Complete(move) ==
  /\ ~pending
  /\ pending' = TRUE
  /\ latest' = Apply(latest, move)
  /\ UNCHANGED shown

Show ==
  /\ pending
  /\ pending' = FALSE
  /\ shown' = latest
  /\ UNCHANGED latest

Next == Show \/ \E move \in Moves : Complete(move)

Spec == Init /\ [][Next]_vars
=============================================================================
