------------------------------ MODULE MCKeyboard ------------------------------
(* Both shifts, both Ctrls, which share a code, Caps Lock and s.  A reset  *)
(* keyboard answers 0xFA and 0xAA; the latter is a release of left shift.  *)
(* A byte of the mouse may be any, Enter's 0x1C for one.                   *)
EXTENDS Keyboard

MCKeys == {LeftShift, RightShift, Ctrl, CapsLock, LetterS}
MCExtendedKeys == {Ctrl}
MCStrayBytes == {250, 170, Enter}
=============================================================================
