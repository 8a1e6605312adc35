------------------------------- MODULE MCPS2Setup -------------------------------
(* A byte of a key (M, 0x32) and one of a packet (-2, 0xFE) which, read as *)
(* a configuration byte, turn both interrupts' bits and both ports off;    *)
(* the timer asks all the time.  The firmware leaves the mouse's interrupt *)
(* and port on (0x47) or off (0x65).                                       *)
EXTENDS PS2Setup

MCFirmwareConfigs == {71, 101}
MCUserBytes == [kbd |-> {50}, aux |-> {254}]
MCOtherIrqs == {0}
=============================================================================
