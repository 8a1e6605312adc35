----------------------------- MODULE PS2SetupProofs -----------------------------
(***************************************************************************)
(* The set-up of user input and the two handlers, for every configuration  *)
(* byte the firmware may leave, whatever the user and the other devices do *)
(* and however often the hardware is slower than the kernel waits.  Two    *)
(* theorems need more; their hypotheses say what.                          *)
(***************************************************************************)
EXTENDS PS2Setup, SequenceTheorems, FiniteSetTheorems, TLAPS

-----------------------------------------------------------------------------
(* InitializeKernel, access by access.                                     *)

Op == {"out", "wait", "waitInput", "in", "flush", "drain", "inStatus",
       "outStatus", "saveMasks", "restoreMasks", "sti", "kbd", "aux",
       "undefined"}

Access == [op : Op, port : Int, value : Int]

LEMMA OutIsAccess ==
  ASSUME NEW port \in Int, NEW value \in Int
  PROVE  Out(port, value) \in Access
  BY DEF Out, Access, Op

LEMMA DoIsAccess ==
  ASSUME NEW op \in Op
  PROVE  Do(op) \in Access
  BY DEF Do, Access

LEMMA DisableIs ==
  /\ DisablePS2Devices \in Seq(Access) /\ Len(DisablePS2Devices) = 3
  /\ DisablePS2Devices[1] = Out(100, 173)
  /\ DisablePS2Devices[2] = Out(100, 174)
  /\ DisablePS2Devices[3] = Do("flush")
  BY OutIsAccess, DoIsAccess DEF Op, DisablePS2Devices

LEMMA RemapIs ==
  /\ RemapPIC \in Seq(Access) /\ Len(RemapPIC) = 10
  /\ RemapPIC[1] = Do("saveMasks")
  /\ RemapPIC[2] = Out(32, 17) /\ RemapPIC[3] = Out(160, 17)
  /\ RemapPIC[4] = Out(33, 32) /\ RemapPIC[5] = Out(161, 40)
  /\ RemapPIC[6] = Out(33, 4) /\ RemapPIC[7] = Out(161, 2)
  /\ RemapPIC[8] = Out(33, 1) /\ RemapPIC[9] = Out(161, 1)
  /\ RemapPIC[10] = Do("restoreMasks")
  BY OutIsAccess, DoIsAccess
  DEF Op, RemapPIC, PIC1_COMMAND, PIC1_DATA, PIC2_COMMAND, PIC2_DATA, ICW1

LEMMA MouseWriteIs ==
  /\ MouseWrite(244) \in Seq(Access) /\ Len(MouseWrite(244)) = 4
  /\ MouseWrite(244)[1] = Do("wait") /\ MouseWrite(244)[2] = Out(100, 212)
  /\ MouseWrite(244)[3] = Do("wait") /\ MouseWrite(244)[4] = Out(96, 244)
  BY OutIsAccess, DoIsAccess DEF Op, MouseWrite

LEMMA MouseReadIs ==
  /\ MouseRead \in Seq(Access) /\ Len(MouseRead) = 2
  /\ MouseRead[1] = Do("waitInput") /\ MouseRead[2] = Do("in")
  BY OutIsAccess, DoIsAccess DEF Op, MouseRead

(* u is s and t put together, of m and n elements.                         *)
Joined(u, s, m, t, n) ==
  /\ u \in Seq(Access) /\ Len(u) = m + n
  /\ \A i \in 1 .. m : u[i] = s[i]
  /\ \A i \in 1 .. n : u[m + i] = t[i]

LEMMA JoinIs ==
  ASSUME NEW s \in Seq(Access), NEW t \in Seq(Access), NEW u, u = s \o t,
         NEW m \in Nat, Len(s) = m, NEW n \in Nat, Len(t) = n
  PROVE  Joined(u, s, m, t, n)
<1>1. /\ u \in Seq(Access) /\ Len(u) = m + n
      /\ \A i \in 1 .. m + n : u[i] = IF i <= m THEN s[i] ELSE t[i - m]
  BY ConcatProperties
<1>2. ASSUME NEW i \in 1 .. n
      PROVE  u[m + i] = t[i]
  <2>1. m + i \in 1 .. m + n /\ ~(m + i <= m) /\ (m + i) - m = i
    OBVIOUS
  <2> QED
    BY <1>1, <2>1
<1> QED
  BY <1>1, <1>2 DEF Joined

LEMMA PrepareIs ==
  /\ PreparePS2Mouse \in Seq(Access) /\ Len(PreparePS2Mouse) = 15
  /\ PreparePS2Mouse[1] = Out(100, 168)
  /\ PreparePS2Mouse[2] = Do("wait") /\ PreparePS2Mouse[3] = Out(100, 32)
  /\ PreparePS2Mouse[4] = Do("waitInput")
  /\ PreparePS2Mouse[5] = Do("inStatus")
  /\ PreparePS2Mouse[6] = Do("wait") /\ PreparePS2Mouse[7] = Out(100, 96)
  /\ PreparePS2Mouse[8] = Do("wait") /\ PreparePS2Mouse[9] = Do("outStatus")
  /\ PreparePS2Mouse[10] = Do("wait") /\ PreparePS2Mouse[11] = Out(100, 212)
  /\ PreparePS2Mouse[12] = Do("wait") /\ PreparePS2Mouse[13] = Out(96, 244)
  /\ PreparePS2Mouse[14] = Do("waitInput") /\ PreparePS2Mouse[15] = Do("in")
<1> DEFINE Config == << Out(100, 168),
     Do("wait"), Out(100, 32), Do("waitInput"), Do("inStatus"),
     Do("wait"), Out(100, 96), Do("wait"), Do("outStatus") >>
<1>1. /\ Config \in Seq(Access) /\ Len(Config) = 9
      /\ Config[1] = Out(100, 168)
      /\ Config[2] = Do("wait") /\ Config[3] = Out(100, 32)
      /\ Config[4] = Do("waitInput") /\ Config[5] = Do("inStatus")
      /\ Config[6] = Do("wait") /\ Config[7] = Out(100, 96)
      /\ Config[8] = Do("wait") /\ Config[9] = Do("outStatus")
  BY OutIsAccess, DoIsAccess DEF Op
<1>2. PreparePS2Mouse = (Config \o MouseWrite(244)) \o MouseRead
  BY DEF PreparePS2Mouse
<1> HIDE DEF Config
<1> DEFINE Both == Config \o MouseWrite(244)
<1>3. /\ Both \in Seq(Access) /\ Len(Both) = 9 + 4
      /\ \A i \in 1 .. 9 : Both[i] = Config[i]
      /\ \A i \in 1 .. 4 : Both[9 + i] = MouseWrite(244)[i]
  <2> HIDE DEF Both
  <2>1. Both = Config \o MouseWrite(244)
    BY DEF Both
  <2>2. Joined(Both, Config, 9, MouseWrite(244), 4)
    <3>1. Config \in Seq(Access) /\ Len(Config) = 9
      BY <1>1
    <3>2. MouseWrite(244) \in Seq(Access) /\ Len(MouseWrite(244)) = 4
      BY MouseWriteIs
    <3> QED
      BY <2>1, <3>1, <3>2, JoinIs, Zenon
  <2> QED
    BY <2>2 DEF Joined
<1>4. PreparePS2Mouse = Both \o MouseRead
  BY <1>2
<1> HIDE DEF Both
<1>5. /\ PreparePS2Mouse \in Seq(Access) /\ Len(PreparePS2Mouse) = 13 + 2
      /\ \A i \in 1 .. 13 : PreparePS2Mouse[i] = Both[i]
      /\ \A i \in 1 .. 2 : PreparePS2Mouse[13 + i] = MouseRead[i]
  <2>1. Joined(PreparePS2Mouse, Both, 13, MouseRead, 2)
    <3>1. MouseRead \in Seq(Access) /\ Len(MouseRead) = 2
      BY MouseReadIs
    <3>2. Both \in Seq(Access) /\ Len(Both) = 13
      BY <1>3
    <3> QED
      BY <3>1, <3>2, <1>4, JoinIs
  <2> QED
    BY <2>1 DEF Joined
<1>6. /\ Both[10] = Do("wait") /\ Both[11] = Out(100, 212)
      /\ Both[12] = Do("wait") /\ Both[13] = Out(96, 244)
  BY <1>3, MouseWriteIs
<1>7. PreparePS2Mouse[14] = Do("waitInput") /\ PreparePS2Mouse[15] = Do("in")
  BY <1>5, MouseReadIs
<1> QED
  BY <1>1, <1>3, <1>5, <1>6, <1>7

LEMMA EnableIs ==
  /\ EnablePS2Devices \in Seq(Access) /\ Len(EnablePS2Devices) = 10
  /\ EnablePS2Devices[1] = Out(100, 174) /\ EnablePS2Devices[2] = Out(100, 173)
  /\ EnablePS2Devices[3] = Out(96, 255) /\ EnablePS2Devices[4] = Do("drain")
  /\ EnablePS2Devices[5] = Out(100, 212) /\ EnablePS2Devices[6] = Out(96, 255)
  /\ EnablePS2Devices[7] = Do("drain")
  /\ EnablePS2Devices[8] = Out(96, 244) /\ EnablePS2Devices[9] = Out(100, 212)
  /\ EnablePS2Devices[10] = Out(96, 244)
  BY OutIsAccess, DoIsAccess DEF Op, EnablePS2Devices

LEMMA MaskingIs ==
  ASSUME NEW last, last = << Out(PIC1_DATA, 249), Out(PIC2_DATA, 239), Do("sti") >>
  PROVE  /\ last \in Seq(Access) /\ Len(last) = 3
         /\ last[1] = Out(33, 249) /\ last[2] = Out(161, 239)
         /\ last[3] = Do("sti")
  BY OutIsAccess, DoIsAccess DEF Op, PIC1_DATA, PIC2_DATA

LEMMA ProgramIs ==
  /\ InitializeKernel \in Seq(Access) /\ Len(InitializeKernel) = 41
  /\ \A i \in 1 .. 3 : InitializeKernel[i] = DisablePS2Devices[i]
  /\ \A i \in 1 .. 10 : InitializeKernel[3 + i] = RemapPIC[i]
  /\ \A i \in 1 .. 15 : InitializeKernel[13 + i] = PreparePS2Mouse[i]
  /\ \A i \in 1 .. 10 : InitializeKernel[28 + i] = EnablePS2Devices[i]
  /\ InitializeKernel[39] = Out(33, 249)
  /\ InitializeKernel[40] = Out(161, 239)
  /\ InitializeKernel[41] = Do("sti")
<1> DEFINE Remapped == DisablePS2Devices \o RemapPIC
           Prepared == Remapped \o PreparePS2Mouse
           Enabled == Prepared \o EnablePS2Devices
           Last == << Out(PIC1_DATA, 249), Out(PIC2_DATA, 239), Do("sti") >>
<1>1. InitializeKernel = Enabled \o Last
  BY DEF InitializeKernel
<1>2. /\ Last \in Seq(Access) /\ Len(Last) = 3
      /\ Last[1] = Out(33, 249) /\ Last[2] = Out(161, 239)
      /\ Last[3] = Do("sti")
  BY MaskingIs
<1> HIDE DEF Last
<1>3. DisablePS2Devices \in Seq(Access) /\ Len(DisablePS2Devices) = 3
  BY DisableIs
<1>4. RemapPIC \in Seq(Access) /\ Len(RemapPIC) = 10
  BY RemapIs
<1>5. PreparePS2Mouse \in Seq(Access) /\ Len(PreparePS2Mouse) = 15
  BY PrepareIs
<1>6. EnablePS2Devices \in Seq(Access) /\ Len(EnablePS2Devices) = 10
  BY EnableIs
<1>7. Joined(Remapped, DisablePS2Devices, 3, RemapPIC, 10)
  BY <1>3, <1>4, JoinIs, Zenon
<1> HIDE DEF Remapped
<1>8. Remapped \in Seq(Access) /\ Len(Remapped) = 13
  BY <1>7 DEF Joined
<1>9. Joined(Prepared, Remapped, 13, PreparePS2Mouse, 15)
  BY <1>5, <1>8, JoinIs, Zenon
<1> HIDE DEF Prepared
<1>10. Prepared \in Seq(Access) /\ Len(Prepared) = 28
  BY <1>9 DEF Joined
<1>11. Joined(Enabled, Prepared, 28, EnablePS2Devices, 10)
  BY <1>6, <1>10, JoinIs, Zenon
<1> HIDE DEF Enabled
<1>12. Enabled \in Seq(Access) /\ Len(Enabled) = 38
  BY <1>11 DEF Joined
<1>13. Joined(InitializeKernel, Enabled, 38, Last, 3)
  <2>1. Last \in Seq(Access) /\ Len(Last) = 3
    BY <1>2
  <2> QED
    BY <1>1, <2>1, <1>12, JoinIs
<1>14. \A i \in 1 .. 38 : InitializeKernel[i] = Enabled[i]
  BY <1>13 DEF Joined
<1>23. \A i \in 1 .. 3 : InitializeKernel[38 + i] = Last[i]
  BY <1>13 DEF Joined
<1>24. InitializeKernel \in Seq(Access) /\ Len(InitializeKernel) = 41
  BY <1>13 DEF Joined
<1>15. /\ \A i \in 1 .. 28 : Enabled[i] = Prepared[i]
       /\ \A i \in 1 .. 10 : Enabled[28 + i] = EnablePS2Devices[i]
  BY <1>11 DEF Joined
<1>16. /\ \A i \in 1 .. 13 : Prepared[i] = Remapped[i]
       /\ \A i \in 1 .. 15 : Prepared[13 + i] = PreparePS2Mouse[i]
  BY <1>9 DEF Joined
<1>17. /\ \A i \in 1 .. 3 : Remapped[i] = DisablePS2Devices[i]
       /\ \A i \in 1 .. 10 : Remapped[3 + i] = RemapPIC[i]
  BY <1>7 DEF Joined
<1>18. ASSUME NEW i \in 1 .. 3
       PROVE  InitializeKernel[i] = DisablePS2Devices[i]
  <2>1. InitializeKernel[i] = Enabled[i]
    BY <1>14
  <2>2. Enabled[i] = Prepared[i]
    BY <1>15
  <2>3. Prepared[i] = Remapped[i]
    BY <1>16
  <2>4. Remapped[i] = DisablePS2Devices[i]
    BY <1>17
  <2> QED
    BY <2>1, <2>2, <2>3, <2>4
<1>19. ASSUME NEW i \in 1 .. 10
       PROVE  InitializeKernel[3 + i] = RemapPIC[i]
  <2>1. InitializeKernel[3 + i] = Enabled[3 + i]
    BY <1>14
  <2>2. Enabled[3 + i] = Prepared[3 + i]
    BY <1>15
  <2>3. Prepared[3 + i] = Remapped[3 + i]
    BY <1>16
  <2>4. Remapped[3 + i] = RemapPIC[i]
    BY <1>17
  <2> QED
    BY <2>1, <2>2, <2>3, <2>4
<1>20. ASSUME NEW i \in 1 .. 15
       PROVE  InitializeKernel[13 + i] = PreparePS2Mouse[i]
  <2>1. InitializeKernel[13 + i] = Enabled[13 + i]
    BY <1>14
  <2>2. Enabled[13 + i] = Prepared[13 + i]
    BY <1>15
  <2>3. Prepared[13 + i] = PreparePS2Mouse[i]
    BY <1>16
  <2> QED
    BY <2>1, <2>2, <2>3
<1>21. ASSUME NEW i \in 1 .. 10
       PROVE  InitializeKernel[28 + i] = EnablePS2Devices[i]
  <2>1. InitializeKernel[28 + i] = Enabled[28 + i]
    BY <1>14
  <2>2. Enabled[28 + i] = EnablePS2Devices[i]
    BY <1>15
  <2> QED
    BY <2>1, <2>2
<1>22. /\ InitializeKernel[38 + 1] = Last[1] /\ InitializeKernel[38 + 2] = Last[2]
       /\ InitializeKernel[38 + 3] = Last[3]
  BY <1>23
<1> QED
  BY <1>2, <1>22, <1>24, <1>18, <1>19, <1>20, <1>21, <1>22

(* The same, every access by its place.                                    *)
LEMMA ProgramAt ==
  LET P == InitializeKernel
  IN  /\ P[1] = Out(100, 173) /\ P[2] = Out(100, 174) /\ P[3] = Do("flush")
      /\ P[4] = Do("saveMasks") /\ P[5] = Out(32, 17) /\ P[6] = Out(160, 17)
      /\ P[7] = Out(33, 32) /\ P[8] = Out(161, 40) /\ P[9] = Out(33, 4)
      /\ P[10] = Out(161, 2) /\ P[11] = Out(33, 1) /\ P[12] = Out(161, 1)
      /\ P[13] = Do("restoreMasks") /\ P[14] = Out(100, 168)
      /\ P[15] = Do("wait") /\ P[16] = Out(100, 32) /\ P[17] = Do("waitInput")
      /\ P[18] = Do("inStatus") /\ P[19] = Do("wait") /\ P[20] = Out(100, 96)
      /\ P[21] = Do("wait") /\ P[22] = Do("outStatus") /\ P[23] = Do("wait")
      /\ P[24] = Out(100, 212) /\ P[25] = Do("wait") /\ P[26] = Out(96, 244)
      /\ P[27] = Do("waitInput") /\ P[28] = Do("in") /\ P[29] = Out(100, 174)
      /\ P[30] = Out(100, 173) /\ P[31] = Out(96, 255) /\ P[32] = Do("drain")
      /\ P[33] = Out(100, 212) /\ P[34] = Out(96, 255) /\ P[35] = Do("drain")
      /\ P[36] = Out(96, 244) /\ P[37] = Out(100, 212) /\ P[38] = Out(96, 244)
      /\ P[39] = Out(33, 249) /\ P[40] = Out(161, 239) /\ P[41] = Do("sti")
<1> DEFINE P == InitializeKernel
<1>1. P[39] = Out(33, 249) /\ P[40] = Out(161, 239) /\ P[41] = Do("sti")
  BY ProgramIs
<1>2. P[1] = Out(100, 173) /\ P[2] = Out(100, 174) /\ P[3] = Do("flush")
  <2>1. \A i \in 1 .. 3 : P[i] = DisablePS2Devices[i]
    BY ProgramIs
  <2> HIDE DEF P
  <2> QED
    BY <2>1, DisableIs
<1>3. /\ P[3 + 1] = Do("saveMasks")
      /\ P[3 + 2] = Out(32, 17) /\ P[3 + 3] = Out(160, 17)
      /\ P[3 + 4] = Out(33, 32) /\ P[3 + 5] = Out(161, 40)
      /\ P[3 + 6] = Out(33, 4) /\ P[3 + 7] = Out(161, 2)
      /\ P[3 + 8] = Out(33, 1) /\ P[3 + 9] = Out(161, 1)
      /\ P[3 + 10] = Do("restoreMasks")
  <2>1. \A i \in 1 .. 10 : P[3 + i] = RemapPIC[i]
    BY ProgramIs
  <2> HIDE DEF P
  <2> QED
    BY <2>1, RemapIs
<1>4. /\ P[13 + 1] = Out(100, 168) /\ P[13 + 2] = Do("wait")
      /\ P[13 + 3] = Out(100, 32) /\ P[13 + 4] = Do("waitInput")
      /\ P[13 + 5] = Do("inStatus") /\ P[13 + 6] = Do("wait")
      /\ P[13 + 7] = Out(100, 96) /\ P[13 + 8] = Do("wait")
      /\ P[13 + 9] = Do("outStatus") /\ P[13 + 10] = Do("wait")
      /\ P[13 + 11] = Out(100, 212) /\ P[13 + 12] = Do("wait")
      /\ P[13 + 13] = Out(96, 244) /\ P[13 + 14] = Do("waitInput")
      /\ P[13 + 15] = Do("in")
  <2>1. \A i \in 1 .. 15 : P[13 + i] = PreparePS2Mouse[i]
    BY ProgramIs
  <2> HIDE DEF P
  <2>2. /\ P[13 + 1] = PreparePS2Mouse[1]
        /\ P[13 + 2] = PreparePS2Mouse[2]
        /\ P[13 + 3] = PreparePS2Mouse[3]
        /\ P[13 + 4] = PreparePS2Mouse[4]
        /\ P[13 + 5] = PreparePS2Mouse[5]
        /\ P[13 + 6] = PreparePS2Mouse[6]
        /\ P[13 + 7] = PreparePS2Mouse[7]
        /\ P[13 + 8] = PreparePS2Mouse[8]
        /\ P[13 + 9] = PreparePS2Mouse[9]
        /\ P[13 + 10] = PreparePS2Mouse[10]
        /\ P[13 + 11] = PreparePS2Mouse[11]
        /\ P[13 + 12] = PreparePS2Mouse[12]
        /\ P[13 + 13] = PreparePS2Mouse[13]
        /\ P[13 + 14] = PreparePS2Mouse[14]
        /\ P[13 + 15] = PreparePS2Mouse[15]
    BY <2>1
  <2> QED
    BY <2>2, PrepareIs
<1>5. /\ P[28 + 1] = Out(100, 174) /\ P[28 + 2] = Out(100, 173)
      /\ P[28 + 3] = Out(96, 255) /\ P[28 + 4] = Do("drain")
      /\ P[28 + 5] = Out(100, 212) /\ P[28 + 6] = Out(96, 255)
      /\ P[28 + 7] = Do("drain") /\ P[28 + 8] = Out(96, 244)
      /\ P[28 + 9] = Out(100, 212) /\ P[28 + 10] = Out(96, 244)
  <2>1. \A i \in 1 .. 10 : P[28 + i] = EnablePS2Devices[i]
    BY ProgramIs
  <2> HIDE DEF P
  <2>2. /\ P[28 + 1] = EnablePS2Devices[1]
        /\ P[28 + 2] = EnablePS2Devices[2]
        /\ P[28 + 3] = EnablePS2Devices[3]
        /\ P[28 + 4] = EnablePS2Devices[4]
        /\ P[28 + 5] = EnablePS2Devices[5]
        /\ P[28 + 6] = EnablePS2Devices[6]
        /\ P[28 + 7] = EnablePS2Devices[7]
        /\ P[28 + 8] = EnablePS2Devices[8]
        /\ P[28 + 9] = EnablePS2Devices[9]
        /\ P[28 + 10] = EnablePS2Devices[10]
    BY <2>1
  <2> QED
    BY <2>2, EnableIs
<1> QED
  BY <1>1, <1>2, <1>3, <1>4, <1>5 DEF P

(* What is left of it after some accesses.                                 *)
LEMMA RestIs ==
  ASSUME NEW k \in 1 .. 41
  PROVE  /\ SubSeq(InitializeKernel, k, 41) # <<>>
         /\ Head(SubSeq(InitializeKernel, k, 41)) = InitializeKernel[k]
         /\ Tail(SubSeq(InitializeKernel, k, 41))
              = SubSeq(InitializeKernel, k + 1, 41)
         /\ Len(SubSeq(InitializeKernel, k + 1, 41)) = 41 - k
         /\ k = 41 => SubSeq(InitializeKernel, k + 1, 41) = <<>>
<1>1. InitializeKernel \in Seq(Access) /\ Len(InitializeKernel) = 41
  BY ProgramIs
<1> DEFINE P == InitializeKernel
<1> HIDE DEF P
<1>2. P \in Seq(Access) /\ Len(P) = 41
  BY <1>1 DEF P
<1>3. /\ Head(SubSeq(P, k, 41)) = P[k]
      /\ Tail(SubSeq(P, k, 41)) = SubSeq(P, k + 1, 41)
  BY <1>2, HeadTailOfSubSeq
<1>6. SubSeq(P, k, 41) # <<>>
  <2> DEFINE rest == SubSeq(P, k, 41)
  <2>1. Len(rest) = 41 - k + 1
    BY <1>2, SubSeqProperties
  <2> HIDE DEF rest
  <2>2. rest # <<>>
    BY <2>1
  <2> QED
    BY <2>2 DEF rest
<1>4. Len(SubSeq(P, k + 1, 41)) = 41 - k
  BY <1>2, SubSeqProperties
<1>5. k = 41 => SubSeq(P, k + 1, 41) = <<>>
  BY <1>2, SubSeqEmpty
<1> QED
  BY <1>3, <1>4, <1>5, <1>6 DEF P

(* Where in it each kind of access is.                                     *)
Written == {1, 2, 14, 16, 20, 22, 24, 26, 29, 30, 31, 33, 34, 36, 37, 38}

LEMMA Kinds ==
  ASSUME NEW k \in 1 .. 41, NEW access, access = InitializeKernel[k]
  PROVE  /\ access.op \in Op \ {"kbd", "aux", "undefined"}
         /\ access.op = "wait" => k \in {15, 19, 21, 23, 25}
         /\ access.op = "waitInput" => k \in {17, 27}
         /\ access.op = "flush" => k = 3
         /\ access.op = "drain" => k \in {32, 35}
         /\ access.op = "in" => k = 28
         /\ access.op = "inStatus" => k = 18
         /\ access.op = "outStatus" => k = 22
         /\ access.op = "saveMasks" => k = 4
         /\ access.op = "restoreMasks" => k = 13
         /\ access.op = "sti" => k = 41
         /\ access.op = "out" =>
              /\ access.port \in {96, 100} => k \in Written
              /\ access.port = 32 => k = 5 /\ access.value = 17
              /\ access.port = 160 => k = 6 /\ access.value = 17
              /\ access.port = 33 => k \in {7, 9, 11, 39}
              /\ access.port = 161 => k \in {8, 10, 12, 40}
<1>1. CASE k \in 1 .. 10
  BY <1>1, ProgramAt DEF Out, Do, Op, Written
<1>2. CASE k \in 11 .. 20
  BY <1>2, ProgramAt DEF Out, Do, Op, Written
<1>3. CASE k \in 21 .. 30
  BY <1>3, ProgramAt DEF Out, Do, Op, Written
<1>4. CASE k \in 31 .. 41
  BY <1>4, ProgramAt DEF Out, Do, Op, Written
<1> QED
  BY <1>1, <1>2, <1>3, <1>4

-----------------------------------------------------------------------------
(* The interrupt controllers.                                              *)

(* The access that comes next, while the kernel is setting up.             *)
At == 42 - Len(todo)

BufferOK == out = <<>> \/ \E b : out = <<b>> /\ b.from \in Source

(* Line 2 leads to the second controller: nothing requests on it.          *)
RegistersOK ==
  /\ sti \in BOOLEAN
  /\ request \subseteq Irq \ {2}
  /\ service \subseteq Irq
  /\ masked \subseteq Irq /\ saved \subseteq Irq
  /\ icw \in [1 .. 2 -> 0 .. 3]
  /\ base \in [1 .. 2 -> Int]

(* Until interrupts are on nothing is in service; how far the controllers  *)
(* are initialised, based and masked follows from the next access.         *)
SettingUp ==
  ~sti =>
    /\ At \in 1 .. 41 /\ todo = SubSeq(InitializeKernel, At, 41)
    /\ service = {}
    /\ icw[1] = IF At <= 5 THEN 0 ELSE IF At <= 7 THEN 3
                ELSE IF At <= 9 THEN 2 ELSE IF At <= 11 THEN 1 ELSE 0
    /\ icw[2] = IF At <= 6 THEN 0 ELSE IF At <= 8 THEN 3
                ELSE IF At <= 10 THEN 2 ELSE IF At <= 12 THEN 1 ELSE 0
    /\ At >= 8 => base[1] = 32
    /\ At >= 9 => base[2] = 40
    /\ At >= 40 => masked \cap Lines(1) = Lines(1) \ {1, 2}
    /\ At >= 41 => masked \cap Lines(2) = Lines(2) \ {12}

EndBoth == << Out(PIC2_COMMAND, PIC_EOI), Out(PIC1_COMMAND, PIC_EOI) >>
EndOne == << Out(PIC1_COMMAND, PIC_EOI) >>

(* From then on a handler runs for what is in service, and only those two. *)
Running ==
  sti =>
    /\ icw[1] = 0 /\ icw[2] = 0
    /\ base[1] = 32 /\ base[2] = 40
    /\ masked = Irq \ {1, 2, 12}
    /\ \/ todo = <<>> /\ service = {}
       \/ todo = Keyboard_handler /\ service = {1}
       \/ todo = Mouse_handler /\ service = {2, 12}
       \/ todo = EndBoth /\ service = {2, 12}
       \/ todo = EndOne /\ service \in {{1}, {2}}

PicInv == BufferOK /\ RegistersOK /\ SettingUp /\ Running

LEMMA HandlersAre ==
  /\ Keyboard_handler # <<>> /\ Head(Keyboard_handler) = Do("kbd")
  /\ Tail(Keyboard_handler) = EndOne
  /\ Mouse_handler # <<>> /\ Head(Mouse_handler) = Do("aux")
  /\ Tail(Mouse_handler) = EndBoth
  /\ EndBoth # <<>> /\ Head(EndBoth) = Out(160, 32) /\ Tail(EndBoth) = EndOne
  /\ EndOne # <<>> /\ Head(EndOne) = Out(32, 32) /\ Tail(EndOne) = <<>>
  BY DEF Keyboard_handler, Mouse_handler, EndBoth, EndOne,
         PIC1_COMMAND, PIC2_COMMAND, PIC_EOI

LEMMA LevelIs ==
  ASSUME NEW buffer, NEW byte,
         buffer = <<>> \/ \E b : buffer = <<b>> /\ b.from \in Source
  PROVE  Level(buffer, byte) \subseteq {1, 12}
<1> SUFFICES ASSUME NEW line \in Level(buffer, byte)
             PROVE  line \in {1, 12}
  OBVIOUS
<1>1. PICK i \in DOMAIN buffer : line = Line[buffer[i].from]
  BY DEF Level
<1>2. PICK b : buffer = <<b>> /\ b.from \in Source
  BY <1>1
<1>3. buffer[i] = b
  BY <1>1, <1>2
<1> QED
  BY <1>1, <1>2, <1>3 DEF Line, Source, Device

(* Whatever drives the lines asks on lines 1 and 12 only, and what was     *)
(* latched for the lines that are up stays so.                             *)
LEMMA DriveIs ==
  ASSUME BufferOK, NEW buffer, NEW byte, Drive(buffer, byte),
         buffer = <<>> \/ \E b : buffer = <<b>> /\ b.from \in Source
  PROVE  /\ BufferOK' /\ out' = buffer /\ config' = byte
         /\ request' \subseteq request \cup {1, 12}
         /\ Level(out, config) \subseteq request
              => Level(out, config)' \subseteq request'
         /\ buffer = <<>> => Level(out, config)' = {}
<1> DEFINE before == Level(out, config)
           after == Level(buffer, byte)
<1>1. /\ out' = buffer /\ config' = byte
      /\ \E forgotten \in SUBSET (before \ after) :
           request' = (request \ forgotten) \cup (after \ before)
  BY DEF Drive
<1>2. BufferOK'
  BY <1>1 DEF BufferOK
<1>3. after \subseteq {1, 12}
  BY LevelIs
<1>4. Level(out, config)' = after
  BY <1>1 DEF Level
<1>5. buffer = <<>> => after = {}
  BY DEF Level
<1> HIDE DEF before, after
<1>6. request' \subseteq request \cup {1, 12}
  BY <1>1, <1>3
<1>7. before \subseteq request => after \subseteq request'
  BY <1>1
<1> QED
  BY <1>1, <1>2, <1>4, <1>5, <1>6, <1>7 DEF before

LEMMA ConsumeIs ==
  ASSUME BufferOK, Consume
  PROVE  /\ BufferOK' /\ out' = <<>> /\ config' = config
         /\ request' \subseteq request \cup {1, 12}
         /\ Level(out, config)' = {}
  BY DriveIs DEF Consume

(* What the hardware and the user do disturbs none of this.                *)
LEMMA OthersKeepPic ==
  ASSUME PicInv, UNCHANGED <<todo, sti, saved, service, masked, base, icw>>,
         BufferOK', request' \subseteq request \cup {1, 12} \cup OtherIrqs
  PROVE  PicInv'
<1>1. RegistersOK'
  BY PS2Assumption DEF PicInv, RegistersOK, Irq
<1>2. SettingUp'
  BY DEF PicInv, SettingUp, At
<1>3. Running'
  BY DEF PicInv, Running
<1> QED
  BY <1>1, <1>2, <1>3 DEF PicInv

(* While setting up the next access is the one of its place, and there is  *)
(* no handler.                                                             *)
LEMMA NextIs ==
  ASSUME SettingUp, ~sti
  PROVE  /\ At \in 1 .. 41 /\ todo # <<>>
         /\ Head(todo) = InitializeKernel[At]
         /\ GoOn => /\ At' = At + 1
                    /\ todo' = SubSeq(InitializeKernel, At + 1, 41)
                    /\ At = 41 => todo' = <<>>
<1>1. At \in 1 .. 41 /\ todo = SubSeq(InitializeKernel, At, 41)
  BY DEF SettingUp
<1>2. /\ todo # <<>> /\ Head(todo) = InitializeKernel[At]
      /\ Tail(todo) = SubSeq(InitializeKernel, At + 1, 41)
      /\ Len(SubSeq(InitializeKernel, At + 1, 41)) = 41 - At
      /\ At = 41 => SubSeq(InitializeKernel, At + 1, 41) = <<>>
  <2> DEFINE k == At
  <2>1. k \in 1 .. 41 /\ todo = SubSeq(InitializeKernel, k, 41)
    BY <1>1
  <2> HIDE DEF k
  <2>2. /\ todo # <<>> /\ Head(todo) = InitializeKernel[k]
        /\ Tail(todo) = SubSeq(InitializeKernel, k + 1, 41)
        /\ Len(SubSeq(InitializeKernel, k + 1, 41)) = 41 - k
        /\ k = 41 => SubSeq(InitializeKernel, k + 1, 41) = <<>>
    BY <2>1, RestIs
  <2> QED
    BY <2>2 DEF k
<1>3. ASSUME GoOn
      PROVE  At' = At + 1
  <2>1. todo' = SubSeq(InitializeKernel, At + 1, 41)
    BY <1>2, <1>3 DEF GoOn
  <2>2. Len(todo') = 41 - At
    BY <1>2, <2>1
  <2>3. At' = 42 - Len(todo')
    BY DEF At
  <2> QED
    BY <1>1, <2>2, <2>3
<1>4. GoOn => /\ todo' = SubSeq(InitializeKernel, At + 1, 41)
              /\ At = 41 => todo' = <<>>
  BY <1>2 DEF GoOn
<1> QED
  BY <1>1, <1>2, <1>3, <1>4

(* What the next access is says where the kernel is.                       *)
LEMMA WhereIs ==
  ASSUME SettingUp, ~sti
  PROVE  /\ Next1("wait") => At \in {15, 19, 21, 23, 25}
         /\ Next1("waitInput") => At \in {17, 27}
         /\ Next1("flush") => At = 3
         /\ Next1("drain") => At \in {32, 35}
         /\ Next1("in") => At = 28
         /\ Next1("inStatus") => At = 18
         /\ Next1("outStatus") => At = 22
         /\ Next1("saveMasks") => At = 4
         /\ Next1("restoreMasks") => At = 13
         /\ Next1("sti") => At = 41
         /\ ~Next1("kbd") /\ ~Next1("aux") /\ ~Next1("undefined")
         /\ Next1("out") =>
              /\ Head(todo).port \in {96, 100} => At \in Written
              /\ Head(todo).port = 32 => At = 5 /\ Head(todo).value = 17
              /\ Head(todo).port = 160 => At = 6 /\ Head(todo).value = 17
              /\ Head(todo).port = 33 => At \in {7, 9, 11, 39}
              /\ Head(todo).port = 161 => At \in {8, 10, 12, 40}
<1>1. PICK k : k = At
  OBVIOUS
<1>2. PICK access : access = Head(todo)
  OBVIOUS
<1>3. k \in 1 .. 41 /\ access = InitializeKernel[k]
  BY <1>1, <1>2, NextIs
<1>4. \A op : Next1(op) => access.op = op
  BY <1>2 DEF Next1
<1> QED
  BY <1>1, <1>2, <1>3, <1>4, Kinds

(* Most of set-up does not concern the controllers.                        *)
LEMMA QuietStep ==
  ASSUME PicInv, ~sti, GoOn \/ UNCHANGED todo,
         UNCHANGED <<sti, service, base, icw>>,
         masked' \subseteq Irq, saved' \subseteq Irq,
         BufferOK', request' \subseteq request \cup {1, 12},
         At \notin 5 .. 12, At < 39
  PROVE  PicInv'
<1>1. RegistersOK'
  BY DEF PicInv, RegistersOK, Irq
<1>2. /\ At \in 1 .. 41
      /\ \/ At' = At /\ todo' = todo
         \/ At' = At + 1 /\ todo' = SubSeq(InitializeKernel, At + 1, 41)
  BY NextIs DEF PicInv, At
<1>3. At' \in 1 .. 41 /\ todo' = SubSeq(InitializeKernel, At', 41)
  <2>1. todo = SubSeq(InitializeKernel, At, 41)
    BY DEF PicInv, SettingUp
  <2>2. CASE At' = At /\ todo' = todo
    BY <1>2, <2>1, <2>2
  <2>3. CASE At' = At + 1 /\ todo' = SubSeq(InitializeKernel, At + 1, 41)
    BY <1>2, <2>3
  <2> QED
    BY <1>2, <2>2, <2>3
<1>4. SettingUp'
  <2>1. /\ service' = {}
        /\ icw[1] = IF At <= 5 THEN 0 ELSE IF At <= 7 THEN 3
                    ELSE IF At <= 9 THEN 2 ELSE IF At <= 11 THEN 1 ELSE 0
        /\ icw[2] = IF At <= 6 THEN 0 ELSE IF At <= 8 THEN 3
                    ELSE IF At <= 10 THEN 2 ELSE IF At <= 12 THEN 1 ELSE 0
        /\ At >= 8 => base[1] = 32
        /\ At >= 9 => base[2] = 40
    BY DEF PicInv, SettingUp
  <2>2. icw' = icw /\ base' = base
    OBVIOUS
  <2>3. At' <= 4 \/ (At <= 4 /\ At' = 5) \/ (At >= 13 /\ At' >= 13)
    BY <1>2
  <2>4. At' < 40
    BY <1>2
  <2>5. icw'[1] = IF At' <= 5 THEN 0 ELSE IF At' <= 7 THEN 3
                  ELSE IF At' <= 9 THEN 2 ELSE IF At' <= 11 THEN 1 ELSE 0
    BY <1>2, <2>1, <2>2, <2>3
  <2>6. icw'[2] = IF At' <= 6 THEN 0 ELSE IF At' <= 8 THEN 3
                  ELSE IF At' <= 10 THEN 2 ELSE IF At' <= 12 THEN 1 ELSE 0
    BY <1>2, <2>1, <2>2, <2>3
  <2>7. (At' >= 8 => base'[1] = 32) /\ (At' >= 9 => base'[2] = 40)
    BY <1>2, <2>1, <2>2, <2>3
  <2> QED
    BY <1>3, <2>1, <2>4, <2>5, <2>6, <2>7 DEF SettingUp
<1>5. Running'
  BY DEF Running
<1> QED
  BY <1>1, <1>4, <1>5 DEF PicInv

(* 0xF9 lets lines 1 and 2 through, 0xEF line 12.                          *)
LEMMA MasksAre ==
  /\ MaskedBy(1, 249) = Lines(1) \ {1, 2}
  /\ MaskedBy(2, 239) = Lines(2) \ {12}
<1>1. ASSUME NEW line \in 0 .. 7
      PROVE  Has(249, Bit[(line % 8) + 1]) <=> line \notin {1, 2}
  <2>1. line % 8 = line
    OBVIOUS
  <2>2. /\ Has(249, 1) /\ ~Has(249, 2) /\ ~Has(249, 4) /\ Has(249, 8)
        /\ Has(249, 16) /\ Has(249, 32) /\ Has(249, 64) /\ Has(249, 128)
    BY DEF Has
  <2> QED
    BY <2>1, <2>2 DEF Bit
<1>2. ASSUME NEW line \in 8 .. 15
      PROVE  Has(239, Bit[(line % 8) + 1]) <=> line # 12
  <2>1. line % 8 = line - 8
    OBVIOUS
  <2>2. /\ Has(239, 1) /\ Has(239, 2) /\ Has(239, 4) /\ Has(239, 8)
        /\ ~Has(239, 16) /\ Has(239, 32) /\ Has(239, 64) /\ Has(239, 128)
    BY DEF Has
  <2> QED
    BY <2>1, <2>2 DEF Bit
<1>3. \A chip, byte : MaskedBy(chip, byte) =
         {line \in Lines(chip) : Has(byte, Bit[(line % 8) + 1])}
  BY DEF MaskedBy
<1> HIDE DEF MaskedBy
<1>4. MaskedBy(1, 249) = Lines(1) \ {1, 2}
  BY <1>1, <1>3 DEF Lines
<1>5. MaskedBy(2, 239) = Lines(2) \ {12}
  BY <1>2, <1>3 DEF Lines
<1> QED
  BY <1>4, <1>5

LEMMA LinesAre ==
  /\ Lines(1) = 0 .. 7 /\ Lines(2) = 8 .. 15
  /\ Irq = Lines(1) \cup Lines(2) /\ Lines(1) \cap Lines(2) = {}
  BY DEF Lines, Irq

(* An initialisation command, while nothing is in service.                 *)
LEMMA InitialiseKeepsPic ==
  ASSUME PicInv, ~sti, NEW chip \in {1, 2}, PICCommand(chip)
  PROVE  PicInv'
<1>1. /\ Next1("out") /\ GoOn
      /\ Head(todo).port = (IF chip = 1 THEN 32 ELSE 160)
      /\ UNCHANGED <<sti, status, saved, mistaken, controller, devices, base,
                     slow>>
  BY DEF PICCommand
<1>2. /\ At = IF chip = 1 THEN 5 ELSE 6
      /\ Head(todo).value = ICW1
  BY <1>1, WhereIs DEF PicInv, ICW1
<1>3. /\ request' = request \ Lines(chip)
      /\ service' = service \ Lines(chip)
      /\ masked' = masked \ Lines(chip)
      /\ icw' = [icw EXCEPT ![chip] = 3]
  BY <1>2 DEF PICCommand
<1>4. /\ At' = At + 1
      /\ todo' = SubSeq(InitializeKernel, At + 1, 41)
  BY <1>1, NextIs DEF PicInv
<1>5. out' = out /\ sti' = sti /\ saved' = saved /\ base' = base
  BY <1>1 DEF controller
<1>6. BufferOK'
  BY <1>5 DEF PicInv, BufferOK
<1>7. RegistersOK'
  BY <1>3, <1>5 DEF PicInv, RegistersOK
<1>8. SettingUp'
  <2>1. At' \in 1 .. 41 /\ todo' = SubSeq(InitializeKernel, At', 41)
    BY <1>2, <1>4
  <2>2. service' = {}
    BY <1>3 DEF PicInv, SettingUp
  <2>3. icw[2] = 0 /\ (At = 6 => icw[1] = 3)
    BY <1>2 DEF PicInv, SettingUp
  <2>4. icw \in [1 .. 2 -> 0 .. 3]
    BY DEF PicInv, RegistersOK
  <2>5. CASE chip = 1
    <3>1. At' = 6
      BY <1>2, <1>4, <2>5
    <3>2. icw'[1] = 3 /\ icw'[2] = 0
      BY <1>3, <2>3, <2>4, <2>5
    <3> QED
      BY <2>1, <2>2, <3>1, <3>2 DEF SettingUp
  <2>6. CASE chip = 2
    <3>1. At' = 7
      BY <1>2, <1>4, <2>6
    <3>2. icw'[1] = 3 /\ icw'[2] = 3
      BY <1>2, <1>3, <2>3, <2>4, <2>6
    <3> QED
      BY <2>1, <2>2, <3>1, <3>2 DEF SettingUp
  <2> QED
    BY <2>5, <2>6
<1>9. Running'
  BY <1>5 DEF Running
<1> QED
  BY <1>6, <1>7, <1>8, <1>9 DEF PicInv

(* The words that follow it, and the two masks at the end.                 *)
LEMMA PICDataKeepsPic ==
  ASSUME PicInv, ~sti, NEW chip \in {1, 2}, PICData(chip)
  PROVE  PicInv'
<1>1. /\ Next1("out") /\ GoOn
      /\ Head(todo).port = (IF chip = 1 THEN 33 ELSE 161)
      /\ UNCHANGED <<sti, status, saved, mistaken, controller, devices,
                     request, service, slow>>
  BY DEF PICData
<1>2. At \in IF chip = 1 THEN {7, 9, 11, 39} ELSE {8, 10, 12, 40}
  BY <1>1, WhereIs DEF PicInv
<1>3. /\ At' = At + 1
      /\ todo' = SubSeq(InitializeKernel, At + 1, 41)
      /\ Head(todo) = InitializeKernel[At]
  BY <1>1, NextIs DEF PicInv
<1>4. /\ out' = out /\ sti' = sti /\ saved' = saved /\ request' = request
      /\ service' = service
  BY <1>1 DEF controller
<1>5. BufferOK'
  BY <1>4 DEF PicInv, BufferOK
<1>6. /\ icw \in [1 .. 2 -> 0 .. 3] /\ base \in [1 .. 2 -> Int]
      /\ masked \subseteq Irq
  BY DEF PicInv, RegistersOK
<1>7. /\ icw[1] = IF At <= 5 THEN 0 ELSE IF At <= 7 THEN 3
                  ELSE IF At <= 9 THEN 2 ELSE IF At <= 11 THEN 1 ELSE 0
      /\ icw[2] = IF At <= 6 THEN 0 ELSE IF At <= 8 THEN 3
                  ELSE IF At <= 10 THEN 2 ELSE IF At <= 12 THEN 1 ELSE 0
      /\ At >= 8 => base[1] = 32
      /\ At >= 9 => base[2] = 40
      /\ At >= 40 => masked \cap Lines(1) = Lines(1) \ {1, 2}
      /\ service = {}
  BY DEF PicInv, SettingUp
<1>8. At' \in 1 .. 41 /\ todo' = SubSeq(InitializeKernel, At', 41)
  BY <1>2, <1>3
<1>9. Running'
  BY <1>4 DEF Running
<1>10. CASE At < 39
  <2>1. icw[chip] \in 1 .. 3
    BY <1>2, <1>7, <1>10
  <2>2. Head(todo).value = CASE At = 7 -> 32 [] At = 8 -> 40 [] At = 9 -> 4
                             [] At = 10 -> 2 [] OTHER -> 1
    <3>1. CASE At = 7
      BY <1>3, <3>1, ProgramAt DEF Out
    <3>2. CASE At = 8
      BY <1>3, <3>2, ProgramAt DEF Out
    <3>3. CASE At = 9
      BY <1>3, <3>3, ProgramAt DEF Out
    <3>4. CASE At = 10
      BY <1>3, <3>4, ProgramAt DEF Out
    <3>5. CASE At = 11
      BY <1>3, <3>5, ProgramAt DEF Out
    <3>6. CASE At = 12
      BY <1>3, <3>6, ProgramAt DEF Out
    <3> QED
      BY <1>2, <1>10, <3>1, <3>2, <3>3, <3>4, <3>5, <3>6
  <2>3. /\ icw' = [icw EXCEPT ![chip] = icw[chip] - 1]
        /\ base' = IF icw[chip] = 3
                   THEN [base EXCEPT ![chip] = Head(todo).value] ELSE base
        /\ masked' = masked
    BY <2>1 DEF PICData
  <2>4. Head(todo).value \in Int
    BY <2>2
  <2>5. /\ icw'[chip] = icw[chip] - 1
        /\ \A other \in {1, 2} \ {chip} : icw'[other] = icw[other]
        /\ icw' \in [1 .. 2 -> 0 .. 3]
    BY <1>6, <2>1, <2>3
  <2>6. /\ base' \in [1 .. 2 -> Int]
        /\ icw[chip] = 3 => base'[chip] = Head(todo).value
        /\ icw[chip] # 3 => base' = base
        /\ \A other \in {1, 2} \ {chip} : base'[other] = base[other]
    BY <1>6, <2>3, <2>4
  <2>7. RegistersOK'
    BY <1>4, <2>3, <2>5, <2>6 DEF PicInv, RegistersOK
  <2>8. CASE chip = 1
    <3>1. icw'[1] = icw[1] - 1 /\ icw'[2] = icw[2]
      BY <2>5, <2>8
    <3>2. /\ icw'[1] = IF At' <= 5 THEN 0 ELSE IF At' <= 7 THEN 3
                  ELSE IF At' <= 9 THEN 2 ELSE IF At' <= 11 THEN 1 ELSE 0
          /\ icw'[2] = IF At' <= 6 THEN 0 ELSE IF At' <= 8 THEN 3
                  ELSE IF At' <= 10 THEN 2 ELSE IF At' <= 12 THEN 1 ELSE 0
      BY <1>2, <1>3, <1>7, <1>10, <2>8, <3>1
    <3>3. /\ At' >= 8 => base'[1] = 32
          /\ At' >= 9 => base'[2] = 40
      BY <1>2, <1>3, <1>7, <1>10, <2>2, <2>6, <2>8
    <3>4. At' < 40
      BY <1>2, <1>3, <1>10
    <3> QED
      BY <1>4, <1>5, <1>7, <1>8, <1>9, <2>7, <3>2, <3>3, <3>4
      DEF PicInv, SettingUp
  <2>9. CASE chip = 2
    <3>1. icw'[2] = icw[2] - 1 /\ icw'[1] = icw[1]
      BY <2>5, <2>9
    <3>2. /\ icw'[1] = IF At' <= 5 THEN 0 ELSE IF At' <= 7 THEN 3
                  ELSE IF At' <= 9 THEN 2 ELSE IF At' <= 11 THEN 1 ELSE 0
          /\ icw'[2] = IF At' <= 6 THEN 0 ELSE IF At' <= 8 THEN 3
                  ELSE IF At' <= 10 THEN 2 ELSE IF At' <= 12 THEN 1 ELSE 0
      BY <1>2, <1>3, <1>7, <1>10, <2>9, <3>1
    <3>3. /\ At' >= 8 => base'[1] = 32
          /\ At' >= 9 => base'[2] = 40
      BY <1>2, <1>3, <1>7, <1>10, <2>2, <2>6, <2>9
    <3>4. At' < 40
      BY <1>2, <1>3, <1>10
    <3> QED
      BY <1>4, <1>5, <1>7, <1>8, <1>9, <2>7, <3>2, <3>3, <3>4
      DEF PicInv, SettingUp
  <2> QED
    BY <2>8, <2>9
<1>11. CASE At >= 39
  <2>1. At = IF chip = 1 THEN 39 ELSE 40
    BY <1>2, <1>11
  <2>2. icw[1] = 0 /\ icw[2] = 0
    BY <1>7, <2>1
  <2>3. /\ masked' = (masked \ Lines(chip))
                       \cup MaskedBy(chip, Head(todo).value)
        /\ icw' = icw /\ base' = base
    BY <2>2 DEF PICData
  <2>4. Head(todo).value = IF chip = 1 THEN 249 ELSE 239
    <3>1. CASE At = 39
      <4>1. chip = 1
        BY <2>1, <3>1
      <4>2. Head(todo) = Out(33, 249)
        BY <1>3, <3>1, ProgramAt
      <4> QED
        BY <4>1, <4>2 DEF Out
    <3>2. CASE At = 40
      <4>1. chip = 2
        BY <2>1, <3>2
      <4>2. Head(todo) = Out(161, 239)
        BY <1>3, <3>2, ProgramAt
      <4> QED
        BY <4>1, <4>2 DEF Out
    <3> QED
      BY <2>1, <3>1, <3>2
  <2>5. masked' = (masked \ Lines(chip)) \cup (Lines(chip) \ {1, 2, 12})
    BY <2>3, <2>4, MasksAre, LinesAre
  <2>6. /\ masked' \subseteq Irq
        /\ masked' \cap Lines(chip) = Lines(chip) \ {1, 2, 12}
        /\ chip = 2 => masked' \cap Lines(1) = masked \cap Lines(1)
    BY <1>6, <2>5, LinesAre
  <2>7. /\ masked' \cap Lines(1) = Lines(1) \ {1, 2}
        /\ At' >= 41 => masked' \cap Lines(2) = Lines(2) \ {12}
    BY <1>3, <1>7, <2>1, <2>6, LinesAre
  <2>8. RegistersOK'
    BY <1>4, <2>3, <2>6 DEF PicInv, RegistersOK
  <2>9. SettingUp'
    <3>1. At' >= 40
      BY <1>3, <2>1
    <3> QED
      BY <1>4, <1>7, <1>8, <1>11, <2>1, <2>2, <2>3, <2>7, <3>1 DEF SettingUp
  <2> QED
    BY <1>5, <1>9, <2>8, <2>9 DEF PicInv
<1> QED
  BY <1>2, <1>10, <1>11

(* A handler's accesses, and the last of set-up.                           *)
LEMMA EndKeepsPic ==
  ASSUME PicInv, sti, NEW chip \in {1, 2}, PICCommand(chip)
  PROVE  PicInv'
<1>1. /\ Next1("out") /\ GoOn
      /\ Head(todo).port = (IF chip = 1 THEN 32 ELSE 160)
      /\ UNCHANGED <<sti, status, saved, mistaken, controller, devices, base,
                     slow>>
  BY DEF PICCommand
<1>2. \/ todo = EndBoth /\ service = {2, 12}
      \/ todo = EndOne /\ service \in {{1}, {2}}
  BY <1>1, HandlersAre DEF PicInv, Running, Next1, Do
<1>3. Head(todo).value = 32
  BY <1>2, HandlersAre DEF Out
<1>4. /\ service' = service \ {line \in service \cap Lines(chip) :
                        \A other \in service \cap Lines(chip) : line <= other}
      /\ UNCHANGED <<request, masked, icw>>
  BY <1>3 DEF PICCommand, ICW1
<1>5. out' = out /\ sti' = sti /\ saved' = saved /\ base' = base
  BY <1>1 DEF controller
<1>6. BufferOK' /\ RegistersOK'
  BY <1>4, <1>5 DEF PicInv, BufferOK, RegistersOK
<1>7. CASE todo = EndBoth /\ service = {2, 12}
  <2>1. chip = 2 /\ todo' = EndOne
    BY <1>1, <1>7, HandlersAre DEF Out, GoOn
  <2>2. service \cap Lines(2) = {12}
    BY <1>7 DEF Lines
  <2>3. service' = {2}
    BY <1>4, <1>7, <2>1, <2>2
  <2> QED
    BY <1>4, <1>5, <1>6, <2>1, <2>3 DEF PicInv, Running, SettingUp
<1>8. CASE todo = EndOne /\ service \in {{1}, {2}}
  <2>1. chip = 1 /\ todo' = <<>>
    BY <1>1, <1>8, HandlersAre DEF Out, GoOn
  <2>2. service \cap Lines(1) = service
    BY <1>8 DEF Lines
  <2>3. service' = {}
    BY <1>4, <1>8, <2>1, <2>2
  <2> QED
    BY <1>4, <1>5, <1>6, <2>1, <2>3 DEF PicInv, Running, SettingUp
<1> QED
  BY <1>2, <1>7, <1>8

LEMMA SetInterruptsKeepsPic ==
  ASSUME PicInv, SetInterrupts
  PROVE  PicInv'
<1>1. /\ Next1("sti") /\ GoOn /\ sti' = TRUE
      /\ UNCHANGED <<status, saved, mistaken, controller, devices, pics, slow>>
  BY DEF SetInterrupts
<1>2. ~sti
  BY <1>1, HandlersAre DEF PicInv, Running, Next1, Do, Out, RegistersOK
<1>3. At = 41 /\ todo' = <<>>
  BY <1>1, <1>2, WhereIs, NextIs DEF PicInv
<1>4. /\ service = {} /\ icw[1] = 0 /\ icw[2] = 0
      /\ base[1] = 32 /\ base[2] = 40
      /\ masked \cap Lines(1) = Lines(1) \ {1, 2}
      /\ masked \cap Lines(2) = Lines(2) \ {12}
      /\ masked \subseteq Irq
  BY <1>2, <1>3 DEF PicInv, SettingUp, RegistersOK
<1>5. masked = Irq \ {1, 2, 12}
  BY <1>4, LinesAre
<1>6. BufferOK' /\ RegistersOK'
  BY <1>1 DEF PicInv, BufferOK, RegistersOK, controller, pics
<1>7. Running'
  BY <1>1, <1>3, <1>4, <1>5 DEF Running, pics
<1>8. SettingUp'
  BY <1>1 DEF SettingUp
<1> QED
  BY <1>6, <1>7, <1>8 DEF PicInv

LEMMA TakeByteKeepsPic ==
  ASSUME PicInv, NEW driver \in Device, TakeByte(driver)
  PROVE  PicInv' /\ sti /\ todo' \in {EndOne, EndBoth}
<1>1. /\ Next1(driver) /\ Consume /\ GoOn
      /\ UNCHANGED <<sti, status, saved, mistaken, slow, input, awaits,
                     devices, service, masked, base, icw>>
  BY DEF TakeByte
<1>2. sti
  BY <1>1, WhereIs DEF PicInv, Device
<1>3. \/ todo = Keyboard_handler /\ service = {1}
      \/ todo = Mouse_handler /\ service = {2, 12}
  BY <1>1, <1>2, HandlersAre DEF PicInv, Running, Next1, Out, Device
<1>4. \/ todo' = EndOne /\ service = {1}
      \/ todo' = EndBoth /\ service = {2, 12}
  BY <1>1, <1>3, HandlersAre DEF GoOn
<1>5. BufferOK' /\ request' \subseteq request \cup {1, 12}
  BY <1>1, ConsumeIs DEF PicInv
<1>6. RegistersOK'
  BY <1>1, <1>5 DEF PicInv, RegistersOK, Irq
<1>7. Running'
  BY <1>1, <1>2, <1>4 DEF PicInv, Running
<1>8. SettingUp'
  BY <1>1, <1>2 DEF SettingUp
<1> QED
  BY <1>2, <1>4, <1>5, <1>6, <1>7, <1>8 DEF PicInv

(* An interrupt that is not masked is the keyboard's or the mouse's, and   *)
(* its gate is set.                                                        *)
LEMMA InterruptIs ==
  ASSUME PicInv, NEW irq \in Irq, Interrupt(irq)
  PROVE  /\ PicInv' /\ sti /\ todo = <<>> /\ irq \in {1, 12}
         /\ todo' = IF irq = 1 THEN Keyboard_handler ELSE Mouse_handler
<1>1. /\ Ready /\ sti /\ irq \in request \ masked
      /\ request' = request \ {irq}
      /\ service' = service \cup (IF irq < 8 THEN {irq} ELSE {irq, 2})
      /\ todo' = Gate(base[IF irq < 8 THEN 1 ELSE 2] + (irq % 8))
      /\ UNCHANGED <<sti, status, saved, mistaken, controller, devices, masked,
                     base, icw, slow>>
  BY DEF Interrupt, Deliverable
<1>2. todo = <<>> /\ service = {} /\ masked = Irq \ {1, 2, 12}
  BY <1>1, HandlersAre DEF PicInv, Running, Ready
<1>3. irq \in {1, 12}
  BY <1>1, <1>2 DEF PicInv, RegistersOK
<1>4. base[1] = 32 /\ base[2] = 40
  BY <1>1 DEF PicInv, Running
<1>5. /\ base[IF irq < 8 THEN 1 ELSE 2] + (irq % 8) = IF irq = 1 THEN 33 ELSE 44
      /\ service' = IF irq = 1 THEN {1} ELSE {2, 12}
  <2>1. CASE irq = 1
    BY <1>1, <1>2, <1>4, <2>1
  <2>2. CASE irq = 12
    BY <1>1, <1>2, <1>4, <2>2
  <2> QED
    BY <1>3, <2>1, <2>2
<1>6. todo' = IF irq = 1 THEN Keyboard_handler ELSE Mouse_handler
  <2>1. todo' = Gate(IF irq = 1 THEN 33 ELSE 44)
    BY <1>1, <1>5
  <2> QED
    BY <1>3, <2>1 DEF Gate
<1>7. BufferOK' /\ RegistersOK'
  <2>1. out' = out
    BY <1>1 DEF controller
  <2>2. service' \subseteq Irq
    BY <1>5 DEF Irq
  <2> QED
    BY <1>1, <2>1, <2>2 DEF PicInv, BufferOK, RegistersOK
<1>8. Running'
  BY <1>1, <1>2, <1>3, <1>5, <1>6 DEF PicInv, Running
<1>9. SettingUp'
  BY <1>1 DEF SettingUp
<1> QED
  BY <1>1, <1>2, <1>3, <1>6, <1>7, <1>8, <1>9 DEF PicInv

(* The two lemmas every other access comes down to.                        *)
LEMMA AccessKeepsPic ==
  ASSUME PicInv, Write \/ MouseWait \/ MouseWaitInput \/ ReadStatus
                   \/ Discard \/ Drain \/ KeepMasks
  PROVE  PicInv' /\ ~sti
<1>1. ~sti
  <2>1. CASE sti
    <3>1. \/ todo = <<>>
          \/ Head(todo) \in {Do("kbd"), Do("aux"), Out(160, 32), Out(32, 32)}
      BY <2>1, HandlersAre DEF PicInv, Running
    <3> QED
      BY <3>1 DEF Write, MouseWait, MouseWaitInput, ReadStatus, Discard, Drain,
                  KeepMasks, Next1, Out, Do
  <2> QED
    BY <2>1
<1>2. CASE Write
  <2>1. At \in Written
    <3>1. \/ Next1("out") /\ Head(todo).port \in {96, 100}
          \/ Next1("outStatus")
      BY <1>2 DEF Write
    <3> QED
      BY <1>1, <3>1, WhereIs DEF PicInv, Written
  <2>2. /\ GoOn /\ UNCHANGED <<sti, status, saved, mistaken, awaits, config,
                               out, devices, pics>>
    BY <1>2 DEF Write
  <2>3. /\ UNCHANGED <<sti, service, base, icw, request, out>>
        /\ masked' \subseteq Irq /\ saved' \subseteq Irq
    BY <2>2 DEF PicInv, RegistersOK, pics
  <2>4. BufferOK'
    BY <2>3 DEF PicInv, BufferOK
  <2>5. At \notin 5 .. 12 /\ At < 39
    BY <2>1 DEF Written
  <2> QED
    BY <1>1, <2>2, <2>3, <2>4, <2>5, QuietStep
<1>3. CASE MouseWait
  <2>1. At \in {15, 19, 21, 23, 25}
    BY <1>1, <1>3, WhereIs DEF MouseWait, PicInv
  <2>2. /\ GoOn
        /\ UNCHANGED <<sti, status, saved, mistaken, slow, controller,
                       devices, pics>>
    BY <1>3 DEF MouseWait
  <2> QED
    BY <1>1, <2>1, <2>2, QuietStep
    DEF PicInv, RegistersOK, BufferOK, pics, controller
<1>4. CASE MouseWaitInput
  <2>1. At \in {17, 27}
    BY <1>1, <1>4, WhereIs DEF MouseWaitInput, PicInv
  <2>2. /\ GoOn
        /\ UNCHANGED <<sti, status, saved, mistaken, controller, devices,
                       pics>>
    BY <1>4 DEF MouseWaitInput
  <2> QED
    BY <1>1, <2>1, <2>2, QuietStep
    DEF PicInv, RegistersOK, BufferOK, pics, controller
<1>5. CASE ReadStatus
  <2>1. At = 18
    BY <1>1, <1>5, WhereIs DEF ReadStatus, PicInv
  <2>2. /\ GoOn /\ Consume
        /\ UNCHANGED <<sti, saved, input, awaits, devices, service, masked,
                       base, icw, slow>>
    BY <1>5 DEF ReadStatus
  <2>3. BufferOK' /\ request' \subseteq request \cup {1, 12}
    BY <2>2, ConsumeIs DEF PicInv
  <2> QED
    BY <1>1, <2>1, <2>2, <2>3, QuietStep DEF PicInv, RegistersOK
<1>6. CASE Discard
  <2>1. At \in {3, 28}
    BY <1>1, <1>6, WhereIs DEF Discard, PicInv
  <2>2. /\ GoOn \/ UNCHANGED todo
        /\ Consume
        /\ UNCHANGED <<sti, status, saved, mistaken, slow, input, awaits,
                       devices, service, masked, base, icw>>
    BY <1>6 DEF Discard
  <2>3. BufferOK' /\ request' \subseteq request \cup {1, 12}
    BY <2>2, ConsumeIs DEF PicInv
  <2> QED
    BY <1>1, <2>1, <2>2, <2>3, QuietStep DEF PicInv, RegistersOK
<1>7. CASE Drain
  <2>1. At \in {32, 35}
    BY <1>1, <1>7, WhereIs DEF Drain, PicInv
  <2>2. /\ GoOn \/ UNCHANGED todo
        /\ Consume
        /\ UNCHANGED <<sti, status, saved, mistaken, slow, input, awaits,
                       devices, service, masked, base, icw>>
    BY <1>7 DEF Drain
  <2>3. BufferOK' /\ request' \subseteq request \cup {1, 12}
    BY <2>2, ConsumeIs DEF PicInv
  <2> QED
    BY <1>1, <2>1, <2>2, <2>3, QuietStep DEF PicInv, RegistersOK
<1>8. CASE KeepMasks
  <2>1. At \in {4, 13}
    BY <1>1, <1>8, WhereIs DEF KeepMasks, PicInv
  <2>2. /\ GoOn
        /\ saved' \in {saved, masked} /\ masked' \in {saved, masked}
        /\ UNCHANGED <<sti, status, mistaken, controller, devices, request,
                       service, base, icw, slow>>
    BY <1>8 DEF KeepMasks
  <2>3. saved' \subseteq Irq /\ masked' \subseteq Irq
    BY <2>2 DEF PicInv, RegistersOK
  <2>4. BufferOK' /\ request' = request
    BY <2>2 DEF PicInv, BufferOK, controller
  <2> QED
    BY <1>1, <2>1, <2>2, <2>3, <2>4, QuietStep
<1> QED
  BY <1>1, <1>2, <1>3, <1>4, <1>5, <1>6, <1>7, <1>8

(* The steps of the controller, the devices and the user.                  *)
Outside ==
  \/ TakeCommand \/ TakeData
  \/ \E source \in Source : Fill(source)
  \/ \E device \in Device : PassTest(device) \/ Use(device)
  \/ \E irq \in OtherIrqs : Raise(irq)

LEMMA OutsideIs ==
  ASSUME BufferOK, Outside
  PROVE  /\ BufferOK'
         /\ UNCHANGED <<todo, sti, status, saved, mistaken, service, masked,
                        base, icw>>
         /\ request' \subseteq request \cup {1, 12} \cup OtherIrqs
         /\ Level(out, config) \subseteq request
              => Level(out, config)' \subseteq request'
<1>1. CASE TakeCommand
  <2>1. PICK byte : Drive(out, byte)
    BY <1>1 DEF TakeCommand
  <2>2. UNCHANGED <<kernel, service, masked, base, icw>>
    BY <1>1 DEF TakeCommand
  <2> QED
    BY <2>1, <2>2, DriveIs DEF BufferOK, kernel
<1>2. CASE TakeData
  <2>1. PICK byte : Drive(out, byte)
    BY <1>2 DEF TakeData
  <2>2. UNCHANGED <<kernel, service, masked, base, icw>>
    BY <1>2 DEF TakeData
  <2> QED
    BY <2>1, <2>2, DriveIs DEF BufferOK, kernel
<1>3. CASE \E source \in Source : Fill(source)
  <2>1. PICK source \in Source : Fill(source)
    BY <1>3
  <2>2. PICK buffer : /\ Drive(buffer, config)
                      /\ \E b : buffer = <<b>> /\ b.from \in Source
    <3>1. Drive(<<[from |-> source, byte |-> Head(answers[source])]>>, config)
      BY <2>1 DEF Fill
    <3>2. [from |-> source, byte |-> Head(answers[source])].from \in Source
      BY <2>1
    <3> QED
      BY <3>1, <3>2
  <2>3. UNCHANGED <<kernel, service, masked, base, icw>>
    BY <2>1 DEF Fill
  <2> QED
    BY <2>2, <2>3, DriveIs DEF kernel
<1>4. CASE \E device \in Device : PassTest(device) \/ Use(device)
  <2>1. UNCHANGED <<kernel, controller, pics>>
    BY <1>4 DEF PassTest, Use
  <2> QED
    BY <2>1 DEF kernel, controller, pics, BufferOK, Level
<1>5. CASE \E irq \in OtherIrqs : Raise(irq)
  <2>1. PICK irq \in OtherIrqs : Raise(irq)
    BY <1>5
  <2>2. /\ request' = request \cup {irq}
        /\ UNCHANGED <<kernel, controller, service, masked, base, icw>>
    BY <2>1 DEF Raise
  <2>3. out' = out /\ config' = config
    BY <2>2 DEF controller
  <2>4. Level(out, config)' = Level(out, config)
    BY <2>3 DEF Level
  <2> QED
    BY <2>2, <2>3, <2>4 DEF kernel, BufferOK
<1> QED
  BY <1>1, <1>2, <1>3, <1>4, <1>5 DEF Outside

LEMMA PicInit == Init => PicInv
<1> SUFFICES ASSUME Init
             PROVE  PicInv
  OBVIOUS
<1>1. BufferOK
  BY DEF Init, BufferOK
<1>2. RegistersOK
  <2>1. <<0, 0>> \in [1 .. 2 -> 0 .. 3] /\ <<8, 112>> \in [1 .. 2 -> Int]
    OBVIOUS
  <2> QED
    BY <2>1 DEF Init, RegistersOK, Irq
<1>3. At = 1 /\ todo = SubSeq(InitializeKernel, 1, 41)
  <2> DEFINE P == InitializeKernel
  <2>1. P \in Seq(Access) /\ Len(P) = 41
    BY ProgramIs
  <2>2. todo = P /\ Len(todo) = 41
    BY <2>1 DEF Init
  <2> HIDE DEF P
  <2>3. SubSeq(P, 1, Len(P)) = P
    BY <2>1, SubSeqFull
  <2>4. SubSeq(P, 1, 41) = P
    BY <2>1, <2>3
  <2>5. At = 1
    BY <2>2 DEF At
  <2> QED
    BY <2>2, <2>4, <2>5 DEF P
<1>4. SettingUp
  BY <1>3 DEF Init, SettingUp
<1>5. Running
  BY DEF Init, Running
<1> QED
  BY <1>1, <1>2, <1>4, <1>5 DEF PicInv

LEMMA PicStep == PicInv /\ [Next]_vars => PicInv'
<1> SUFFICES ASSUME PicInv, [Next]_vars
             PROVE  PicInv'
  OBVIOUS
<1>1. CASE Outside
  BY <1>1, OutsideIs, OthersKeepPic DEF PicInv
<1>2. CASE Write \/ MouseWait \/ MouseWaitInput \/ ReadStatus
             \/ Discard \/ Drain \/ KeepMasks
  BY <1>2, AccessKeepsPic
<1>3. CASE \E chip \in {1, 2} : PICCommand(chip) \/ PICData(chip)
  <2>1. PICK chip \in {1, 2} : PICCommand(chip) \/ PICData(chip)
    BY <1>3
  <2>2. CASE sti
    <3>1. ~PICData(chip)
      <4>1. \/ todo = <<>>
            \/ Head(todo) \in {Do("kbd"), Do("aux"), Out(160, 32), Out(32, 32)}
        BY <2>2, HandlersAre DEF PicInv, Running
      <4> QED
        BY <4>1 DEF PICData, Next1, Out, Do
    <3> QED
      BY <2>1, <2>2, <3>1, EndKeepsPic
  <2>3. CASE ~sti
    BY <2>1, <2>3, InitialiseKeepsPic, PICDataKeepsPic
  <2> QED
    BY <2>2, <2>3
<1>4. CASE SetInterrupts
  BY <1>4, SetInterruptsKeepsPic
<1>5. CASE \E driver \in Device : TakeByte(driver)
  BY <1>5, TakeByteKeepsPic
<1>6. CASE \E irq \in Irq : Interrupt(irq)
  BY <1>6, InterruptIs
<1>7. CASE UNCHANGED vars
  <2>1. UNCHANGED <<todo, sti, saved, service, masked, base, icw, out, request>>
    BY <1>7 DEF vars, kernel, controller, pics
  <2>2. BufferOK'
    BY <2>1 DEF PicInv, BufferOK
  <2> QED
    BY <2>1, <2>2, OthersKeepPic
<1> QED
  BY <1>1, <1>2, <1>3, <1>4, <1>5, <1>6, <1>7 DEF Next, Kernel, Outside

LEMMA PicInvariant == Spec => []PicInv
  BY PicInit, PicStep, PTL DEF Spec

(* No interrupt is ever taken through a gate nobody has set: whatever      *)
(* requests, the masks let through only lines whose vectors, from the      *)
(* bases RemapPIC gives, PrepareInterrupts has set (kernelUtil.cpp:49).    *)
THEOREM OnlyOwnGates == Spec => []OnlySetGatesTaken
<1>1. PicInv => OnlySetGatesTaken
  <2> SUFFICES ASSUME PicInv
               PROVE  ~Next1("undefined")
    BY DEF OnlySetGatesTaken
  <2>1. CASE ~sti
    BY <2>1, WhereIs DEF PicInv
  <2>2. CASE sti
    BY <2>2, HandlersAre DEF PicInv, Running, Next1, Out, Do
  <2> QED
    BY <2>1, <2>2
<1> QED
  BY <1>1, PicInvariant, PTL

(* Every handler tells each controller that has the interrupt in service,  *)
(* and only those: none is left over between handlers, on any firmware and *)
(* in any order of requests (interrupts.cpp:57).                           *)
THEOREM HandlersEndInterrupts == Spec => []EveryInterruptEnded
<1>1. PicInv => EveryInterruptEnded
  <2> SUFFICES ASSUME PicInv, todo = <<>>
               PROVE  service = {}
    BY DEF EveryInterruptEnded, Ready
  <2>1. CASE ~sti
    BY <2>1, NextIs DEF PicInv
  <2>2. CASE sti
    BY <2>2, HandlersAre DEF PicInv, Running
  <2> QED
    BY <2>1, <2>2
<1> QED
  BY <1>1, PicInvariant, PTL

-----------------------------------------------------------------------------
(* The requests latched.                                                   *)

(* Once the answer of the controller has been read - before, the           *)
(* controllers are initialised and forget - a byte that may interrupt has  *)
(* its request, but for the one a handler is about to take.                *)
Watched ==
  IF sti THEN ~Next1("kbd") /\ ~Next1("aux") ELSE At >= 19

Latched == Watched => Level(out, config) \subseteq request

LatchInv == PicInv /\ Latched

(* No access to a port but a read of the data port moves the lines.        *)
LEMMA AccessLatch ==
  ASSUME PicInv, ~sti, Write \/ MouseWait \/ MouseWaitInput \/ ReadStatus
                         \/ Discard \/ Drain \/ KeepMasks
  PROVE  /\ sti' = sti
         /\ GoOn \/ UNCHANGED todo
         /\ \/ Level(out, config)' = {}
            \/ At # 18 /\ UNCHANGED <<out, config, request>>
<1>1. CASE ReadStatus \/ Discard \/ Drain
  <2>1. Consume /\ sti' = sti /\ (GoOn \/ UNCHANGED todo)
    BY <1>1 DEF ReadStatus, Discard, Drain
  <2> QED
    BY <2>1, ConsumeIs DEF PicInv
<1>2. CASE Write
  <2>1. (Next1("out") /\ Head(todo).port \in {96, 100}) \/ Next1("outStatus")
    BY <1>2 DEF Write
  <2>2. At # 18
    BY <2>1, WhereIs DEF PicInv, Written
  <2> QED
    BY <1>2, <2>2 DEF Write, pics
<1>3. CASE MouseWait \/ MouseWaitInput
  <2>1. At # 18
    BY <1>3, WhereIs DEF PicInv, MouseWait, MouseWaitInput
  <2> QED
    BY <1>3, <2>1 DEF MouseWait, MouseWaitInput, pics, controller
<1>4. CASE KeepMasks
  <2>1. At # 18
    BY <1>4, WhereIs DEF PicInv, KeepMasks
  <2> QED
    BY <1>4, <2>1 DEF KeepMasks, controller
<1> QED
  BY <1>1, <1>2, <1>3, <1>4

(* The lines do not move and nothing latched is forgotten.                 *)
LEMMA Unmoved ==
  ASSUME Level(out, config) \subseteq request, UNCHANGED <<out, config>>,
         request' = request
  PROVE  Latched'
<1>1. Level(out, config)' = Level(out, config)
  BY DEF Level
<1> QED
  BY <1>1 DEF Latched

LEMMA LatchStep == LatchInv /\ [Next]_vars => LatchInv'
<1> SUFFICES ASSUME PicInv, Latched, [Next]_vars
             PROVE  Latched'
  BY PicStep DEF LatchInv
<1>1. CASE Outside
  <2>1. /\ UNCHANGED <<todo, sti>>
        /\ Level(out, config) \subseteq request
              => Level(out, config)' \subseteq request'
    BY <1>1, OutsideIs DEF PicInv
  <2>2. Watched' = Watched
    BY <2>1 DEF Watched, At, Next1
  <2> QED
    BY <2>1, <2>2 DEF Latched
<1>2. CASE Write \/ MouseWait \/ MouseWaitInput \/ ReadStatus
             \/ Discard \/ Drain \/ KeepMasks
  <2>1. ~sti
    BY <1>2, AccessKeepsPic
  <2>2. /\ sti' = sti
        /\ GoOn \/ UNCHANGED todo
        /\ \/ Level(out, config)' = {}
           \/ At # 18 /\ UNCHANGED <<out, config, request>>
    BY <1>2, <2>1, AccessLatch
  <2>3. CASE Level(out, config)' = {}
    BY <2>3 DEF Latched
  <2>4. CASE At # 18 /\ UNCHANGED <<out, config, request>>
    <3>1. SUFFICES ASSUME Watched'
                   PROVE  Latched'
      BY DEF Latched
    <3>2. At' >= 19
      BY <2>1, <2>2, <3>1 DEF Watched
    <3>3. At \in 1 .. 41 /\ (At' = At + 1 \/ At' = At)
      BY <2>1, <2>2, NextIs DEF PicInv, At
    <3>4. At >= 19
      BY <2>4, <3>2, <3>3
    <3>5. Level(out, config) \subseteq request
      BY <2>1, <3>4 DEF Latched, Watched
    <3> QED
      BY <2>4, <3>5, Unmoved
  <2> QED
    BY <2>2, <2>3, <2>4
<1>3. CASE \E chip \in {1, 2} : PICCommand(chip) \/ PICData(chip)
  <2>1. PICK chip \in {1, 2} : PICCommand(chip) \/ PICData(chip)
    BY <1>3
  <2>2. /\ Next1("out") /\ GoOn /\ sti' = sti
        /\ UNCHANGED <<out, config>>
        /\ \/ Head(todo).port \in {33, 161}
           \/ Head(todo).port \in {32, 160}
    BY <2>1 DEF PICCommand, PICData, controller
  <2>3. CASE sti
    <3>1. ~Next1("kbd") /\ ~Next1("aux")
      BY <2>2 DEF Next1
    <3>2. Level(out, config) \subseteq request
      BY <2>3, <3>1 DEF Latched, Watched
    <3>3. Head(todo) \in {Out(160, 32), Out(32, 32)}
      BY <2>2, <2>3, HandlersAre DEF PicInv, Running, Next1, Do
    <3>4. request' = request
      BY <2>1, <3>3 DEF PICCommand, PICData, Out, ICW1
    <3> QED
      BY <2>2, <3>2, <3>4, Unmoved
  <2>4. CASE ~sti
    <3>1. At' = At + 1 /\ At \in 1 .. 41
      BY <2>2, <2>4, NextIs DEF PicInv
    <3>2. At \in 5 .. 12 \/ At \in {39, 40}
      BY <2>2, <2>4, WhereIs DEF PicInv
    <3>3. CASE At \in 5 .. 12
      BY <2>2, <2>4, <3>1, <3>3 DEF Latched, Watched
    <3>4. CASE At \in {39, 40}
      <4>1. ~PICCommand(chip)
        BY <2>4, <3>4, WhereIs DEF PicInv, PICCommand
      <4>2. request' = request
        BY <2>1, <4>1 DEF PICData
      <4>3. Level(out, config) \subseteq request
        BY <2>4, <3>4 DEF Latched, Watched
      <4> QED
        BY <2>2, <4>2, <4>3, Unmoved
    <3> QED
      BY <3>2, <3>3, <3>4
  <2> QED
    BY <2>3, <2>4
<1>4. CASE SetInterrupts
  <2>1. Next1("sti") /\ UNCHANGED <<out, config, request>>
    BY <1>4 DEF SetInterrupts, controller, pics
  <2>2. Level(out, config) \subseteq request
    <3>1. CASE sti
      <4>1. ~Next1("kbd") /\ ~Next1("aux")
        BY <2>1 DEF Next1
      <4> QED
        BY <3>1, <4>1 DEF Latched, Watched
    <3>2. CASE ~sti
      <4>1. At = 41
        BY <2>1, <3>2, WhereIs DEF PicInv
      <4> QED
        BY <3>2, <4>1 DEF Latched, Watched
    <3> QED
      BY <3>1, <3>2
  <2> QED
    BY <2>1, <2>2, Unmoved
<1>5. CASE \E driver \in Device : TakeByte(driver)
  <2>1. Consume
    BY <1>5 DEF TakeByte
  <2>2. Level(out, config)' = {}
    BY <2>1, ConsumeIs DEF PicInv
  <2> QED
    BY <2>2 DEF Latched
<1>6. CASE \E irq \in Irq : Interrupt(irq)
  <2>1. PICK irq \in Irq : Interrupt(irq)
    BY <1>6
  <2>2. /\ sti /\ irq \in {1, 12}
        /\ todo' = IF irq = 1 THEN Keyboard_handler ELSE Mouse_handler
    BY <2>1, InterruptIs
  <2>3. sti' = sti
    BY <2>1 DEF Interrupt
  <2>4. Next1("kbd")' \/ Next1("aux")'
    BY <2>2, HandlersAre DEF Next1, Do
  <2> QED
    BY <2>2, <2>3, <2>4 DEF Latched, Watched
<1>7. CASE UNCHANGED vars
  <2>1. UNCHANGED <<todo, sti, out, config, request>>
    BY <1>7 DEF vars, kernel, controller, pics
  <2> QED
    BY <2>1 DEF Latched, Watched, At, Next1, Level
<1> QED
  BY <1>1, <1>2, <1>3, <1>4, <1>5, <1>6, <1>7 DEF Next, Kernel, Outside

LEMMA LatchInvariant == Spec => []LatchInv
<1>1. Init => LatchInv
  <2> SUFFICES ASSUME Init
               PROVE  LatchInv
    OBVIOUS
  <2>1. PicInv
    BY PicInit
  <2>2. Level(out, config) = {}
    BY DEF Init, Level
  <2> QED
    BY <2>1, <2>2 DEF LatchInv, Latched
<1> QED
  BY <1>1, LatchStep, PTL DEF Spec

(* No byte is ever left in the output buffer with its interrupt lost: from *)
(* the end of set-up on either its request is latched or a handler is on   *)
(* the way to it.  The controllers forget what they had latched when they  *)
(* are initialised; that set-up reads the buffer after that is why.        *)
THEOREM BytesStayAnnounced == Spec => []NoByteStuck
<1>1. LatchInv => NoByteStuck
  <2> SUFFICES ASSUME LatchInv, sti, Ready \/ Head(todo).op = "out"
               PROVE  Level(out, config) \subseteq request
    BY DEF NoByteStuck
  <2>1. ~Next1("kbd") /\ ~Next1("aux")
    BY DEF Ready, Next1
  <2> QED
    BY <2>1 DEF LatchInv, Latched, Watched
<1> QED
  BY <1>1, LatchInvariant, PTL

-----------------------------------------------------------------------------
(* The bytes and the bits of the configuration.                            *)

LEMMA BitsOf ==
  ASSUME NEW c \in Byte
  PROVE  /\ With(c, 2) \in Byte /\ With(c, 16) \in Byte
         /\ Without(c, 16) \in Byte /\ Without(c, 32) \in Byte
         /\ Has(With(c, 2), 2)
         /\ ~Has(Without(c, 16), 16) /\ ~Has(Without(c, 32), 32)
<1> USE DEF Byte, Has, With, Without
<1>1. With(c, 2) \in Byte /\ Has(With(c, 2), 2)
  OBVIOUS
<1>2. With(c, 16) \in Byte
  OBVIOUS
<1>3. Without(c, 16) \in Byte /\ ~Has(Without(c, 16), 16)
  OBVIOUS
<1>4. Without(c, 32) \in Byte /\ ~Has(Without(c, 32), 32)
  OBVIOUS
<1> QED
  BY <1>1, <1>2, <1>3, <1>4

LEMMA BitsLeft ==
  ASSUME NEW c \in Byte
  PROVE  /\ Has(With(c, 2), 1) <=> Has(c, 1)
         /\ Has(With(c, 2), 16) <=> Has(c, 16)
         /\ Has(With(c, 2), 32) <=> Has(c, 32)
         /\ Has(With(c, 16), 1) <=> Has(c, 1)
         /\ Has(With(c, 16), 2) <=> Has(c, 2)
         /\ Has(With(c, 16), 32) <=> Has(c, 32)
         /\ Has(Without(c, 16), 1) <=> Has(c, 1)
         /\ Has(Without(c, 16), 2) <=> Has(c, 2)
         /\ Has(Without(c, 16), 32) <=> Has(c, 32)
         /\ Has(Without(c, 32), 1) <=> Has(c, 1)
         /\ Has(Without(c, 32), 2) <=> Has(c, 2)
         /\ Has(Without(c, 32), 16) <=> Has(c, 16)
<1> USE DEF Byte, Has, With, Without
<1>1. Has(With(c, 2), 1) <=> Has(c, 1)
  OBVIOUS
<1>2. Has(With(c, 2), 16) <=> Has(c, 16)
  OBVIOUS
<1>3. Has(With(c, 2), 32) <=> Has(c, 32)
  OBVIOUS
<1>4. Has(With(c, 16), 1) <=> Has(c, 1)
  OBVIOUS
<1>5. Has(With(c, 16), 2) <=> Has(c, 2)
  OBVIOUS
<1>6. Has(With(c, 16), 32) <=> Has(c, 32)
  OBVIOUS
<1>7. Has(Without(c, 16), 1) <=> Has(c, 1)
  OBVIOUS
<1>8. Has(Without(c, 16), 2) <=> Has(c, 2)
  OBVIOUS
<1>9. Has(Without(c, 16), 32) <=> Has(c, 32)
  OBVIOUS
<1>10. Has(Without(c, 32), 1) <=> Has(c, 1)
  OBVIOUS
<1>11. Has(Without(c, 32), 2) <=> Has(c, 2)
  OBVIOUS
<1>12. Has(Without(c, 32), 16) <=> Has(c, 16)
  OBVIOUS
<1> QED
  BY <1>1, <1>2, <1>3, <1>4, <1>5, <1>6, <1>7, <1>8, <1>9, <1>10, <1>11, <1>12

-----------------------------------------------------------------------------
(* What the registers, buffers and queues hold.                            *)

Sendable == [port : {96, 100}, value : Byte]
Readables == [from : Source, byte : Byte]

TypesOK ==
  /\ status \in Byte
  /\ input = <<>> \/ \E w \in Sendable : input = <<w>>
  /\ awaits \in Device \cup {"config"}
  /\ config \in Byte
  /\ out = <<>> \/ \E b \in Readables : out = <<b>>
  /\ answers \in [Source -> Seq(Byte)]
  /\ reporting \subseteq Device /\ testing \subseteq Device
  /\ slow \in 0 .. MaxSlow
  /\ mistaken \in BOOLEAN

TypesInv == PicInv /\ TypesOK

(* What is written to the controller, in the order it is written; the      *)
(* sixth byte is the status that was read.                                 *)
SentBefore(k) ==
  CASE k <= 1 -> 0 [] k = 2 -> 1 [] k \in 3 .. 14 -> 2 [] k \in 15 .. 16 -> 3
    [] k \in 17 .. 20 -> 4 [] k \in 21 .. 22 -> 5 [] k \in 23 .. 24 -> 6
    [] k \in 25 .. 26 -> 7 [] k \in 27 .. 29 -> 8 [] k = 30 -> 9
    [] k = 31 -> 10 [] k \in 32 .. 33 -> 11 [] k = 34 -> 12
    [] k \in 35 .. 36 -> 13 [] k = 37 -> 14 [] k = 38 -> 15 [] OTHER -> 16

Port(n) == IF n \in {6, 8, 11, 13, 14, 16} THEN 96 ELSE 100

Value(n) ==
  CASE n \in {1, 10} -> 173 [] n \in {2, 9} -> 174 [] n = 3 -> 168
    [] n = 4 -> 32 [] n = 5 -> 96 [] n \in {7, 12, 15} -> 212
    [] n \in {8, 14, 16} -> 244 [] OTHER -> 255

Sending(n) ==
  [port |-> Port(n), value |-> IF n = 6 THEN status ELSE Value(n)]

LEMMA SentIs ==
  ASSUME NEW k \in 1 .. 41
  PROVE  /\ SentBefore(k) \in 0 .. 16
         /\ k \in Written => SentBefore(k + 1) = SentBefore(k) + 1
         /\ k \notin Written => SentBefore(k + 1) = SentBefore(k)
         /\ k = 22 => SentBefore(k + 1) = 6
<1>1. CASE k \in 1 .. 14
  BY <1>1 DEF SentBefore, Written
<1>2. CASE k \in 15 .. 28
  BY <1>2 DEF SentBefore, Written
<1>3. CASE k \in 29 .. 41
  BY <1>3 DEF SentBefore, Written
<1> QED
  BY <1>1, <1>2, <1>3

LEMMA SendsInOrder ==
  ASSUME NEW k \in Written, k # 22
  PROVE  InitializeKernel[k]
           = Out(Port(SentBefore(k + 1)), Value(SentBefore(k + 1)))
<1>1. /\ SentBefore(2) = 1 /\ SentBefore(3) = 2 /\ SentBefore(15) = 3
      /\ SentBefore(17) = 4 /\ SentBefore(21) = 5 /\ SentBefore(23) = 6
      /\ SentBefore(25) = 7 /\ SentBefore(27) = 8 /\ SentBefore(30) = 9
      /\ SentBefore(31) = 10 /\ SentBefore(32) = 11 /\ SentBefore(34) = 12
      /\ SentBefore(35) = 13 /\ SentBefore(37) = 14 /\ SentBefore(38) = 15
      /\ SentBefore(39) = 16
  BY DEF SentBefore
<1>2. /\ Port(1) = 100 /\ Value(1) = 173 /\ Port(2) = 100 /\ Value(2) = 174
      /\ Port(3) = 100 /\ Value(3) = 168 /\ Port(4) = 100 /\ Value(4) = 32
      /\ Port(5) = 100 /\ Value(5) = 96 /\ Port(7) = 100 /\ Value(7) = 212
      /\ Port(8) = 96 /\ Value(8) = 244 /\ Port(9) = 100 /\ Value(9) = 174
      /\ Port(10) = 100 /\ Value(10) = 173 /\ Port(11) = 96 /\ Value(11) = 255
      /\ Port(12) = 100 /\ Value(12) = 212 /\ Port(13) = 96 /\ Value(13) = 255
      /\ Port(14) = 96 /\ Value(14) = 244 /\ Port(15) = 100 /\ Value(15) = 212
      /\ Port(16) = 96 /\ Value(16) = 244
  BY DEF Port, Value
<1>3. CASE k = 1
  <2>1. InitializeKernel[k] = Out(100, 173) /\ SentBefore(k + 1) = 1
    BY <1>1, <1>3, ProgramAt
  <2> QED
    BY <1>2, <2>1
<1>4. CASE k = 2
  <2>1. InitializeKernel[k] = Out(100, 174) /\ SentBefore(k + 1) = 2
    BY <1>1, <1>4, ProgramAt
  <2> QED
    BY <1>2, <2>1
<1>5. CASE k = 14
  <2>1. InitializeKernel[k] = Out(100, 168) /\ SentBefore(k + 1) = 3
    BY <1>1, <1>5, ProgramAt
  <2> QED
    BY <1>2, <2>1
<1>6. CASE k = 16
  <2>1. InitializeKernel[k] = Out(100, 32) /\ SentBefore(k + 1) = 4
    BY <1>1, <1>6, ProgramAt
  <2> QED
    BY <1>2, <2>1
<1>7. CASE k = 20
  <2>1. InitializeKernel[k] = Out(100, 96) /\ SentBefore(k + 1) = 5
    BY <1>1, <1>7, ProgramAt
  <2> QED
    BY <1>2, <2>1
<1>8. CASE k = 24
  <2>1. InitializeKernel[k] = Out(100, 212) /\ SentBefore(k + 1) = 7
    BY <1>1, <1>8, ProgramAt
  <2> QED
    BY <1>2, <2>1
<1>9. CASE k = 26
  <2>1. InitializeKernel[k] = Out(96, 244) /\ SentBefore(k + 1) = 8
    BY <1>1, <1>9, ProgramAt
  <2> QED
    BY <1>2, <2>1
<1>10. CASE k = 29
  <2>1. InitializeKernel[k] = Out(100, 174) /\ SentBefore(k + 1) = 9
    BY <1>1, <1>10, ProgramAt
  <2> QED
    BY <1>2, <2>1
<1>11. CASE k = 30
  <2>1. InitializeKernel[k] = Out(100, 173) /\ SentBefore(k + 1) = 10
    BY <1>1, <1>11, ProgramAt
  <2> QED
    BY <1>2, <2>1
<1>12. CASE k = 31
  <2>1. InitializeKernel[k] = Out(96, 255) /\ SentBefore(k + 1) = 11
    BY <1>1, <1>12, ProgramAt
  <2> QED
    BY <1>2, <2>1
<1>13. CASE k = 33
  <2>1. InitializeKernel[k] = Out(100, 212) /\ SentBefore(k + 1) = 12
    BY <1>1, <1>13, ProgramAt
  <2> QED
    BY <1>2, <2>1
<1>14. CASE k = 34
  <2>1. InitializeKernel[k] = Out(96, 255) /\ SentBefore(k + 1) = 13
    BY <1>1, <1>14, ProgramAt
  <2> QED
    BY <1>2, <2>1
<1>15. CASE k = 36
  <2>1. InitializeKernel[k] = Out(96, 244) /\ SentBefore(k + 1) = 14
    BY <1>1, <1>15, ProgramAt
  <2> QED
    BY <1>2, <2>1
<1>16. CASE k = 37
  <2>1. InitializeKernel[k] = Out(100, 212) /\ SentBefore(k + 1) = 15
    BY <1>1, <1>16, ProgramAt
  <2> QED
    BY <1>2, <2>1
<1>17. CASE k = 38
  <2>1. InitializeKernel[k] = Out(96, 244) /\ SentBefore(k + 1) = 16
    BY <1>1, <1>17, ProgramAt
  <2> QED
    BY <1>2, <2>1
<1> QED
  BY <1>3, <1>4, <1>5, <1>6, <1>7, <1>8, <1>9, <1>10, <1>11, <1>12,
     <1>13, <1>14, <1>15, <1>16, <1>17 DEF Written

(* How many bytes have been written.                                       *)
Count == IF sti THEN 16 ELSE SentBefore(At)

LEMMA WriteIs ==
  ASSUME PicInv, Write
  PROVE  /\ ~sti /\ ~sti' /\ At \in Written /\ At' = At + 1
         /\ Count \in 0 .. 15 /\ Count' = Count + 1
         /\ input' = <<Sending(Count + 1)>>
<1>1. /\ ~sti /\ sti' = sti /\ GoOn
      /\ \/ /\ Next1("out") /\ Head(todo).port \in {96, 100}
            /\ input' = <<[port |-> Head(todo).port,
                           value |-> Head(todo).value]>>
         \/ Next1("outStatus") /\ input' = <<[port |-> 96, value |-> status]>>
  BY AccessKeepsPic DEF Write
<1>2. /\ At \in Written /\ (Next1("outStatus") => At = 22)
  BY <1>1, WhereIs DEF PicInv, Written
<1>3. /\ At \in 1 .. 41 /\ At' = At + 1 /\ Head(todo) = InitializeKernel[At]
  BY <1>1, NextIs DEF PicInv
<1>4. PICK k : k = At
  OBVIOUS
<1>5. /\ k \in 1 .. 41 /\ k \in Written
      /\ SentBefore(k + 1) = SentBefore(k) + 1 /\ SentBefore(k) \in 0 .. 16
      /\ SentBefore(k + 1) \in 0 .. 16
  <2>1. k \in 1 .. 41 /\ k \in Written /\ k + 1 \in 1 .. 41
    BY <1>2, <1>3, <1>4 DEF Written
  <2> QED
    BY <2>1, SentIs
<1>6. Count = SentBefore(k) /\ Count' = SentBefore(k + 1)
  BY <1>1, <1>3, <1>4 DEF Count
<1>7. CASE At = 22
  <2>1. Head(todo) = Do("outStatus")
    BY <1>3, <1>7, ProgramAt
  <2>2. input' = <<[port |-> 96, value |-> status]>>
    BY <1>1, <2>1 DEF Do, Next1
  <2>3. SentBefore(k + 1) = 6
    BY <1>4, <1>7, SentIs
  <2> QED
    BY <1>1, <1>2, <1>3, <1>5, <1>6, <2>2, <2>3 DEF Sending, Port
<1>8. CASE At # 22
  <2>1. Head(todo) = Out(Port(SentBefore(k + 1)), Value(SentBefore(k + 1)))
    BY <1>3, <1>4, <1>5, <1>8, SendsInOrder
  <2>2. input' = <<[port |-> Port(SentBefore(k + 1)),
                    value |-> Value(SentBefore(k + 1))]>>
    BY <1>1, <1>2, <1>8, <2>1 DEF Out
  <2>3. SentBefore(k + 1) # 6
    <3>1. CASE k \in {1, 2, 14, 16, 20}
      BY <3>1 DEF SentBefore
    <3>2. CASE k \in {24, 26, 29, 30, 31, 33, 34, 36, 37, 38}
      BY <3>2 DEF SentBefore
    <3> QED
      BY <1>4, <1>5, <1>8, <3>1, <3>2 DEF Written
  <2> QED
    BY <1>1, <1>2, <1>3, <1>5, <1>6, <2>2, <2>3 DEF Sending
<1> QED
  BY <1>7, <1>8

LEMMA QueuesAre ==
  ASSUME NEW queue \in Seq(Byte), NEW byte \in Byte
  PROVE  /\ Append(queue, byte) \in Seq(Byte) /\ <<byte>> \in Seq(Byte)
         /\ queue # <<>> => Head(queue) \in Byte /\ Tail(queue) \in Seq(Byte)
         /\ queue \o <<170>> \in Seq(Byte) /\ queue \o <<170, 0>> \in Seq(Byte)
<1>1. <<170>> \in Seq(Byte) /\ <<170, 0>> \in Seq(Byte)
  BY DEF Byte
<1> HIDE DEF Byte
<1>2. Append(queue, byte) \in Seq(Byte) /\ <<byte>> \in Seq(Byte)
  BY AppendProperties
<1>3. queue # <<>> => Head(queue) \in Byte /\ Tail(queue) \in Seq(Byte)
  BY HeadTailProperties
<1>4. queue \o <<170>> \in Seq(Byte) /\ queue \o <<170, 0>> \in Seq(Byte)
  BY <1>1, ConcatProperties
<1> QED
  BY <1>2, <1>3, <1>4

LEMMA SendingIs ==
  ASSUME status \in Byte, NEW n \in Int
  PROVE  Sending(n) \in Sendable
<1>1. Value(n) \in Byte
  BY DEF Value, Byte
<1>2. Port(n) \in {96, 100}
  BY DEF Port
<1> QED
  BY <1>1, <1>2 DEF Sending, Sendable

(* What each step of the hardware does to all this.                        *)
LEMMA TakeCommandIs ==
  ASSUME TypesInv, TakeCommand
  PROVE  /\ input' = <<>> /\ out' = out
         /\ UNCHANGED <<todo, sti, status, saved, mistaken, reporting, testing,
                        slow>>
         /\ \E command \in Byte :
              /\ input = <<[port |-> 100, value |-> command]>>
              /\ awaits' = CASE command = 96 -> "config"
                             [] command = 212 -> "aux"
                             [] OTHER -> "kbd"
              /\ answers' = IF command = 32
                            THEN [answers EXCEPT !["ctl"] =
                                    Append(answers["ctl"], config)]
                            ELSE answers
              /\ config' = CASE command = 173 -> With(config, 16)
                             [] command = 174 -> Without(config, 16)
                             [] command = 168 -> Without(config, 32)
                             [] OTHER -> config
<1>1. PICK w \in Sendable : input = <<w>>
  BY DEF TypesInv, TypesOK, TakeCommand
<1>2. w.port = 100 /\ w.value \in Byte /\ w = [port |-> 100, value |-> w.value]
  BY <1>1 DEF TakeCommand, Sendable
<1>3. input[1].value = w.value
  BY <1>1
<1>4. PICK command : command = w.value
  OBVIOUS
<1>5. input = <<[port |-> 100, value |-> command]>> /\ command \in Byte
  BY <1>1, <1>2, <1>4
<1>6. /\ awaits' = CASE command = 96 -> "config"
                     [] command = 212 -> "aux"
                     [] OTHER -> "kbd"
      /\ answers' = IF command = 32
                    THEN [answers EXCEPT !["ctl"] =
                            Append(answers["ctl"], config)]
                    ELSE answers
      /\ Drive(out, CASE command = 173 -> With(config, 16)
                      [] command = 174 -> Without(config, 16)
                      [] command = 168 -> Without(config, 32)
                      [] OTHER -> config)
  BY <1>3, <1>4 DEF TakeCommand
<1>7. /\ out' = out
      /\ config' = CASE command = 173 -> With(config, 16)
                     [] command = 174 -> Without(config, 16)
                     [] command = 168 -> Without(config, 32)
                     [] OTHER -> config
  BY <1>6 DEF Drive
<1>8. /\ input' = <<>>
      /\ UNCHANGED <<todo, sti, status, saved, mistaken, reporting, testing,
                     slow>>
  BY DEF TakeCommand, kernel
<1> QED
  BY <1>5, <1>6, <1>7, <1>8

LEMMA TakeDataIs ==
  ASSUME TypesInv, TakeData
  PROVE  /\ input' = <<>> /\ out' = out /\ awaits' = "kbd"
         /\ UNCHANGED <<todo, sti, status, saved, mistaken>>
         /\ \E byte \in Byte :
              /\ input = <<[port |-> 96, value |-> byte]>>
              /\ \/ /\ awaits = "config" /\ config' = byte
                    /\ UNCHANGED <<answers, reporting, testing, slow>>
                 \/ /\ awaits \in Device
                    /\ config' = IF awaits = "kbd" THEN Without(config, 16)
                                 ELSE config
                    /\ Receive(awaits, byte)
<1>1. PICK w \in Sendable : input = <<w>>
  BY DEF TypesInv, TypesOK, TakeData
<1>2. w.port = 96 /\ w.value \in Byte /\ w = [port |-> 96, value |-> w.value]
  BY <1>1 DEF TakeData, Sendable
<1>3. input[1].value = w.value
  BY <1>1
<1>4. PICK byte : byte = w.value
  OBVIOUS
<1>5. input = <<[port |-> 96, value |-> byte]>> /\ byte \in Byte
  BY <1>1, <1>2, <1>4
<1>6. \/ /\ awaits = "config" /\ Drive(out, byte)
         /\ UNCHANGED <<answers, reporting, testing, slow>>
      \/ /\ awaits \in Device
         /\ Drive(out, IF awaits = "kbd" THEN Without(config, 16) ELSE config)
         /\ Receive(awaits, byte)
  BY <1>3, <1>4 DEF TakeData
<1>7. /\ out' = out
      /\ \/ /\ awaits = "config" /\ config' = byte
            /\ UNCHANGED <<answers, reporting, testing, slow>>
         \/ /\ awaits \in Device
            /\ config' = IF awaits = "kbd" THEN Without(config, 16)
                         ELSE config
            /\ Receive(awaits, byte)
  BY <1>6 DEF Drive
<1>8. /\ input' = <<>> /\ awaits' = "kbd"
      /\ UNCHANGED <<todo, sti, status, saved, mistaken>>
  BY DEF TakeData, kernel
<1> QED
  BY <1>5, <1>7, <1>8

LEMMA ReceiveIs ==
  ASSUME TypesOK, NEW device \in Device, NEW command \in Byte,
         Receive(device, command)
  PROVE  /\ answers' \in [Source -> Seq(Byte)]
         /\ answers'["ctl"] = answers["ctl"]
         /\ reporting' \subseteq Device /\ testing' \subseteq Device
         /\ slow' \in 0 .. MaxSlow /\ slow' >= slow
         /\ slow' = 0 =>
              reporting' = IF command = 255 THEN reporting \ {device}
                           ELSE IF command = 244 THEN reporting \cup {device}
                           ELSE reporting
<1>1. CASE device \in testing
  BY <1>1, PS2Assumption DEF TypesOK, Receive, TooSlowIf
<1>2. CASE device \notin testing
  <2>1. /\ answers' = [answers EXCEPT ![device] =
                        IF command = 255 THEN <<250>>
                        ELSE Append(@, IF command = 244 THEN 250 ELSE 254)]
        /\ testing' = IF command = 255 THEN testing \cup {device} ELSE testing
        /\ reporting' = IF command = 255 THEN reporting \ {device}
                        ELSE IF command = 244 THEN reporting \cup {device}
                        ELSE reporting
        /\ slow' = slow
    BY <1>2 DEF Receive
  <2>2. answers[device] \in Seq(Byte) /\ device \in Source /\ device # "ctl"
    BY DEF TypesOK, Source, Device
  <2>3. 250 \in Byte /\ 254 \in Byte
    BY DEF Byte
  <2>4. /\ <<250>> \in Seq(Byte) /\ Append(answers[device], 250) \in Seq(Byte)
        /\ Append(answers[device], 254) \in Seq(Byte)
    BY <2>2, <2>3, QueuesAre
  <2> DEFINE queue == IF command = 255 THEN <<250>>
                      ELSE Append(answers[device],
                                  IF command = 244 THEN 250 ELSE 254)
  <2>5. queue \in Seq(Byte)
    BY <2>4
  <2>7. answers' = [answers EXCEPT ![device] = queue]
    BY <2>1
  <2> HIDE DEF queue
  <2>6. answers' \in [Source -> Seq(Byte)] /\ answers'["ctl"] = answers["ctl"]
    BY <2>2, <2>5, <2>7 DEF TypesOK, Source
  <2> QED
    BY <2>1, <2>6 DEF TypesOK
<1> QED
  BY <1>1, <1>2

LEMMA FillIs ==
  ASSUME TypesInv, NEW source \in Source, Fill(source)
  PROVE  /\ out = <<>> /\ answers[source] # <<>>
         /\ out' = <<[from |-> source, byte |-> Head(answers[source])]>>
         /\ Head(answers[source]) \in Byte
         /\ answers' = [answers EXCEPT ![source] = Tail(answers[source])]
         /\ answers' \in [Source -> Seq(Byte)]
         /\ UNCHANGED <<config, todo, sti, status, saved, mistaken, input,
                        awaits, reporting, testing, slow>>
<1>1. answers[source] \in Seq(Byte) /\ answers[source] # <<>>
  BY DEF TypesInv, TypesOK, Fill
<1>2. Head(answers[source]) \in Byte /\ Tail(answers[source]) \in Seq(Byte)
  <2>1. 0 \in Byte
    BY DEF Byte
  <2> QED
    BY <1>1, <2>1, QueuesAre
<1>3. /\ out = <<>>
      /\ out' = <<[from |-> source, byte |-> Head(answers[source])]>>
      /\ config' = config
      /\ answers' = [answers EXCEPT ![source] = Tail(answers[source])]
      /\ UNCHANGED <<todo, sti, status, saved, mistaken, input, awaits,
                     reporting, testing, slow>>
  BY DEF Fill, Drive, kernel
<1>4. answers' \in [Source -> Seq(Byte)]
  BY <1>2, <1>3 DEF TypesInv, TypesOK
<1> QED
  BY <1>1, <1>2, <1>3, <1>4

LEMMA DeviceStepIs ==
  ASSUME TypesInv, NEW device \in Device, PassTest(device) \/ Use(device)
  PROVE  /\ answers' \in [Source -> Seq(Byte)]
         /\ answers'["ctl"] = answers["ctl"]
         /\ reporting \subseteq reporting' /\ reporting' \subseteq Device
         /\ testing' \subseteq testing
         /\ UNCHANGED <<todo, sti, status, saved, mistaken, input, awaits,
                        config, out, slow>>
<1>1. answers[device] \in Seq(Byte) /\ device \in Source /\ device # "ctl"
  BY DEF TypesInv, TypesOK, Source, Device
<1>2. PICK queue \in Seq(Byte) : answers' = [answers EXCEPT ![device] = queue]
  <2>1. CASE PassTest(device)
    <3>1. answers' = [answers EXCEPT ![device] =
                   @ \o (IF device = "kbd" THEN <<170>> ELSE <<170, 0>>)]
      BY <2>1 DEF PassTest
    <3>2. /\ answers[device] \o <<170>> \in Seq(Byte)
          /\ answers[device] \o <<170, 0>> \in Seq(Byte)
      <4>1. 0 \in Byte
        BY DEF Byte
      <4> QED
        BY <1>1, <4>1, QueuesAre
    <3> QED
      BY <3>1, <3>2
  <2>2. CASE Use(device)
    <3>1. PICK byte \in UserBytes[device] :
            answers' = [answers EXCEPT ![device] = Append(answers[device], byte)]
      BY <2>2 DEF Use
    <3>2. byte \in Byte
      BY <3>1, PS2Assumption
    <3>3. Append(answers[device], byte) \in Seq(Byte)
      BY <1>1, <3>2, QueuesAre
    <3> QED
      BY <3>1, <3>3
  <2> QED
    BY <2>1, <2>2
<1>3. answers' \in [Source -> Seq(Byte)] /\ answers'["ctl"] = answers["ctl"]
  BY <1>1, <1>2 DEF TypesInv, TypesOK, Source
<1>4. /\ reporting \subseteq reporting' /\ reporting' \subseteq Device
      /\ testing' \subseteq testing
  BY DEF TypesInv, TypesOK, PassTest, Use, Device
<1>5. UNCHANGED <<todo, sti, status, saved, mistaken, input, awaits, config,
                  out, slow>>
  BY DEF PassTest, Use, kernel, controller
<1> QED
  BY <1>3, <1>4, <1>5

LEMMA TooSlowIs ==
  ASSUME slow \in 0 .. MaxSlow, NEW condition, TooSlowIf(condition)
  PROVE  /\ slow' \in 0 .. MaxSlow /\ slow' >= slow
         /\ condition => slow' # 0
         /\ ~condition => slow' = slow
  BY PS2Assumption DEF TooSlowIf

(* What can be read is a byte, and so is the status made of it.            *)
LEMMA ReadStatusIs ==
  ASSUME TypesInv, ReadStatus
  PROVE  /\ out' = <<>> /\ config' = config /\ status' \in Byte
         /\ mistaken' = (out # <<>> /\ out[1].from # "ctl")
         /\ out # <<>> => status' = With(out[1].byte, 2)
         /\ GoOn
         /\ UNCHANGED <<sti, input, awaits, answers, reporting, testing, slow>>
<1>1. PICK byte \in Readable : status' = With(byte, 2)
  BY DEF ReadStatus
<1>2. out # <<>> => out[1].byte \in Byte
  <2> SUFFICES ASSUME out # <<>>
               PROVE  out[1].byte \in Byte
    OBVIOUS
  <2>1. PICK b \in Readables : out = <<b>>
    BY DEF TypesInv, TypesOK
  <2> QED
    BY <2>1 DEF Readables
<1>3. byte \in Byte /\ (out # <<>> => byte = out[1].byte)
  <2>1. /\ 0 \in Byte /\ 250 \in Byte
        /\ UserBytes["kbd"] \subseteq Byte /\ UserBytes["aux"] \subseteq Byte
    BY PS2Assumption DEF Byte, Device
  <2> QED
    BY <1>1, <1>2, <2>1 DEF Readable
<1>4. status' \in Byte
  BY <1>1, <1>3, BitsOf
<1>5. out' = <<>> /\ config' = config
  BY DEF ReadStatus, Consume, Drive
<1> QED
  BY <1>1, <1>3, <1>4, <1>5 DEF ReadStatus, devices

LEMMA TypesStep == TypesInv /\ [Next]_vars => TypesInv'
<1> SUFFICES ASSUME TypesInv, [Next]_vars
             PROVE  TypesOK'
  BY PicStep DEF TypesInv
<1> DEFINE Buffer == out = <<>> \/ \E b \in Readables : out = <<b>>
<1>1. CASE TakeCommand
  <2>1. config' \in Byte
    BY <1>1, TakeCommandIs, BitsOf DEF TypesInv, TypesOK
  <2>2. answers' \in [Source -> Seq(Byte)]
    <3>1. answers["ctl"] \in Seq(Byte) /\ config \in Byte
      BY DEF TypesInv, TypesOK, Source
    <3>2. Append(answers["ctl"], config) \in Seq(Byte)
      BY <3>1, QueuesAre
    <3>3. answers' \in {answers, [answers EXCEPT !["ctl"] =
                                    Append(answers["ctl"], config)]}
      BY <1>1, TakeCommandIs
    <3> QED
      BY <3>2, <3>3 DEF TypesInv, TypesOK
  <2>3. awaits' \in Device \cup {"config"}
    BY <1>1, TakeCommandIs DEF Device
  <2>4. /\ input' = <<>> /\ out' = out
        /\ UNCHANGED <<status, mistaken, reporting, testing, slow>>
    BY <1>1, TakeCommandIs
  <2> QED
    BY <2>1, <2>2, <2>3, <2>4 DEF TypesInv, TypesOK
<1>2. CASE TakeData
  <2>1. /\ input' = <<>> /\ out' = out /\ awaits' = "kbd"
        /\ UNCHANGED <<status, mistaken>>
    BY <1>2, TakeDataIs
  <2>2. PICK byte \in Byte :
           \/ /\ awaits = "config" /\ config' = byte
              /\ UNCHANGED <<answers, reporting, testing, slow>>
           \/ /\ awaits \in Device
              /\ config' = IF awaits = "kbd" THEN Without(config, 16)
                           ELSE config
              /\ Receive(awaits, byte)
    BY <1>2, TakeDataIs
  <2>3. config' \in Byte
    BY <2>2, BitsOf DEF TypesInv, TypesOK
  <2>4. /\ answers' \in [Source -> Seq(Byte)]
        /\ reporting' \subseteq Device /\ testing' \subseteq Device
        /\ slow' \in 0 .. MaxSlow
    <3>1. CASE UNCHANGED <<answers, reporting, testing, slow>>
      BY <3>1 DEF TypesInv, TypesOK
    <3>2. CASE awaits \in Device /\ Receive(awaits, byte)
      BY <3>2, ReceiveIs DEF TypesInv
    <3> QED
      BY <2>2, <3>1, <3>2
  <2> QED
    BY <2>1, <2>3, <2>4 DEF TypesInv, TypesOK, Device
<1>3. CASE \E source \in Source : Fill(source)
  <2>1. PICK source \in Source : Fill(source)
    BY <1>3
  <2>2. /\ out' = <<[from |-> source, byte |-> Head(answers[source])]>>
        /\ Head(answers[source]) \in Byte
        /\ answers' \in [Source -> Seq(Byte)]
        /\ UNCHANGED <<config, status, mistaken, input, awaits, reporting,
                       testing, slow>>
    BY <2>1, FillIs
  <2>3. Buffer'
    BY <2>2 DEF Readables
  <2> QED
    BY <2>2, <2>3 DEF TypesInv, TypesOK
<1>4. CASE \E device \in Device : PassTest(device) \/ Use(device)
  <2>1. /\ answers' \in [Source -> Seq(Byte)] /\ reporting' \subseteq Device
        /\ testing' \subseteq testing
        /\ UNCHANGED <<status, mistaken, input, awaits, config, out, slow>>
    BY <1>4, DeviceStepIs
  <2> QED
    BY <2>1 DEF TypesInv, TypesOK
<1>5. CASE \E irq \in OtherIrqs : Raise(irq)
  BY <1>5 DEF Raise, kernel, controller, devices, TypesInv, TypesOK
<1>6. CASE Write
  <2>1. \E w \in Sendable : input' = <<w>>
    <3>1. input' = <<Sending(Count + 1)>> /\ Count \in 0 .. 15
      BY <1>6, WriteIs DEF TypesInv
    <3>2. Sending(Count + 1) \in Sendable
      BY <3>1, SendingIs DEF TypesInv, TypesOK
    <3> QED
      BY <3>1, <3>2
  <2>2. slow' \in 0 .. MaxSlow
    BY <1>6, TooSlowIs DEF Write, TypesInv, TypesOK
  <2>3. UNCHANGED <<status, mistaken, awaits, config, out, answers, reporting,
                    testing>>
    BY <1>6 DEF Write, devices
  <2> QED
    BY <2>1, <2>2, <2>3 DEF TypesInv, TypesOK
<1>7. CASE MouseWait \/ MouseWaitInput \/ KeepMasks \/ SetInterrupts
           \/ (\E chip \in {1, 2} : PICCommand(chip) \/ PICData(chip))
           \/ (\E irq \in Irq : Interrupt(irq))
  <2>1. UNCHANGED <<status, mistaken, controller, devices>>
    BY <1>7 DEF MouseWait, MouseWaitInput, KeepMasks, SetInterrupts,
                PICCommand, PICData, Interrupt
  <2>2. slow' \in 0 .. MaxSlow
    <3>1. CASE MouseWaitInput
      BY <3>1, TooSlowIs DEF MouseWaitInput, TypesInv, TypesOK
    <3>2. CASE ~MouseWaitInput
      BY <1>7, <3>2 DEF MouseWait, KeepMasks, SetInterrupts, PICCommand,
                        PICData, Interrupt, TypesInv, TypesOK
    <3> QED
      BY <3>1, <3>2
  <2> QED
    BY <2>1, <2>2 DEF TypesInv, TypesOK, controller, devices
<1>8. CASE ReadStatus
  <2>1. mistaken' \in BOOLEAN
    BY <1>8, ReadStatusIs
  <2> QED
    BY <1>8, <2>1, ReadStatusIs DEF TypesInv, TypesOK
<1>9. CASE Discard \/ Drain \/ \E driver \in Device : TakeByte(driver)
  <2>1. /\ out' = <<>> /\ config' = config
        /\ UNCHANGED <<status, mistaken, slow, input, awaits, devices>>
    BY <1>9 DEF Discard, Drain, TakeByte, Consume, Drive
  <2> QED
    BY <2>1 DEF TypesInv, TypesOK, devices
<1>10. CASE UNCHANGED vars
  BY <1>10 DEF vars, kernel, controller, devices, TypesInv, TypesOK
<1> QED
  BY <1>1, <1>2, <1>3, <1>4, <1>5, <1>6, <1>7, <1>8, <1>9, <1>10
  DEF Next, Kernel

LEMMA TypesInit == Init => TypesInv
<1> SUFFICES ASSUME Init
             PROVE  TypesOK
  BY PicInit DEF TypesInv
<1>1. config \in Byte /\ 0 \in 0 .. MaxSlow /\ 0 \in Byte
  BY PS2Assumption DEF Init, Byte
<1>2. answers \in [Source -> Seq(Byte)]
  BY DEF Init
<1> QED
  BY <1>1, <1>2 DEF Init, TypesOK, Device

-----------------------------------------------------------------------------
(* Set-up with hardware that is fast enough and no byte mistaken for the   *)
(* controller's answer.                                                    *)

Fast == slow = 0 /\ ~mistaken

Taken == IF input = <<>> THEN Count ELSE Count - 1

Early == ~sti /\ At <= 18    (* the answer has not been read *)

FromCtl == out # <<>> /\ out[1].from = "ctl"

(* The controller has taken what was written in order, all or all but the  *)
(* last of it.                                                             *)
InOrder ==
  /\ input # <<>> => Count >= 1 /\ input = <<Sending(Count)>>
  /\ awaits = IF Taken = 5 THEN "config"
              ELSE IF Taken \in {7, 12, 15} THEN "aux" ELSE "kbd"

Configured ==
  /\ Has(config, 1)
  /\ Taken >= 2 /\ Taken # 10 => ~Has(config, 16)
  /\ Taken >= 3 => ~Has(config, 32)
  /\ Taken >= 6 => Has(config, 2)

(* What the controller answers is its configuration, and that becomes the  *)
(* status that is written back.                                            *)
Answered ==
  /\ Taken <= 3 => answers["ctl"] = <<>> /\ ~FromCtl
  /\ Early => /\ answers["ctl"] \in {<<>>, <<config>>}
              /\ FromCtl => out[1].byte = config
              /\ Taken = 4 => answers["ctl"] # <<>> \/ FromCtl
              /\ At = 18 => out # <<>>
  /\ ~Early /\ Taken <= 5 => status = With(config, 2)

Reporting ==
  /\ Taken >= 14 => "kbd" \in reporting
  /\ Taken >= 16 => "aux" \in reporting

Working == InOrder /\ Configured /\ Answered /\ Reporting

SetUpInv ==
  /\ Early => ~mistaken
  /\ Fast => Working

LEMMA CountIs ==
  ASSUME PicInv
  PROVE  /\ Count \in 0 .. 16
         /\ Early => Count <= 4
         /\ ~Early => Count >= 4
         /\ ~sti /\ At <= 3 => Count <= 2
<1>1. CASE sti
  BY <1>1 DEF Count, Early
<1>2. CASE ~sti
  <2>1. PICK k : k = At
    OBVIOUS
  <2>2. k \in 1 .. 41
    BY <1>2, <2>1, NextIs DEF PicInv
  <2>3. SentBefore(k) \in 0 .. 16
    BY <2>2, SentIs
  <2>4. k <= 18 => SentBefore(k) <= 4
    BY <2>2 DEF SentBefore
  <2>6. k > 18 => SentBefore(k) >= 4
    BY <2>2 DEF SentBefore
  <2>5. k <= 3 => SentBefore(k) <= 2
    BY <2>2 DEF SentBefore
  <2> QED
    BY <1>2, <2>1, <2>2, <2>3, <2>4, <2>5, <2>6 DEF Count, Early
<1> QED
  BY <1>1, <1>2

(* What an access that writes nothing leaves of it.                        *)
LEMMA QuietSetUp ==
  ASSUME TypesInv, SetUpInv, Count' = Count,
         UNCHANGED <<input, awaits, config, status, answers, mistaken>>,
         reporting \subseteq reporting',
         slow' = 0 => slow = 0,
         out' = out \/ (out' = <<>> /\ (Early => Count <= 2)),
         Early' => Early,
         Early' /\ slow' = 0 /\ At' = 18 => out' # <<>>,
         ~Early' => ~Early
  PROVE  SetUpInv'
<1>1. Early' <=> Early
  OBVIOUS
<1>2. Early' => ~mistaken'
  BY <1>1 DEF SetUpInv
<1>3. ASSUME Fast'
      PROVE  Working'
  <2>1. Fast /\ Working
    BY <1>3 DEF Fast, SetUpInv
  <2>2. Taken' = Taken /\ Count \in 0 .. 16
    BY CountIs DEF Taken, TypesInv
  <2>3. Taken <= Count
    BY <2>2 DEF Taken
  <2>4. InOrder'
    BY <2>1, <2>2 DEF Working, InOrder, Sending
  <2>5. Configured'
    BY <2>1, <2>2 DEF Working, Configured
  <2>6. Reporting'
    BY <2>1, <2>2 DEF Working, Reporting
  <2>7. Answered'
    <3>1. FromCtl' => FromCtl /\ out' = out
      BY DEF FromCtl
    <3>2. Early' => (Taken' = 4 => answers'["ctl"] # <<>> \/ FromCtl')
      <4>1. CASE out' = out
        BY <1>1, <2>1, <2>2, <4>1 DEF Working, Answered, FromCtl
      <4>2. CASE out' = <<>> /\ (Early => Count <= 2)
        BY <1>1, <2>2, <2>3, <4>2
      <4> QED
        BY <4>1, <4>2
    <3>3. Early' => (At' = 18 => out' # <<>>)
      BY <1>3 DEF Fast
    <3> QED
      BY <1>1, <2>1, <2>2, <3>1, <3>2, <3>3 DEF Working, Answered
  <2> QED
    BY <2>4, <2>5, <2>6, <2>7 DEF Working
<1> QED
  BY <1>2, <1>3 DEF SetUpInv

(* The commands, by their number.                                          *)
LEMMA CommandsAre ==
  ASSUME NEW n \in 1 .. 16
  PROVE  /\ Port(n) = 100 =>
              /\ n \in {1, 2, 3, 4, 5, 7, 9, 10, 12, 15}
              /\ Value(n) = 173 <=> n \in {1, 10}
              /\ Value(n) = 174 <=> n \in {2, 9}
              /\ Value(n) = 168 <=> n = 3
              /\ Value(n) = 32 <=> n = 4
              /\ Value(n) = 96 <=> n = 5
              /\ Value(n) = 212 <=> n \in {7, 12, 15}
         /\ Port(n) = 96 =>
              /\ n \in {6, 8, 11, 13, 14, 16}
              /\ n \in {8, 14, 16} => Value(n) = 244
              /\ n \in {11, 13} => Value(n) = 255
  BY DEF Port, Value

LEMMA TakeCommandSetsUp ==
  ASSUME TypesInv, SetUpInv, TakeCommand
  PROVE  SetUpInv'
<1>1. PICK command \in Byte :
        /\ input = <<[port |-> 100, value |-> command]>>
        /\ awaits' = CASE command = 96 -> "config"
                       [] command = 212 -> "aux"
                       [] OTHER -> "kbd"
        /\ answers' = IF command = 32
                      THEN [answers EXCEPT !["ctl"] =
                              Append(answers["ctl"], config)]
                      ELSE answers
        /\ config' = CASE command = 173 -> With(config, 16)
                       [] command = 174 -> Without(config, 16)
                       [] command = 168 -> Without(config, 32)
                       [] OTHER -> config
  BY TakeCommandIs
<1>2. /\ input' = <<>> /\ out' = out
      /\ UNCHANGED <<todo, sti, status, saved, mistaken, reporting, testing,
                     slow>>
  BY TakeCommandIs
<1>3. Early' = Early /\ Count' = Count /\ At' = At
  BY <1>2 DEF Early, Count, At
<1>4. Early' => ~mistaken'
  BY <1>2, <1>3 DEF SetUpInv
<1>5. ASSUME Fast'
      PROVE  Working'
  <2>1. Fast /\ Working
    BY <1>2, <1>5 DEF Fast, SetUpInv
  <2>2. PICK n : n = Count
    OBVIOUS
  <2>3. /\ n \in 1 .. 16 /\ input = <<Sending(n)>>
        /\ Taken = n - 1 /\ Taken' = n
        /\ Early => n <= 4
    BY <1>1, <1>2, <1>3, <2>1, <2>2, CountIs
    DEF Working, InOrder, Taken, TypesInv
  <2>4. Port(n) = 100 /\ (n # 6 => Value(n) = command)
    <3>1. Sending(n) = [port |-> 100, value |-> command]
      BY <1>1, <2>3
    <3> QED
      BY <3>1 DEF Sending
  <2>5. /\ n \in {1, 2, 3, 4, 5, 7, 9, 10, 12, 15}
        /\ command = 173 <=> n \in {1, 10}
        /\ command = 174 <=> n \in {2, 9}
        /\ command = 168 <=> n = 3
        /\ command = 32 <=> n = 4
        /\ command = 96 <=> n = 5
        /\ command = 212 <=> n \in {7, 12, 15}
    BY <2>3, <2>4, CommandsAre
  <2>6. InOrder'
    BY <1>1, <1>2, <2>3, <2>5 DEF InOrder
  <2>7. Configured'
    <3>1. config \in Byte
      BY DEF TypesInv, TypesOK
    <3>2. /\ Has(config, 1)
          /\ n - 1 >= 2 /\ n - 1 # 10 => ~Has(config, 16)
          /\ n - 1 >= 3 => ~Has(config, 32)
          /\ n - 1 >= 6 => Has(config, 2)
      BY <2>1, <2>3 DEF Working, Configured
    <3>3. CASE n \in {1, 10}
      <4>1. config' = With(config, 16)
        BY <1>1, <2>5, <3>3
      <4> QED
        BY <2>3, <3>1, <3>2, <3>3, <4>1, BitsLeft DEF Configured
    <3>4. CASE n \in {2, 9}
      <4>1. config' = Without(config, 16)
        BY <1>1, <2>5, <3>4
      <4> QED
        BY <2>3, <3>1, <3>2, <3>4, <4>1, BitsLeft, BitsOf DEF Configured
    <3>5. CASE n = 3
      <4>1. config' = Without(config, 32)
        BY <1>1, <2>5, <3>5
      <4> QED
        BY <2>3, <3>1, <3>2, <3>5, <4>1, BitsLeft, BitsOf DEF Configured
    <3>6. CASE n \in {4, 5, 7, 12, 15}
      <4>1. config' = config
        BY <1>1, <2>5, <3>6
      <4> QED
        BY <2>3, <3>2, <3>6, <4>1 DEF Configured
    <3> QED
      BY <2>5, <3>3, <3>4, <3>5, <3>6
  <2>8. Reporting'
    BY <1>2, <2>1, <2>3, <2>5 DEF Working, Reporting
  <2>9. Answered'
    <3>1. FromCtl' = FromCtl
      BY <1>2 DEF FromCtl
    <3>2. CASE n <= 3
      <4>1. answers["ctl"] = <<>> /\ ~FromCtl /\ answers' = answers
        BY <1>1, <2>1, <2>3, <2>5, <3>2 DEF Working, Answered
      <4>2. Early
        BY <2>2, <3>2, CountIs DEF TypesInv
      <4> QED
        BY <1>2, <1>3, <2>1, <2>3, <3>1, <3>2, <4>1, <4>2
        DEF Working, Answered
    <3>3. CASE n = 4
      <4>1. answers["ctl"] = <<>> /\ ~FromCtl
        BY <2>1, <2>3, <3>3 DEF Working, Answered
      <4>2. answers'["ctl"] = <<config>> /\ config' = config
        BY <1>1, <2>5, <3>3, <4>1 DEF TypesInv, TypesOK, Source
      <4> QED
        BY <1>2, <1>3, <2>1, <2>3, <3>1, <3>3, <4>1, <4>2
        DEF Working, Answered
    <3>4. CASE n >= 5
      <4>1. answers' = answers
        BY <1>1, <2>5, <3>4
      <4>2. n = 5 => config' = config
        BY <1>1, <2>5
      <4> QED
        BY <1>2, <1>3, <2>1, <2>3, <3>1, <3>4, <4>1, <4>2
        DEF Working, Answered
    <3> QED
      BY <2>3, <3>2, <3>3, <3>4
  <2> QED
    BY <2>6, <2>7, <2>8, <2>9 DEF Working
<1> QED
  BY <1>4, <1>5 DEF SetUpInv

LEMMA TakeDataSetsUp ==
  ASSUME TypesInv, SetUpInv, TakeData
  PROVE  SetUpInv'
<1>1. PICK byte \in Byte :
        /\ input = <<[port |-> 96, value |-> byte]>>
        /\ \/ /\ awaits = "config" /\ config' = byte
              /\ UNCHANGED <<answers, reporting, testing, slow>>
           \/ /\ awaits \in Device
              /\ config' = IF awaits = "kbd" THEN Without(config, 16)
                           ELSE config
              /\ Receive(awaits, byte)
  BY TakeDataIs
<1>2. /\ input' = <<>> /\ out' = out /\ awaits' = "kbd"
      /\ UNCHANGED <<todo, sti, status, saved, mistaken>>
  BY TakeDataIs
<1>3. Early' = Early /\ Count' = Count /\ At' = At
  BY <1>2 DEF Early, Count, At
<1>4. Early' => ~mistaken'
  BY <1>2, <1>3 DEF SetUpInv
<1>5. ASSUME Fast'
      PROVE  Working'
  <2>1. slow = 0 /\ slow' = 0
    <3>1. slow' >= slow
      BY <1>1, ReceiveIs DEF TypesInv, TypesOK
    <3> QED
      BY <1>5, <3>1 DEF Fast, TypesInv, TypesOK
  <2>2. Working
    BY <1>2, <1>5, <2>1 DEF Fast, SetUpInv
  <2>3. PICK n : n = Count
    OBVIOUS
  <2>4. /\ n \in 1 .. 16 /\ input = <<Sending(n)>>
        /\ Taken = n - 1 /\ Taken' = n
        /\ Early => n <= 4
    BY <1>1, <1>2, <1>3, <2>2, <2>3, CountIs
    DEF Working, InOrder, Taken, TypesInv
  <2>5. Port(n) = 96 /\ byte = IF n = 6 THEN status ELSE Value(n)
    <3>1. Sending(n) = [port |-> 96, value |-> byte]
      BY <1>1, <2>4
    <3> QED
      BY <3>1 DEF Sending
  <2>6. /\ n \in {6, 8, 11, 13, 14, 16}
        /\ n \in {8, 14, 16} => byte = 244
        /\ n \in {11, 13} => byte = 255
    BY <2>4, <2>5, CommandsAre
  <2>7. awaits = IF n = 6 THEN "config"
                 ELSE IF n \in {8, 13, 16} THEN "aux" ELSE "kbd"
    BY <2>2, <2>4, <2>6 DEF Working, InOrder
  <2>8. InOrder'
    BY <1>2, <2>4, <2>6 DEF InOrder
  <2>9. ~Early
    BY <2>4, <2>6
  <2>10. Configured'
    <3>1. config \in Byte
      BY DEF TypesInv, TypesOK
    <3>2. /\ Has(config, 1)
          /\ n # 11 => ~Has(config, 16)
          /\ ~Has(config, 32)
          /\ n > 6 => Has(config, 2)
      BY <2>2, <2>4, <2>6 DEF Working, Configured
    <3>3. CASE n = 6
      <4>1. config' = status
        BY <1>1, <2>5, <2>7, <3>3 DEF Device
      <4>2. status = With(config, 2)
        BY <2>2, <2>4, <2>9, <3>3 DEF Working, Answered
      <4> QED
        BY <2>4, <3>1, <3>2, <3>3, <4>1, <4>2, BitsLeft, BitsOf DEF Configured
    <3>4. CASE n \in {8, 13, 16}
      <4>1. config' = config
        BY <1>1, <2>7, <3>4
      <4> QED
        BY <2>4, <3>2, <3>4, <4>1 DEF Configured
    <3>5. CASE n \in {11, 14}
      <4>1. config' = Without(config, 16)
        BY <1>1, <2>7, <3>5
      <4> QED
        BY <2>4, <3>1, <3>2, <3>5, <4>1, BitsLeft, BitsOf DEF Configured
    <3> QED
      BY <2>6, <3>3, <3>4, <3>5
  <2>11. Reporting'
    <3>1. CASE n <= 13
      BY <2>4, <3>1 DEF Reporting
    <3>2. CASE n \in {14, 16}
      <4>1. awaits \in Device /\ Receive(awaits, byte) /\ byte = 244
        BY <1>1, <2>6, <2>7, <3>2
      <4>2. reporting' = reporting \cup {awaits}
        BY <2>1, <4>1, ReceiveIs DEF TypesInv
      <4>3. n = 16 => "kbd" \in reporting
        BY <2>2, <2>4 DEF Working, Reporting
      <4> QED
        BY <2>4, <2>7, <3>2, <4>2, <4>3 DEF Reporting
    <3> QED
      BY <2>6, <3>1, <3>2
  <2>12. Answered'
    BY <1>3, <2>4, <2>6, <2>9 DEF Answered
  <2> QED
    BY <2>8, <2>10, <2>11, <2>12 DEF Working
<1> QED
  BY <1>4, <1>5 DEF SetUpInv

LEMMA FillSetsUp ==
  ASSUME TypesInv, SetUpInv, NEW source \in Source, Fill(source)
  PROVE  SetUpInv'
<1>1. /\ out = <<>> /\ answers[source] # <<>>
      /\ out' = <<[from |-> source, byte |-> Head(answers[source])]>>
      /\ answers' = [answers EXCEPT ![source] = Tail(answers[source])]
      /\ UNCHANGED <<config, todo, sti, status, saved, mistaken, input,
                     awaits, reporting, testing, slow>>
  BY FillIs
<1>2. Early' = Early /\ Count' = Count /\ At' = At
  BY <1>1 DEF Early, Count, At
<1>3. Taken' = Taken
  BY <1>1, <1>2 DEF Taken
<1>4. Early' => ~mistaken'
  BY <1>1, <1>2 DEF SetUpInv
<1>5. ASSUME Fast'
      PROVE  Working'
  <2>1. Working
    BY <1>1, <1>5 DEF Fast, SetUpInv
  <2>2. InOrder'
    BY <1>1, <1>2, <1>3, <2>1 DEF Working, InOrder, Sending
  <2>3. Configured' /\ Reporting'
    BY <1>1, <1>3, <2>1 DEF Working, Configured, Reporting
  <2>4. ~FromCtl /\ out' # <<>>
    BY <1>1 DEF FromCtl
  <2>5. Answered'
    <3>1. CASE source = "ctl"
      <4>1. Taken > 3 /\ (Early => answers["ctl"] = <<config>>)
        <5>1. Taken \in Int
          BY CountIs DEF Taken, TypesInv
        <5> QED
          BY <1>1, <2>1, <3>1, <5>1 DEF Working, Answered
      <4>2. FromCtl' /\ out'[1].byte = Head(answers["ctl"])
        BY <1>1, <3>1 DEF FromCtl
      <4>3. Early => answers'["ctl"] = <<>> /\ out'[1].byte = config
        BY <1>1, <3>1, <4>1, <4>2 DEF TypesInv, TypesOK
      <4>4. ~(Taken' <= 3)
        <5>1. Taken \in Int
          BY CountIs DEF Taken, TypesInv
        <5> QED
          BY <1>3, <4>1, <5>1
      <4>5. Early' => /\ answers'["ctl"] \in {<<>>, <<config'>>}
                      /\ FromCtl' => out'[1].byte = config'
                      /\ Taken' = 4 => answers'["ctl"] # <<>> \/ FromCtl'
                      /\ At' = 18 => out' # <<>>
        BY <1>1, <1>2, <2>4, <4>2, <4>3
      <4>6. ~Early' /\ Taken' <= 5 => status' = With(config', 2)
        BY <1>1, <1>2, <1>3, <2>1 DEF Working, Answered
      <4> QED
        BY <4>4, <4>5, <4>6 DEF Answered
    <3>2. CASE source # "ctl"
      <4>1. answers'["ctl"] = answers["ctl"]
        BY <1>1, <3>2 DEF TypesInv, TypesOK, Source
      <4>2. ~FromCtl'
        BY <1>1, <3>2 DEF FromCtl
      <4> QED
        BY <1>1, <1>2, <1>3, <2>1, <2>4, <4>1, <4>2 DEF Working, Answered
    <3> QED
      BY <3>1, <3>2
  <2> QED
    BY <2>1, <2>2, <2>3, <2>5 DEF Working
<1> QED
  BY <1>4, <1>5 DEF SetUpInv

LEMMA WriteSetsUp ==
  ASSUME TypesInv, SetUpInv, Write
  PROVE  SetUpInv'
<1>1. /\ ~sti /\ ~sti' /\ At \in Written /\ At' = At + 1
      /\ Count \in 0 .. 15 /\ Count' = Count + 1
      /\ input' = <<Sending(Count + 1)>>
  BY WriteIs DEF TypesInv
<1>2. UNCHANGED <<status, mistaken, awaits, config, out, answers, reporting,
                  testing>>
  BY DEF Write, devices
<1>3. (Early' <=> Early) /\ At' # 18
  BY <1>1 DEF Early, Written
<1>4. Early' => ~mistaken'
  BY <1>2, <1>3 DEF SetUpInv
<1>5. ASSUME Fast'
      PROVE  Working'
  <2>1. slow = 0 /\ input = <<>>
    BY <1>5, TooSlowIs DEF Write, Fast, TypesInv, TypesOK
  <2>2. Working
    BY <1>2, <1>5, <2>1 DEF Fast, SetUpInv
  <2>3. Taken' = Taken /\ Taken \in Int
    BY <1>1, <2>1 DEF Taken
  <2>4. InOrder'
    <3>1. /\ input' = <<[port |-> Port(Count'),
                         value |-> IF Count' = 6 THEN status'
                                   ELSE Value(Count')]>>
          /\ Count' >= 1
      BY <1>1, <1>2 DEF Sending
    <3> QED
      BY <1>2, <2>2, <2>3, <3>1 DEF Working, InOrder, Sending
  <2>5. Configured' /\ Reporting'
    BY <1>2, <2>2, <2>3 DEF Working, Configured, Reporting
  <2>6. FromCtl' = FromCtl
    BY <1>2 DEF FromCtl
  <2>7. Answered'
    BY <1>2, <1>3, <2>2, <2>3, <2>6 DEF Working, Answered
  <2> QED
    BY <2>4, <2>5, <2>7 DEF Working
<1> QED
  BY <1>4, <1>5 DEF SetUpInv

(* An access that writes nothing leaves the count.                         *)
LEMMA CountStays ==
  ASSUME PicInv, ~sti, GoOn, At \notin Written, sti' = sti \/ At = 41
  PROVE  Count' = Count /\ At' = At + 1 /\ At \in 1 .. 41
<1>1. PICK k : k = At
  OBVIOUS
<1>2. k \in 1 .. 41 /\ At' = k + 1
  BY <1>1, NextIs DEF PicInv
<1>3. SentBefore(k + 1) = SentBefore(k)
  BY <1>1, <1>2, SentIs
<1>4. k = 41 => SentBefore(k) = 16
  BY DEF SentBefore
<1> QED
  BY <1>1, <1>2, <1>3, <1>4 DEF Count, RegistersOK, PicInv

(* What a byte or an answer on the way means to the kernel that waits.     *)
LEMMA WaitSetsUp ==
  ASSUME TypesInv, SetUpInv, MouseWait \/ MouseWaitInput
  PROVE  SetUpInv'
<1>1. ~sti /\ GoOn
  BY AccessKeepsPic DEF TypesInv, MouseWait, MouseWaitInput
<1>2. UNCHANGED <<sti, status, mistaken, input, awaits, config, out, answers,
                  reporting>>
  BY DEF MouseWait, MouseWaitInput, controller, devices
<1>3. slow' = 0 => slow = 0
  BY TooSlowIs DEF MouseWait, MouseWaitInput, TypesInv, TypesOK
<1>4. At \in {15, 19, 21, 23, 25, 17, 27}
  BY <1>1, WhereIs DEF MouseWait, MouseWaitInput, TypesInv, PicInv
<1>5. Count' = Count /\ At' = At + 1
  BY <1>1, <1>2, <1>4, CountStays DEF TypesInv, Written
<1>6. Early' <=> Early
  BY <1>1, <1>2, <1>4, <1>5 DEF Early
<1>7. Early' /\ slow' = 0 /\ At' = 18 => out' # <<>>
  <2> SUFFICES ASSUME Early', slow' = 0, At' = 18, out = <<>>
               PROVE  FALSE
    BY <1>2
  <2>1. At = 17
    BY <1>4, <1>5
  <2>2. MouseWaitInput
    <3>1. ~Next1("wait")
      BY <1>1, <2>1, WhereIs DEF TypesInv, PicInv
    <3> QED
      BY <3>1 DEF MouseWait
  <2>3. ~Coming
    BY <2>2, TooSlowIs DEF MouseWaitInput, TypesInv, TypesOK
  <2>4. Early /\ Fast
    BY <1>1, <1>3, <2>1 DEF Early, Fast, SetUpInv
  <2>5. Count = 4
    <3>1. SentBefore(17) = 4
      BY DEF SentBefore
    <3> QED
      BY <1>1, <2>1, <3>1 DEF Count
  <2>6. input = <<>> /\ Taken = 4
    BY <2>3, <2>5 DEF Coming, Taken
  <2>7. answers["ctl"] # <<>>
    BY <2>4, <2>6 DEF SetUpInv, Working, Answered, FromCtl
  <2>8. Coming
    BY <2>7 DEF Coming, Open, Source, Device
  <2> QED
    BY <2>3, <2>8
<1> QED
  BY <1>2, <1>3, <1>5, <1>6, <1>7, QuietSetUp

LEMMA ReadStatusSetsUp ==
  ASSUME TypesInv, SetUpInv, ReadStatus
  PROVE  SetUpInv'
<1>1. /\ out' = <<>> /\ config' = config
      /\ mistaken' = (out # <<>> /\ out[1].from # "ctl")
      /\ out # <<>> => status' = With(out[1].byte, 2)
      /\ GoOn
      /\ UNCHANGED <<sti, input, awaits, answers, reporting, testing, slow>>
  BY ReadStatusIs
<1>2. ~sti /\ At = 18
  <2>1. ~sti
    BY AccessKeepsPic DEF TypesInv
  <2> QED
    BY <2>1, WhereIs DEF ReadStatus, TypesInv, PicInv
<1>3. Count' = Count /\ At' = 19
  BY <1>1, <1>2, CountStays DEF TypesInv, Written
<1>4. Early /\ ~Early'
  BY <1>1, <1>2, <1>3 DEF Early
<1>5. ASSUME Fast'
      PROVE  Working'
  <2>1. Fast /\ Working
    BY <1>1, <1>4, <1>5 DEF Fast, SetUpInv
  <2>2. Taken' = Taken /\ Taken \in Int /\ Taken <= 4
    BY <1>1, <1>3, <1>4, CountIs DEF Taken, TypesInv
  <2>3. status' = With(config, 2)
    <3>1. out # <<>> /\ out[1].from = "ctl"
      BY <1>1, <1>2, <1>4, <1>5, <2>1 DEF Fast, Working, Answered
    <3>2. out[1].byte = config
      BY <1>4, <2>1, <3>1 DEF Working, Answered, FromCtl
    <3> QED
      BY <1>1, <3>1, <3>2
  <2>4. InOrder'
    <3>1. input # <<>> => Count # 6
      BY <1>4, CountIs DEF TypesInv
    <3>2. input # <<>> => input = <<[port |-> Port(Count),
                                     value |-> Value(Count)]>>
      BY <2>1, <3>1 DEF Working, InOrder, Sending
    <3> QED
      BY <1>1, <1>3, <2>1, <2>2, <3>1, <3>2 DEF Working, InOrder, Sending
  <2>5. Configured' /\ Reporting'
    BY <1>1, <2>1, <2>2 DEF Working, Configured, Reporting
  <2>6. Answered'
    BY <1>1, <1>4, <2>1, <2>2, <2>3 DEF Working, Answered, FromCtl
  <2> QED
    BY <2>4, <2>5, <2>6 DEF Working
<1> QED
  BY <1>4, <1>5 DEF SetUpInv

LEMMA ReadSetsUp ==
  ASSUME TypesInv, SetUpInv,
         Discard \/ Drain \/ \E driver \in Device : TakeByte(driver)
  PROVE  SetUpInv'
<1>1. /\ out' = <<>> /\ config' = config
      /\ UNCHANGED <<sti, status, mistaken, slow, input, awaits, answers,
                     reporting>>
  BY DEF Discard, Drain, TakeByte, Consume, Drive, devices
<1>2. CASE sti
  <2>1. Count' = Count /\ ~Early /\ ~Early'
    BY <1>1, <1>2 DEF Count, Early
  <2> QED
    BY <1>1, <2>1, QuietSetUp
<1>3. CASE ~sti
  <2>1. Discard \/ Drain
    BY <1>3, TakeByteKeepsPic DEF TypesInv
  <2>2. At \in {3, 28, 32, 35}
    BY <1>3, <2>1, WhereIs DEF Discard, Drain, TypesInv, PicInv
  <2>3. GoOn \/ UNCHANGED todo
    BY <2>1 DEF Discard, Drain
  <2>4. Count' = Count /\ (At' = At \/ At' = At + 1)
    <3>1. CASE GoOn
      BY <1>1, <1>3, <2>2, <3>1, CountStays DEF TypesInv, Written
    <3>2. CASE UNCHANGED todo
      BY <1>1, <3>2 DEF Count, At
    <3> QED
      BY <2>3, <3>1, <3>2
  <2>5. (Early' <=> Early) /\ At' # 18 /\ (Early => Count <= 2)
    <3>1. Early => At = 3
      BY <2>2 DEF Early
    <3> QED
      BY <1>1, <1>3, <2>2, <2>4, <3>1, CountIs DEF Early, TypesInv
  <2> QED
    BY <1>1, <2>4, <2>5, QuietSetUp
<1> QED
  BY <1>2, <1>3

LEMMA OthersSetUp ==
  ASSUME TypesInv, SetUpInv,
         \/ KeepMasks \/ SetInterrupts
         \/ \E chip \in {1, 2} : PICCommand(chip) \/ PICData(chip)
         \/ \E irq \in Irq : Interrupt(irq)
  PROVE  SetUpInv'
<1>1. UNCHANGED <<status, mistaken, slow, input, awaits, config, out, answers,
                  reporting>>
  BY DEF KeepMasks, SetInterrupts, PICCommand, PICData, Interrupt,
         controller, devices
<1>2. CASE sti
  <2>1. sti'
    BY <1>2 DEF KeepMasks, SetInterrupts, PICCommand, PICData, Interrupt
  <2>2. Count' = Count /\ ~Early /\ ~Early'
    BY <1>2, <2>1 DEF Count, Early
  <2> QED
    BY <1>1, <2>2, QuietSetUp
<1>3. CASE ~sti
  <2>1. GoOn /\ (sti' = sti \/ Next1("sti"))
    BY <1>3 DEF KeepMasks, SetInterrupts, PICCommand, PICData, Interrupt
  <2>2. At \in {4, 5, 6, 7, 8, 9, 10, 11, 12, 13, 39, 40, 41}
    <3>1. \/ Next1("saveMasks") \/ Next1("restoreMasks") \/ Next1("sti")
          \/ Next1("out") /\ Head(todo).port \in {32, 33, 160, 161}
      BY <1>3 DEF KeepMasks, SetInterrupts, PICCommand, PICData, Interrupt
    <3> QED
      BY <1>3, <3>1, WhereIs DEF TypesInv, PicInv
  <2>3. sti' = sti \/ At = 41
    BY <1>3, <2>1, WhereIs DEF TypesInv, PicInv
  <2>4. Count' = Count /\ At' = At + 1
    BY <1>3, <2>1, <2>2, <2>3, CountStays DEF TypesInv, Written
  <2>5. (Early' <=> Early) /\ At' # 18
    BY <1>3, <2>2, <2>3, <2>4 DEF Early
  <2> QED
    BY <1>1, <2>4, <2>5, QuietSetUp
<1> QED
  BY <1>2, <1>3

LEMMA SetUpStep == TypesInv /\ SetUpInv /\ [Next]_vars => SetUpInv'
<1> SUFFICES ASSUME TypesInv, SetUpInv, [Next]_vars
             PROVE  SetUpInv'
  OBVIOUS
<1>1. CASE \/ \E device \in Device : PassTest(device) \/ Use(device)
           \/ \E irq \in OtherIrqs : Raise(irq)
           \/ UNCHANGED vars
  <2>1. /\ UNCHANGED <<todo, sti, status, mistaken, input, awaits, config,
                       out, slow>>
        /\ reporting \subseteq reporting'
        /\ answers'["ctl"] = answers["ctl"]
    <3>1. CASE \E device \in Device : PassTest(device) \/ Use(device)
      BY <3>1, DeviceStepIs
    <3>2. CASE \E irq \in OtherIrqs : Raise(irq)
      BY <3>2 DEF Raise, kernel, controller, devices
    <3>3. CASE UNCHANGED vars
      BY <3>3 DEF vars, kernel, controller, devices
    <3> QED
      BY <1>1, <3>1, <3>2, <3>3
  <2>2. /\ Early' = Early /\ Count' = Count /\ At' = At
        /\ Taken' = Taken /\ FromCtl' = FromCtl
    BY <2>1 DEF Early, Count, At, Taken, FromCtl
  <2>3. Early' => ~mistaken'
    BY <2>1, <2>2 DEF SetUpInv
  <2>4. ASSUME Fast'
        PROVE  Working'
    <3>1. Working
      BY <2>1, <2>4 DEF Fast, SetUpInv
    <3>2. InOrder' /\ Configured' /\ Reporting'
      BY <2>1, <2>2, <3>1 DEF Working, InOrder, Sending, Configured, Reporting
    <3>3. Answered'
      BY <2>1, <2>2, <3>1 DEF Working, Answered
    <3> QED
      BY <3>2, <3>3 DEF Working
  <2> QED
    BY <2>3, <2>4 DEF SetUpInv
<1>2. CASE TakeCommand
  BY <1>2, TakeCommandSetsUp
<1>3. CASE TakeData
  BY <1>3, TakeDataSetsUp
<1>4. CASE \E source \in Source : Fill(source)
  BY <1>4, FillSetsUp
<1>5. CASE Write
  BY <1>5, WriteSetsUp
<1>6. CASE MouseWait \/ MouseWaitInput
  BY <1>6, WaitSetsUp
<1>7. CASE ReadStatus
  BY <1>7, ReadStatusSetsUp
<1>8. CASE Discard \/ Drain \/ \E driver \in Device : TakeByte(driver)
  BY <1>8, ReadSetsUp
<1>9. CASE \/ KeepMasks \/ SetInterrupts
           \/ \E chip \in {1, 2} : PICCommand(chip) \/ PICData(chip)
           \/ \E irq \in Irq : Interrupt(irq)
  BY <1>9, OthersSetUp
<1> QED
  BY <1>1, <1>2, <1>3, <1>4, <1>5, <1>6, <1>7, <1>8, <1>9 DEF Next, Kernel

(* When the hardware is fast enough and no byte of the user's was taken    *)
(* for the configuration, set-up leaves both devices working, whatever the *)
(* firmware left in the other bits and however much the user types and     *)
(* moves meanwhile (kernelUtil.cpp:126).  The firmware must have left the  *)
(* keyboard's interrupt on: set-up turns on only the mouse's.              *)
THEOREM BothDevicesWork ==
  ASSUME \A byte \in FirmwareConfigs : Has(byte, 1)
  PROVE  Spec => []SetUpWorks
<1>1. Init => SetUpInv
  <2> SUFFICES ASSUME Init
               PROVE  SetUpInv
    OBVIOUS
  <2>1. At = 1
    <3>1. Len(todo) = 41
      BY ProgramIs DEF Init
    <3> QED
      BY <3>1 DEF At
  <2>2. Count = 0 /\ Taken = 0 /\ Early /\ ~FromCtl
    <3>1. SentBefore(1) = 0
      BY DEF SentBefore
    <3> QED
      BY <2>1, <3>1 DEF Init, Count, Taken, Early, FromCtl
  <2>3. Has(config, 1) /\ answers["ctl"] = <<>>
    BY DEF Init, Source
  <2>4. Working
    BY <2>1, <2>2, <2>3
    DEF Init, Working, InOrder, Configured, Answered, Reporting
  <2> QED
    BY <2>4 DEF Init, SetUpInv
<1>2. TypesInv /\ SetUpInv => SetUpWorks
  <2> SUFFICES ASSUME TypesInv, SetUpInv, Settled, slow = 0, ~mistaken
               PROVE  Alive
    BY DEF SetUpWorks
  <2>1. Working /\ Taken = 16
    BY DEF SetUpInv, Fast, Settled, Taken, Count
  <2>2. /\ awaits = "kbd" /\ Has(config, 1) /\ Has(config, 2)
        /\ ~Has(config, 16) /\ ~Has(config, 32)
        /\ reporting = Device
    <3>1. awaits = "kbd"
      BY <2>1 DEF Working, InOrder
    <3>2. /\ Has(config, 1) /\ Has(config, 2)
          /\ ~Has(config, 16) /\ ~Has(config, 32)
      BY <2>1 DEF Working, Configured
    <3>3. reporting = Device
      <4>1. "kbd" \in reporting /\ "aux" \in reporting
        BY <2>1 DEF Working, Reporting
      <4>2. reporting \subseteq Device
        BY DEF TypesInv, TypesOK
      <4> QED
        BY <4>1, <4>2 DEF Device
    <3> QED
      BY <3>1, <3>2, <3>3
  <2>3. config % 4 = 3
    BY <2>2 DEF Has, TypesInv, TypesOK, Byte
  <2>4. {1, 12} \cap masked = {}
    BY DEF Settled, TypesInv, PicInv, Running
  <2> QED
    BY <2>2, <2>3, <2>4 DEF Alive
<1> QED
  BY <1>1, <1>2, TypesInit, TypesStep, SetUpStep, PTL DEF Spec

-----------------------------------------------------------------------------
(* Stray requests.                                                         *)

(* A byte for the configuration is awaited from the command 0x60 on, the   *)
(* fifth byte written; if the next ones all come before the controller has *)
(* taken the one before, each of them was a time it was too slow.          *)
Overrun ==
  /\ input # <<>> => Count >= 1 /\ input = <<Sending(Count)>>
  /\ awaits = "config" =>
       /\ Count >= 5
       /\ Count >= 6 => input # <<>> /\ slow >= Count - 6

LEMMA CountKept ==
  ASSUME TypesInv, [Next]_vars, ~Write
  PROVE  Count' = Count /\ (status' = status \/ Count < 6)
<1>1. CASE UNCHANGED <<todo, sti>> /\ status' = status
  BY <1>1 DEF Count, At
<1>2. CASE sti /\ sti' /\ status' = status
  BY <1>2 DEF Count
<1>3. CASE ReadStatus
  <2>1. ~sti /\ GoOn /\ sti' = sti
    BY <1>3, AccessKeepsPic, ReadStatusIs DEF TypesInv
  <2>2. At = 18
    BY <1>3, <2>1, WhereIs DEF ReadStatus, TypesInv, PicInv
  <2>3. Count' = Count
    BY <2>1, <2>2, CountStays DEF TypesInv, Written
  <2>4. Count <= 4 /\ Count \in 0 .. 16
    BY <2>1, <2>2, CountIs DEF Early, TypesInv
  <2> QED
    BY <2>3, <2>4
<1>4. CASE \/ MouseWait \/ MouseWaitInput \/ Discard \/ Drain
           \/ KeepMasks \/ SetInterrupts
           \/ \E chip \in {1, 2} : PICCommand(chip) \/ PICData(chip)
  <2>1. /\ status' = status /\ (GoOn \/ UNCHANGED todo)
        /\ sti' = sti \/ (sti' = TRUE /\ Next1("sti"))
    BY <1>4 DEF MouseWait, MouseWaitInput, Discard, Drain, KeepMasks,
                SetInterrupts, PICCommand, PICData
  <2>2. CASE sti
    BY <1>2, <2>1, <2>2
  <2>3. CASE ~sti /\ UNCHANGED todo
    <3>1. Discard \/ Drain => sti' = sti
      BY DEF Discard, Drain
    <3>2. ~(Discard \/ Drain) => GoOn
      BY <1>4 DEF MouseWait, MouseWaitInput, KeepMasks, SetInterrupts,
                  PICCommand, PICData
    <3>3. ~GoOn
      <4>1. GoOn => At' = At + 1 /\ At \in 1 .. 41
        BY <2>3, NextIs DEF TypesInv, PicInv
      <4>2. At' = At
        BY <2>3 DEF At
      <4> QED
        BY <4>1, <4>2
    <3> QED
      BY <1>1, <2>1, <2>3, <3>1, <3>2, <3>3
  <2>4. CASE ~sti /\ GoOn
    <3>1. At \notin Written
      <4>1. \/ Next1("wait") \/ Next1("waitInput") \/ Next1("in")
            \/ Next1("flush") \/ Next1("drain") \/ Next1("saveMasks")
            \/ Next1("restoreMasks") \/ Next1("sti")
            \/ Next1("out") /\ Head(todo).port \in {32, 33, 160, 161}
        BY <1>4 DEF MouseWait, MouseWaitInput, Discard, Drain, KeepMasks,
                    SetInterrupts, PICCommand, PICData
      <4> QED
        BY <2>4, <4>1, WhereIs DEF TypesInv, PicInv, Written
    <3>2. sti' = sti \/ At = 41
      BY <2>1, <2>4, WhereIs DEF TypesInv, PicInv
    <3>3. Count' = Count
      BY <2>4, <3>1, <3>2, CountStays DEF TypesInv
    <3> QED
      BY <2>1, <3>3
  <2> QED
    BY <2>1, <2>2, <2>3, <2>4
<1>5. CASE Outside
  BY <1>1, <1>5, OutsideIs DEF TypesInv, PicInv
<1>6. CASE \E driver \in Device : TakeByte(driver)
  BY <1>2, <1>6, TakeByteKeepsPic DEF TypesInv, TakeByte
<1>7. CASE \E irq \in Irq : Interrupt(irq)
  BY <1>2, <1>7, InterruptIs DEF TypesInv, Interrupt
<1>8. CASE UNCHANGED vars
  BY <1>1, <1>8 DEF vars, kernel
<1> QED
  BY <1>3, <1>4, <1>5, <1>6, <1>7, <1>8 DEF Next, Kernel, Outside

LEMMA OverrunStep == TypesInv /\ Overrun /\ [Next]_vars => Overrun'
<1> SUFFICES ASSUME TypesInv, Overrun, [Next]_vars
             PROVE  Overrun'
  OBVIOUS
<1>1. CASE Write
  <2>1. /\ Count \in 0 .. 15 /\ Count' = Count + 1
        /\ input' = <<Sending(Count + 1)>>
        /\ status' = status /\ awaits' = awaits
    BY <1>1, WriteIs DEF TypesInv, Write
  <2>2. /\ slow \in Int /\ slow' \in Int /\ slow' >= slow /\ slow' >= 0
        /\ input # <<>> => slow' = slow + 1
    BY <1>1, PS2Assumption DEF Write, TooSlowIf, TypesInv, TypesOK
  <2>3. input' # <<>> /\ Count' >= 1
        /\ input' = <<[port |-> Port(Count'),
                       value |-> IF Count' = 6 THEN status'
                                 ELSE Value(Count')]>>
    BY <2>1 DEF Sending
  <2>4. awaits' = "config" =>
          /\ Count' >= 5
          /\ Count' >= 6 => slow' >= Count' - 6
    BY <2>1, <2>2 DEF Overrun
  <2> QED
    BY <2>3, <2>4 DEF Overrun, Sending
<1>2. CASE ~Write
  <2>1. Count' = Count /\ (status' = status \/ Count < 6)
    BY <1>2, CountKept
  <2>2. Count \in 0 .. 16
    BY CountIs DEF TypesInv
  <2>3. slow \in Int /\ slow' \in Int /\ slow' >= slow
    <3>1. CASE TakeData
      BY <3>1, TakeDataIs, ReceiveIs DEF TypesInv, TypesOK
    <3>2. CASE MouseWaitInput
      BY <3>2, TooSlowIs DEF MouseWaitInput, TypesInv, TypesOK
    <3>3. CASE ~TakeData /\ ~MouseWaitInput
      <4>1. slow' = slow
        BY <1>2, <3>3
        DEF Next, Kernel, MouseWait, ReadStatus, Discard, Drain, KeepMasks,
            SetInterrupts, PICCommand, PICData, TakeByte, Interrupt,
            TakeCommand, Fill, PassTest, Use, Raise, vars
      <4> QED
        BY <4>1 DEF TypesInv, TypesOK
    <3> QED
      BY <3>1, <3>2, <3>3
  <2>4. CASE TakeData
    BY <2>4, TakeDataIs DEF Overrun
  <2>5. CASE TakeCommand
    <3>1. PICK command \in Byte :
            /\ input = <<[port |-> 100, value |-> command]>>
            /\ awaits' = CASE command = 96 -> "config"
                           [] command = 212 -> "aux"
                           [] OTHER -> "kbd"
      BY <2>5, TakeCommandIs
    <3>2. input' = <<>>
      BY <2>5, TakeCommandIs
    <3>3. ASSUME awaits' = "config"
          PROVE  Count = 5
      <4>1. command = 96
        BY <3>1, <3>3
      <4>2. Count \in 1 .. 16 /\ Sending(Count) = [port |-> 100, value |-> 96]
        BY <2>2, <3>1, <4>1 DEF Overrun
      <4>3. Port(Count) = 100 /\ (Count # 6 => Value(Count) = 96)
        BY <4>2 DEF Sending
      <4> QED
        BY <4>2, <4>3, CommandsAre
    <3> QED
      BY <2>1, <3>2, <3>3 DEF Overrun
  <2>6. CASE ~TakeData /\ ~TakeCommand
    <3>1. input' = input /\ awaits' = awaits
      BY <1>2, <2>6
      DEF Next, Kernel, MouseWait, MouseWaitInput, ReadStatus, Discard, Drain,
          KeepMasks, SetInterrupts, PICCommand, PICData, TakeByte, Interrupt,
          Fill, PassTest, Use, Raise, vars, controller
    <3>2. input' # <<>> => Count' >= 1 /\ input' =
             <<[port |-> Port(Count'),
                value |-> IF Count' = 6 THEN status' ELSE Value(Count')]>>
      BY <2>1, <2>2, <3>1 DEF Overrun, Sending
    <3>3. awaits' = "config" =>
            /\ Count' >= 5
            /\ Count' >= 6 => input' # <<>> /\ slow' >= Count' - 6
      BY <2>1, <2>2, <2>3, <3>1 DEF Overrun
    <3> QED
      BY <3>2, <3>3 DEF Overrun, Sending
  <2> QED
    BY <2>4, <2>5, <2>6
<1> QED
  BY <1>1, <1>2

(* How many of the two lines are in a set.                                 *)
Both(lines) ==
  (IF 1 \in lines THEN 1 ELSE 0) + (IF 12 \in lines THEN 1 ELSE 0)

LEMMA BothIs ==
  ASSUME NEW lines \in SUBSET {1, 12}
  PROVE  Cardinality(lines) = Both(lines)
<1>1. lines \in {{}, {1}, {12}, {1, 12}}
  OBVIOUS
<1>2. Cardinality({}) = 0
  BY FS_EmptySet
<1>3. Cardinality({1}) = 1 /\ Cardinality({12}) = 1
  BY FS_Singleton
<1>4. Cardinality({1, 12}) = 2
  <2>1. Cardinality({1} \cup {12}) = Cardinality({1}) + 1
    BY <1>3, FS_AddElement, FS_Singleton
  <2>2. {1, 12} = {1} \cup {12}
    OBVIOUS
  <2> QED
    BY <1>3, <2>1, <2>2
<1>5. CASE lines = {}
  BY <1>2, <1>5 DEF Both
<1>6. CASE lines = {1}
  BY <1>3, <1>6 DEF Both
<1>7. CASE lines = {12}
  BY <1>3, <1>7 DEF Both
<1>8. CASE lines = {1, 12}
  BY <1>4, <1>8 DEF Both
<1> QED
  BY <1>1, <1>5, <1>6, <1>7, <1>8

Handling == IF Next1("kbd") \/ Next1("aux") THEN 1 ELSE 0

LEMMA LinesOf ==
  ASSUME NEW buffer, NEW byte,
         buffer = <<>> \/ \E b : buffer = <<b>> /\ b.from \in Source
  PROVE  /\ Cardinality(Level(buffer, byte)) = Both(Level(buffer, byte))
         /\ \E line \in {1, 12} : Level(buffer, byte) \subseteq {line}
<1>1. Level(buffer, byte) \subseteq {1, 12}
  BY LevelIs
<1>2. Cardinality(Level(buffer, byte)) = Both(Level(buffer, byte))
  BY <1>1, BothIs
<1>3. CASE buffer = <<>>
  <2>1. Level(buffer, byte) = {}
    BY <1>3 DEF Level
  <2> QED
    BY <1>2, <2>1
<1>4. CASE \E b : buffer = <<b>> /\ b.from \in Source
  <2>1. PICK b : buffer = <<b>>
    BY <1>4
  <2>2. \A line \in Level(buffer, byte) : line = Line[b.from]
    BY <2>1 DEF Level
  <2> QED
    BY <1>1, <1>2, <2>2
<1> QED
  BY <1>3, <1>4

LEMMA RequestsOf ==
  ASSUME NEW lines
  PROVE  Cardinality(lines \cap {1, 12}) = Both(lines)
<1>1. Cardinality(lines \cap {1, 12}) = Both(lines \cap {1, 12})
  BY BothIs
<1>2. Both(lines \cap {1, 12}) = Both(lines)
  BY DEF Both
<1> QED
  BY <1>1, <1>2

(* Bits 0 and 1 decide what may interrupt.                                 *)
LEMMA LevelStays ==
  ASSUME BufferOK, NEW old, NEW new,
         Has(new, 1) <=> Has(old, 1), Has(new, 2) <=> Has(old, 2)
  PROVE  Level(out, new) = Level(out, old)
<1>1. ASSUME NEW i \in DOMAIN out
      PROVE  Has(new, Interrupting[out[i].from])
               <=> Has(old, Interrupting[out[i].from])
  <2>1. PICK b : out = <<b>> /\ b.from \in Source
    BY <1>1 DEF BufferOK
  <2>2. out[i].from \in Source
    BY <1>1, <2>1
  <2>3. Interrupting[out[i].from] \in {1, 2}
    BY <2>2 DEF Interrupting, Source, Device
  <2> QED
    BY <2>3
<1> HIDE DEF Has
<1>2. {i \in DOMAIN out : Has(new, Interrupting[out[i].from])}
        = {i \in DOMAIN out : Has(old, Interrupting[out[i].from])}
  BY <1>1
<1> QED
  BY <1>2 DEF Level

LEMMA StraysStep ==
  ASSUME TypesInv, Latched, [Next]_vars, sti, awaits # "config"
  PROVE  Surplus' <= Surplus
<1>1. PicInv' /\ BufferOK /\ BufferOK' /\ request \subseteq Irq
  BY PicStep DEF TypesInv, PicInv, RegistersOK
<1>2. /\ Surplus = Both(request) + Handling - Both(Level(out, config))
      /\ \E line \in {1, 12} : Level(out, config) \subseteq {line}
  BY <1>1, LinesOf, RequestsOf DEF BufferOK, Surplus, Handling
<1>3. /\ Surplus' = Both(request') + Handling' - Both(Level(out, config)')
      /\ \E line \in {1, 12} : Level(out, config)' \subseteq {line}
  <2>1. PICK buffer, byte, lines :
           buffer = out' /\ byte = config' /\ lines = request'
    OBVIOUS
  <2>2. Level(out, config)' = Level(buffer, byte)
    BY <2>1 DEF Level
  <2>3. buffer = <<>> \/ \E b : buffer = <<b>> /\ b.from \in Source
    BY <1>1, <2>1 DEF BufferOK
  <2>4. Surplus' = Cardinality(lines \cap {1, 12}) + Handling'
                     - Cardinality(Level(buffer, byte))
    BY <2>1, <2>2 DEF Surplus, Handling
  <2>5. /\ Cardinality(Level(buffer, byte)) = Both(Level(buffer, byte))
        /\ \E line \in {1, 12} : Level(buffer, byte) \subseteq {line}
    BY <2>3, LinesOf
  <2>6. Cardinality(lines \cap {1, 12}) = Both(lines)
    BY RequestsOf
  <2> QED
    BY <2>1, <2>2, <2>4, <2>5, <2>6
<1>4. Handling \in {0, 1} /\ Handling' \in {0, 1}
  BY DEF Handling
<1>5. CASE /\ UNCHANGED todo /\ Level(out, config)' = Level(out, config)
           /\ request' \cap {1, 12} = request \cap {1, 12}
  <2>1. Handling' = Handling
    BY <1>5 DEF Handling, Next1
  <2>2. Both(request') = Both(request)
    BY <1>5 DEF Both
  <2> QED
    BY <1>2, <1>3, <1>4, <1>5, <2>1, <2>2 DEF Both
<1>6. CASE TakeCommand \/ TakeData
  <2>1. out' = out /\ UNCHANGED todo
    BY <1>6, TakeCommandIs, TakeDataIs
  <2>2. (Has(config', 1) <=> Has(config, 1)) /\ (Has(config', 2) <=> Has(config, 2))
    <3>1. config \in Byte
      BY DEF TypesInv, TypesOK
    <3>2. config' \in {config, With(config, 16), Without(config, 16),
                       Without(config, 32)}
      <4>1. CASE TakeCommand
        BY <4>1, TakeCommandIs
      <4>2. CASE TakeData
        BY <4>2, TakeDataIs
      <4> QED
        BY <1>6, <4>1, <4>2
    <3> QED
      BY <3>1, <3>2, BitsLeft
  <2>3. Level(out, config') = Level(out, config)
    BY <1>1, <2>2, LevelStays
  <2>4. Level(out, config)' = Level(out, config)
    BY <2>1, <2>3
  <2>5. request' = request
    <3>1. PICK byte : Drive(out, byte)
      BY <1>6 DEF TakeCommand, TakeData
    <3>2. config' = byte
      BY <3>1 DEF Drive
    <3>3. Level(out, byte) = Level(out, config)
      BY <2>3, <3>2
    <3> QED
      BY <3>1, <3>3 DEF Drive
  <2> QED
    BY <1>5, <2>1, <2>4, <2>5
<1>7. CASE \E source \in Source : Fill(source)
  <2>1. PICK source \in Source : Fill(source)
    BY <1>7
  <2>2. /\ out = <<>> /\ UNCHANGED todo
        /\ \E buffer : Drive(buffer, config)
    BY <2>1, FillIs DEF Fill
  <2>3. PICK buffer : Drive(buffer, config)
    BY <2>2
  <2>4. Level(out, config) = {}
    BY <2>2 DEF Level
  <2>5. Level(out, config)' = Level(buffer, config)
    BY <2>3 DEF Drive, Level
  <2>6. request' = request \cup Level(out, config)'
    BY <2>3, <2>4, <2>5 DEF Drive
  <2>7. Handling' = Handling
    BY <2>2 DEF Handling, Next1
  <2> QED
    BY <1>2, <1>3, <1>4, <2>4, <2>6, <2>7 DEF Both
<1>8. CASE \E device \in Device : PassTest(device) \/ Use(device)
  <2>1. UNCHANGED <<todo, out, config, request>>
    BY <1>8 DEF PassTest, Use, kernel, controller, pics
  <2> QED
    BY <1>5, <2>1 DEF Level
<1>9. CASE \E irq \in OtherIrqs : Raise(irq)
  <2>1. PICK irq \in OtherIrqs : Raise(irq)
    BY <1>9
  <2>2. UNCHANGED <<todo, out, config>> /\ request' = request \cup {irq}
    BY <2>1 DEF Raise, kernel, controller
  <2>3. request' \cap {1, 12} = request \cap {1, 12}
    BY <2>1, <2>2, PS2Assumption
  <2>4. Level(out, config)' = Level(out, config)
    BY <2>2 DEF Level
  <2> QED
    BY <1>5, <2>2, <2>3, <2>4
<1>10. CASE \E chip \in {1, 2} : PICCommand(chip) \/ PICData(chip)
  <2>1. PICK chip \in {1, 2} : PICCommand(chip) \/ PICData(chip)
    BY <1>10
  <2>2. Next1("out") /\ GoOn /\ UNCHANGED <<out, config>>
    BY <2>1 DEF PICCommand, PICData, controller
  <2>3. todo \in {EndBoth, EndOne}
    BY <2>2, HandlersAre DEF TypesInv, PicInv, Running, Next1, Do
  <2>4. Head(todo).value = 32 /\ todo' \in {EndOne, <<>>}
    <3>1. CASE todo = EndBoth
      BY <2>2, <3>1, HandlersAre DEF GoOn, Out
    <3>2. CASE todo = EndOne
      BY <2>2, <3>2, HandlersAre DEF GoOn, Out
    <3> QED
      BY <2>3, <3>1, <3>2
  <2>5. request' = request
    <3>1. ICW1 # 32
      BY DEF ICW1
    <3>2. CASE PICCommand(chip)
      BY <2>4, <3>1, <3>2 DEF PICCommand
    <3>3. CASE PICData(chip)
      BY <3>3 DEF PICData
    <3> QED
      BY <2>1, <3>2, <3>3
  <2>6. Handling = 0 /\ Handling' = 0
    BY <2>3, <2>4, HandlersAre DEF Handling, Next1, Out
  <2>7. Level(out, config)' = Level(out, config)
    BY <2>2 DEF Level
  <2> QED
    BY <1>2, <1>3, <2>5, <2>6, <2>7 DEF Both
<1>11. CASE \E driver \in Device : TakeByte(driver)
  <2>1. PICK driver \in Device : TakeByte(driver)
    BY <1>11
  <2>2. Next1(driver) /\ Consume /\ todo' \in {EndOne, EndBoth}
    BY <2>1, TakeByteKeepsPic DEF TakeByte, TypesInv
  <2>3. Handling = 1 /\ Handling' = 0
    BY <2>2, HandlersAre DEF Handling, Next1, Out, Device
  <2>4. Level(out, config)' = {}
    BY <1>1, <2>2, ConsumeIs
  <2>5. request' \subseteq request
    <3>1. Level(<<>>, config) = {}
      BY DEF Level
    <3> QED
      BY <2>2, <3>1 DEF Consume, Drive
  <2> QED
    BY <1>2, <1>3, <2>3, <2>4, <2>5 DEF Both
<1>12. CASE \E irq \in Irq : Interrupt(irq)
  <2>1. PICK irq \in Irq : Interrupt(irq)
    BY <1>12
  <2>2. /\ irq \in {1, 12} /\ todo = <<>>
        /\ todo' = IF irq = 1 THEN Keyboard_handler ELSE Mouse_handler
    BY <2>1, InterruptIs DEF TypesInv
  <2>3. /\ irq \in request /\ request' = request \ {irq}
        /\ UNCHANGED <<out, config>>
    BY <2>1 DEF Interrupt, Deliverable, controller
  <2>4. Handling = 0 /\ Handling' = 1
    BY <2>2, HandlersAre DEF Handling, Next1, Do
  <2>5. Level(out, config)' = Level(out, config)
    BY <2>3 DEF Level
  <2> QED
    BY <1>2, <1>3, <2>2, <2>3, <2>4, <2>5 DEF Both
<1>13. CASE UNCHANGED vars
  <2>1. UNCHANGED <<todo, out, config, request>>
    BY <1>13 DEF vars, kernel, controller, pics
  <2> QED
    BY <1>5, <2>1 DEF Level
<1>14. ~(Write \/ MouseWait \/ MouseWaitInput \/ ReadStatus \/ Discard
          \/ Drain \/ KeepMasks)
  BY AccessKeepsPic DEF TypesInv
<1>15. ~SetInterrupts
  <2>1. \/ todo = <<>>
        \/ Head(todo) \in {Do("kbd"), Do("aux"), Out(160, 32), Out(32, 32)}
    BY HandlersAre DEF TypesInv, PicInv, Running
  <2> QED
    BY <2>1 DEF SetInterrupts, Next1, Out, Do
<1> QED
  BY <1>6, <1>7, <1>8, <1>9, <1>10, <1>11, <1>12, <1>13, <1>14, <1>15
  DEF Next, Kernel

(* The requests that set-up leaves over never multiply: every interrupt is *)
(* paid for by a byte or by one of those requests, on hardware however     *)
(* slow, as soon as the controller has been given a configuration.         *)
THEOREM StraysArePaidFor ==
  Spec => [][sti /\ awaits # "config" => Surplus' <= Surplus]_vars
<1>1. TypesInv /\ Latched /\ [Next]_vars
        => (sti /\ awaits # "config" => Surplus' <= Surplus)
  BY StraysStep
<1>2. LatchInv => Latched
  BY DEF LatchInv
<1> QED
  BY <1>1, <1>2, TypesInit, TypesStep, LatchInvariant, PTL DEF Spec

(* It has been given one when interrupts are turned on, unless the ten     *)
(* bytes written after the configuration each overtook the one before: the *)
(* last is then taken for it, and may lower the line of a byte whose       *)
(* request stays.  With fewer than ten delays no step adds a request.      *)
THEOREM StraysNeverBreed ==
  ASSUME MaxSlow < 10
  PROVE  Spec => StraysDoNotBreed
<1>1. Init => Overrun
  BY DEF Init, Overrun
<1>2. ASSUME TypesInv, Overrun, sti
      PROVE  awaits # "config"
  <2>1. Count = 16
    BY <1>2 DEF Count
  <2> QED
    BY <1>2, <2>1, PS2Assumption DEF Overrun, TypesInv, TypesOK
<1>3. TypesInv /\ Latched /\ Overrun /\ [Next]_vars
        => (sti => Surplus' <= Surplus)
  BY <1>2, StraysStep
<1>4. LatchInv => Latched
  BY DEF LatchInv
<1> QED
  BY <1>1, <1>3, <1>4, TypesInit, TypesStep, OverrunStep, LatchInvariant, PTL
  DEF Spec, StraysDoNotBreed
===============================================================================
