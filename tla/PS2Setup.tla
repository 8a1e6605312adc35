-------------------------------- MODULE PS2Setup --------------------------------
(***************************************************************************)
(* How CorgiOS gets its user input going: the end of InitializeKernel      *)
(* (KernelUtils/kernelUtil.cpp), PreparePS2Mouse (mouse.cpp), RemapPIC and *)
(* the two device handlers (Interrupts/interrupts.cpp), against the 8042   *)
(* controller, the keyboard and the mouse behind it, and the two 8259s.    *)
(*                                                                         *)
(* The kernel is a straight line of port accesses: `todo' is the rest of   *)
(* it, then of the handler that runs.  The controller takes a written byte *)
(* some time later, a device answers some time later, the user types and   *)
(* moves the mouse whenever the device reports.  Ports and bytes are the   *)
(* numbers they are.                                                       *)
(***************************************************************************)
EXTENDS Integers, Sequences, FiniteSets

CONSTANTS
  FirmwareConfigs,  (* configuration bytes the firmware may leave           *)
  UserBytes,        (* ["kbd" and "aux" -> bytes of keys and of packets]    *)
  OtherIrqs,        (* requests of devices the kernel has no handler for    *)
  MaxUser,          (* bound: bytes the user makes the devices send         *)
  MaxSlow           (* bound: how often the hardware is slower than the     *)
                    (* kernel gives it time for                             *)

Byte == 0 .. 255

Device == {"kbd", "aux"}

Source == Device \cup {"ctl"}    (* ctl: an answer of the controller itself *)

Irq == 0 .. 15

ASSUME PS2Assumption ==
  /\ FirmwareConfigs \subseteq Byte
  /\ UserBytes \in [Device -> SUBSET Byte]
  /\ OtherIrqs \subseteq Irq \ {1, 2, 12}
  /\ MaxUser \in Nat
  /\ MaxSlow \in Nat

Has(byte, mask) == (byte \div mask) % 2 = 1
With(byte, mask) == IF Has(byte, mask) THEN byte ELSE byte + mask
Without(byte, mask) == IF Has(byte, mask) THEN byte - mask ELSE byte

(* The configuration byte: bits 0 and 1 let the keyboard and the mouse     *)
(* interrupt, bits 4 and 5 stop them.                                      *)
Interrupting == [kbd |-> 1, ctl |-> 1, aux |-> 2]
Stopping == [kbd |-> 16, aux |-> 32]

Line == [kbd |-> 1, ctl |-> 1, aux |-> 12]

-----------------------------------------------------------------------------
(* What the kernel does, access by access.                                 *)

Out(port, value) == [op |-> "out", port |-> port, value |-> value]
Do(op) == [op |-> op, port |-> 0, value |-> 0]

PIC1_COMMAND == 32
PIC1_DATA == 33
PIC2_COMMAND == 160
PIC2_DATA == 161
PIC_EOI == 32
ICW1 == 17    (* ICW1_INIT | ICW1_ICW4 *)

(* Mutant: both halves of the interrupt lines are left on one vector base. *)
RemapPICToOneBase ==
  << Do("saveMasks"),
     Out(PIC1_COMMAND, ICW1), Out(PIC2_COMMAND, ICW1),
     Out(PIC1_DATA, 32), Out(PIC2_DATA, 32),
     Out(PIC1_DATA, 4), Out(PIC2_DATA, 2),
     Out(PIC1_DATA, 1), Out(PIC2_DATA, 1),
     Do("restoreMasks") >>

RemapPIC ==
  << Do("saveMasks"),
     Out(PIC1_COMMAND, ICW1), Out(PIC2_COMMAND, ICW1),
     Out(PIC1_DATA, 32), Out(PIC2_DATA, 40),
     Out(PIC1_DATA, 4), Out(PIC2_DATA, 2),
     Out(PIC1_DATA, 1), Out(PIC2_DATA, 1),
     Do("restoreMasks") >>

DisablePS2Devices == << Out(100, 173), Out(100, 174), Do("flush") >>

MouseWrite(value) ==
  << Do("wait"), Out(100, 212), Do("wait"), Out(96, value) >>

MouseRead == << Do("waitInput"), Do("in") >>

PreparePS2Mouse ==
  << Out(100, 168),
     Do("wait"), Out(100, 32), Do("waitInput"), Do("inStatus"),
     Do("wait"), Out(100, 96), Do("wait"), Do("outStatus") >>
    \o MouseWrite(244) \o MouseRead

(* Mutant: the keyboard port is disabled after the keyboard has been reset. *)
EnablePS2DevicesLate ==
  << Out(100, 174),
     Out(96, 255), Do("drain"),
     Out(96, 244), Out(100, 173),
     Out(100, 212), Out(96, 255), Do("drain"),
     Out(100, 212), Out(96, 244) >>

EnablePS2Devices ==
  << Out(100, 174), Out(100, 173),
     Out(96, 255), Do("drain"),
     Out(100, 212), Out(96, 255), Do("drain"),
     Out(96, 244), Out(100, 212), Out(96, 244) >>

(* Mutant: the controllers are remapped when the devices already answer.   *)
InitializeKernelRemappingLast ==
  DisablePS2Devices \o PreparePS2Mouse \o EnablePS2Devices \o RemapPIC
    \o << Out(PIC1_DATA, 249), Out(PIC2_DATA, 239), Do("sti") >>

(* Mutant: the line of the second controller stays masked.                 *)
InitializeKernelMaskingSlave ==
  DisablePS2Devices \o RemapPIC \o PreparePS2Mouse \o EnablePS2Devices
    \o << Out(PIC1_DATA, 253), Out(PIC2_DATA, 239), Do("sti") >>

(* From DisablePS2Devices on: of what comes before, nothing touches these  *)
(* ports.  Of PrepareInterrupts it is RemapPIC that does.                  *)
InitializeKernel ==
  DisablePS2Devices \o RemapPIC \o PreparePS2Mouse \o EnablePS2Devices
    \o << Out(PIC1_DATA, 249), Out(PIC2_DATA, 239), Do("sti") >>

(* Mutant: it reads on, in case there is more.                             *)
Keyboard_handlerReadingTwice ==
  << Do("kbd"), Do("kbd"), Out(PIC1_COMMAND, PIC_EOI) >>

Keyboard_handler == << Do("kbd"), Out(PIC1_COMMAND, PIC_EOI) >>

(* Mutant: only the first controller is told.                              *)
Mouse_handlerMasterOnly == << Do("aux"), Out(PIC1_COMMAND, PIC_EOI) >>

Mouse_handler ==
  << Do("aux"), Out(PIC2_COMMAND, PIC_EOI), Out(PIC1_COMMAND, PIC_EOI) >>

(* The gates PrepareInterrupts sets for vectors from 0x20 on.  The others  *)
(* hold what was in the page before: nobody knows where they lead.         *)
Gate(vector) ==
  CASE vector = 33 -> Keyboard_handler
    [] vector = 44 -> Mouse_handler
    [] OTHER -> << Do("undefined") >>

-----------------------------------------------------------------------------
VARIABLES
  todo,         (* the accesses left of InitializeKernel or of a handler    *)
  sti,          (* interrupts are on (they are off inside a handler)        *)
  status,       (* the local of PreparePS2Mouse                             *)
  (* the controller                                                         *)
  input,        (* the byte written to it that it has not taken yet         *)
  awaits,       (* what the next byte on the data port is for               *)
  config,       (* the configuration byte                                   *)
  out,          (* the output buffer, as a sequence of at most one byte     *)
  (* the devices                                                            *)
  answers,      (* what each source has yet to put in the output buffer     *)
  reporting,    (* the devices that report what the user does               *)
  testing,      (* the devices in their self-test after a reset             *)
  user,         (* how many bytes the user made the devices send            *)
  (* the interrupt controllers                                              *)
  request, service, masked,    (* registers, by number of the line          *)
  base,         (* the first vector of each                                 *)
  icw,          (* how many initialisation words each still awaits          *)
  saved,        (* RemapPIC's a1 and a2                                     *)
  (* history                                                                *)
  slow,         (* how often the hardware has been too slow                 *)
  mistaken      (* a byte was taken for the configuration that was not      *)

kernel == <<todo, sti, status, saved, mistaken>>
controller == <<input, awaits, config, out>>
devices == <<answers, reporting, testing, user>>
pics == <<request, service, masked, base, icw>>
vars == <<kernel, controller, devices, pics, slow>>

Lines(chip) == IF chip = 1 THEN 0 .. 7 ELSE 8 .. 15

Bit == <<1, 2, 4, 8, 16, 32, 64, 128>>

MaskedBy(chip, byte) ==
  {line \in Lines(chip) : Has(byte, Bit[(line % 8) + 1])}

Init ==
  /\ todo = InitializeKernel
  /\ sti = FALSE
  /\ status = 0
  /\ saved = {}
  /\ input = <<>>
  /\ awaits = "kbd"
  /\ config \in FirmwareConfigs
  /\ out = <<>>
  /\ answers = [source \in Source |-> <<>>]
  /\ reporting = Device
  /\ testing = {}
  /\ user = 0
  /\ request = {}
  /\ service = {}
  /\ masked = Irq
  /\ base = <<8, 112>>
  /\ icw = <<0, 0>>
  /\ slow = 0
  /\ mistaken = FALSE

-----------------------------------------------------------------------------
(* The lines to the interrupt controllers follow the output buffer: a      *)
(* request is latched when its line rises; when the line falls, because    *)
(* somebody reads the buffer, chips differ in whether it is forgotten.     *)

Level(buffer, byte) ==
  {Line[b.from] : b \in {buffer[i] : i \in {j \in DOMAIN buffer :
     Has(byte, Interrupting[buffer[j].from])}}}

Drive(buffer, byte) ==
  LET before == Level(out, config)
      after == Level(buffer, byte)
  IN  /\ out' = buffer
      /\ config' = byte
      /\ \E forgotten \in SUBSET (before \ after) :
           request' = (request \ forgotten) \cup (after \ before)

(* A step at which, under this condition, the hardware was too slow.       *)
TooSlowIf(condition) ==
  IF condition THEN slow < MaxSlow /\ slow' = slow + 1 ELSE UNCHANGED slow

(* The controller takes a command.                                         *)
TakeCommand ==
  /\ input # <<>> /\ input[1].port = 100
  /\ LET command == input[1].value
     IN  /\ awaits' = CASE command = 96 -> "config"
                        [] command = 212 -> "aux"
                        [] OTHER -> "kbd"
         /\ answers' = IF command = 32
                       THEN [answers EXCEPT !["ctl"] = Append(@, config)]
                       ELSE answers
         /\ Drive(out, CASE command = 173 -> With(config, 16)
                         [] command = 174 -> Without(config, 16)
                         [] command = 168 -> Without(config, 32)
                         [] OTHER -> config)
  /\ input' = <<>>
  /\ UNCHANGED <<kernel, reporting, testing, user, service, masked, base,
                 icw, slow>>

(* A device gets a command: a reset, the order to report, or a byte it has *)
(* no use for.  In its self-test it does not listen.                       *)
Receive(device, command) ==
  IF device \in testing
  THEN /\ TooSlowIf(TRUE)
       /\ UNCHANGED <<answers, reporting, testing>>
  ELSE /\ answers' = [answers EXCEPT ![device] =
                        IF command = 255 THEN <<250>>
                        ELSE Append(@, IF command = 244 THEN 250 ELSE 254)]
       /\ testing' = IF command = 255 THEN testing \cup {device} ELSE testing
       /\ reporting' = IF command = 255 THEN reporting \ {device}
                       ELSE IF command = 244 THEN reporting \cup {device}
                       ELSE reporting
       /\ UNCHANGED slow

(* The controller takes a data byte.  One for the keyboard opens its port. *)
TakeData ==
  /\ input # <<>> /\ input[1].port = 96
  /\ LET byte == input[1].value
     IN  \/ /\ awaits = "config"
            /\ Drive(out, byte)
            /\ UNCHANGED <<answers, reporting, testing, slow>>
         \/ /\ awaits \in Device
            /\ Drive(out, IF awaits = "kbd" THEN Without(config, 16)
                          ELSE config)
            /\ Receive(awaits, byte)
  /\ input' = <<>>
  /\ awaits' = "kbd"
  /\ UNCHANGED <<kernel, user, service, masked, base, icw>>

Open(source) == source \in Device => ~Has(config, Stopping[source])

(* A byte reaches the output buffer when it is empty.                      *)
Fill(source) ==
  /\ out = <<>>
  /\ answers[source] # <<>>
  /\ Open(source)
  /\ Drive(<<[from |-> source, byte |-> Head(answers[source])]>>, config)
  /\ answers' = [answers EXCEPT ![source] = Tail(@)]
  /\ UNCHANGED <<kernel, input, awaits, reporting, testing, user, service,
                 masked, base, icw, slow>>

(* The end of a self-test; the keyboard then reports by itself.            *)
PassTest(device) ==
  /\ device \in testing
  /\ answers' = [answers EXCEPT ![device] =
                   @ \o (IF device = "kbd" THEN <<170>> ELSE <<170, 0>>)]
  /\ testing' = testing \ {device}
  /\ reporting' = IF device = "kbd" THEN reporting \cup {"kbd"} ELSE reporting
  /\ UNCHANGED <<kernel, controller, user, pics, slow>>

(* The user presses or releases a key, or moves the mouse.                 *)
Use(device) ==
  /\ user < MaxUser
  /\ device \in reporting
  /\ \E byte \in UserBytes[device] :
       answers' = [answers EXCEPT ![device] = Append(@, byte)]
  /\ user' = user + 1
  /\ UNCHANGED <<kernel, controller, reporting, testing, pics, slow>>

(* Another device asks for an interrupt.                                   *)
Raise(irq) ==
  /\ irq \notin request
  /\ request' = request \cup {irq}
  /\ UNCHANGED <<kernel, controller, devices, service, masked, base, icw,
                 slow>>

-----------------------------------------------------------------------------
(* The processor *)

Ready == todo = <<>>

Next1(op) == todo # <<>> /\ Head(todo).op = op

GoOn == todo' = Tail(todo)

(* IO::outb to the 8042; what it has not taken yet is lost.                *)
Write ==
  /\ \/ /\ Next1("out") /\ Head(todo).port \in {96, 100}
        /\ input' = <<[port |-> Head(todo).port, value |-> Head(todo).value]>>
     \/ /\ Next1("outStatus")
        /\ input' = <<[port |-> 96, value |-> status]>>
  /\ TooSlowIf(input # <<>>)
  /\ GoOn
  /\ UNCHANGED <<sti, status, saved, mistaken, awaits, config, out, devices,
                 pics>>

(* MouseWait: until the controller has taken what was written, or no more; *)
(* the write that follows is then too early.                               *)
MouseWait ==
  /\ Next1("wait")
  /\ input # <<>> => slow < MaxSlow
  /\ GoOn
  /\ UNCHANGED <<sti, status, saved, mistaken, slow, controller, devices,
                 pics>>

(* Something is on the way to the output buffer.                           *)
Coming == input # <<>> \/ \E source \in Source :
                              answers[source] # <<>> /\ Open(source)

(* MouseWaitInput: until there is something to read, or no more.           *)
MouseWaitInput ==
  /\ Next1("waitInput")
  /\ TooSlowIf(out = <<>> /\ Coming)
  /\ GoOn
  /\ UNCHANGED <<sti, status, saved, mistaken, controller, devices, pics>>

(* What IO::inb(0x60) returns: the byte in the buffer, or, when it is      *)
(* empty, one that was there before.                                       *)
Readable ==
  IF out # <<>> THEN {out[1].byte}
  ELSE {0, 250} \cup UserBytes["kbd"] \cup UserBytes["aux"]

Consume == Drive(<<>>, config)

(* status = IO::inb(0x60) | 0b10: whatever is there is taken for the       *)
(* controller's answer.                                                    *)
ReadStatus ==
  /\ Next1("inStatus")
  /\ \E byte \in Readable : status' = With(byte, 2)
  /\ mistaken' = (out # <<>> /\ out[1].from # "ctl")
  /\ Consume
  /\ GoOn
  /\ UNCHANGED <<sti, saved, input, awaits, devices, service, masked, base,
                 icw, slow>>

(* MouseRead's byte, which nobody looks at, and the flush.                 *)
Discard ==
  /\ \/ Next1("in") /\ GoOn
     \/ Next1("flush") /\ (IF out = <<>> THEN GoOn ELSE UNCHANGED todo)
  /\ Consume
  /\ UNCHANGED <<sti, status, saved, mistaken, slow, input, awaits, devices,
                 service, masked, base, icw>>

(* The loops after a reset: read until an acknowledge (0xFA) or the result *)
(* of a self-test (0xAA), or until there is nothing to read just now.      *)
Drain ==
  /\ Next1("drain")
  /\ IF out = <<>> \/ out[1].byte \in {250, 170} THEN GoOn
     ELSE UNCHANGED todo
  /\ Consume
  /\ UNCHANGED <<sti, status, saved, mistaken, slow, input, awaits, devices,
                 service, masked, base, icw>>

(* IO::outb to a command port of the interrupt controllers.  Initialising  *)
(* forgets requests and mask; a line that is up then must fall and rise    *)
(* again to be noticed.  An end of interrupt is for the most urgent one in *)
(* service.                                                                *)
PICCommand(chip) ==
  /\ Next1("out") /\ Head(todo).port = (IF chip = 1 THEN 32 ELSE 160)
  /\ IF Head(todo).value = ICW1
     THEN /\ request' = request \ Lines(chip)
          /\ service' = service \ Lines(chip)
          /\ masked' = masked \ Lines(chip)
          /\ icw' = [icw EXCEPT ![chip] = 3]
     ELSE /\ service' = service \ {line \in service \cap Lines(chip) :
                \A other \in service \cap Lines(chip) : line <= other}
          /\ UNCHANGED <<request, masked, icw>>
  /\ GoOn
  /\ UNCHANGED <<sti, status, saved, mistaken, controller, devices, base,
                 slow>>

(* IO::outb to a data port: an initialisation word or the mask.            *)
PICData(chip) ==
  /\ Next1("out") /\ Head(todo).port = (IF chip = 1 THEN 33 ELSE 161)
  /\ IF icw[chip] = 0
     THEN /\ masked' = (masked \ Lines(chip))
                         \cup MaskedBy(chip, Head(todo).value)
          /\ UNCHANGED <<icw, base>>
     ELSE /\ icw' = [icw EXCEPT ![chip] = @ - 1]
          /\ base' = IF icw[chip] = 3
                     THEN [base EXCEPT ![chip] = Head(todo).value] ELSE base
          /\ UNCHANGED masked
  /\ GoOn
  /\ UNCHANGED <<sti, status, saved, mistaken, controller, devices, request,
                 service, slow>>

KeepMasks ==
  /\ \/ Next1("saveMasks") /\ saved' = masked /\ UNCHANGED masked
     \/ Next1("restoreMasks") /\ masked' = saved /\ UNCHANGED saved
  /\ GoOn
  /\ UNCHANGED <<sti, status, mistaken, controller, devices, request, service,
                 base, icw, slow>>

SetInterrupts ==
  /\ Next1("sti")
  /\ sti' = TRUE
  /\ GoOn
  /\ UNCHANGED <<status, saved, mistaken, controller, devices, pics, slow>>

(* A handler's IO::inb(0x60); the rest of HandleKeyboard and HandleMouse   *)
(* is in Keyboard and Mouse.                                               *)
TakeByte(driver) ==
  /\ Next1(driver)
  /\ Consume
  /\ GoOn
  /\ UNCHANGED <<sti, status, saved, mistaken, slow, input, awaits, devices,
                 service, masked, base, icw>>

(* The second controller is behind line 2 of the first.                    *)
Rank(irq) == IF irq < 2 THEN irq ELSE IF irq < 8 THEN irq + 8 ELSE irq - 6

Deliverable ==
  {irq \in request \ masked :
     /\ irq >= 8 => 2 \notin masked
     /\ \A other \in service : other # 2 => Rank(irq) < Rank(other)
     /\ 2 \in service => irq < 2}

(* An interrupt, when none is handled.                                     *)
Interrupt(irq) ==
  /\ Ready /\ sti
  /\ irq \in Deliverable
  /\ \A other \in Deliverable : Rank(irq) <= Rank(other)
  /\ request' = request \ {irq}
  /\ service' = service \cup (IF irq < 8 THEN {irq} ELSE {irq, 2})
  /\ todo' = Gate(base[IF irq < 8 THEN 1 ELSE 2] + (irq % 8))
  /\ UNCHANGED <<sti, status, saved, mistaken, controller, devices, masked, base,
                 icw, slow>>

Kernel ==
  \/ Write \/ MouseWait \/ MouseWaitInput \/ ReadStatus \/ Discard \/ Drain
  \/ \E chip \in {1, 2} : PICCommand(chip) \/ PICData(chip)
  \/ KeepMasks \/ SetInterrupts
  \/ \E driver \in Device : TakeByte(driver)
  \/ \E irq \in Irq : Interrupt(irq)

Next ==
  \/ Kernel
  \/ TakeCommand \/ TakeData
  \/ \E source \in Source : Fill(source)
  \/ \E device \in Device : PassTest(device) \/ Use(device)
  \/ \E irq \in OtherIrqs : Raise(irq)

(* The processor runs on, the controller takes and hands over bytes, a     *)
(* self-test ends.                                                         *)
Spec ==
  /\ Init /\ [][Next]_vars
  /\ WF_vars(Kernel)
  /\ WF_vars(TakeCommand \/ TakeData)
  /\ \A device \in Device : WF_vars(PassTest(device))
  /\ WF_vars(\E source \in Source : Fill(source))

-----------------------------------------------------------------------------
(* Correctness *)

(* No interrupt is ever taken through a gate nobody has set                *)
(* (kernelUtil.cpp:49): masks, vector bases and gates fit together.        *)
OnlySetGatesTaken == ~Next1("undefined")

(* Between handlers no interrupt is left in service, in neither controller, *)
(* whatever order requests came in (interrupts.cpp:57).                    *)
EveryInterruptEnded == Ready => service = {}

(* Once set-up is over a byte in the output buffer that may interrupt has  *)
(* its request latched, or a handler is on the way to it: no byte is left  *)
(* behind that would block everything after it.                            *)
NoByteStuck ==
  sti /\ (Ready \/ Head(todo).op = "out") => Level(out, config) \subseteq request

(* Requests left over from bytes that set-up has polled make a driver take *)
(* a byte that is not its device's, or none; the byte's own request is then *)
(* the one left over.  Every interrupt takes one byte: they never multiply. *)
Surplus ==
  Cardinality(request \cap {1, 12})
    + (IF Next1("kbd") \/ Next1("aux") THEN 1 ELSE 0)
    - Cardinality(Level(out, config))

StraysDoNotBreed == [][sti => Surplus' <= Surplus]_vars

(* When no byte of the user's was taken for the configuration and the      *)
(* hardware was fast enough, both devices work when set-up ends: they      *)
(* report, their ports are open, their interrupts on and not masked.       *)
Alive ==
  /\ reporting = Device /\ awaits = "kbd"
  /\ config % 4 = 3 /\ ~Has(config, 16) /\ ~Has(config, 32)
  /\ {1, 12} \cap masked = {}

Settled == sti /\ input = <<>> /\ testing = {}

SetUpWorks == Settled /\ slow = 0 /\ ~mistaken => Alive

(* DisablePS2Devices and EnablePS2Devices keep what the user does during   *)
(* set-up from disabling a device (BugLog.txt #2, "Resolved? yes").        *)
UserCannotDisable == Settled /\ slow = 0 => Alive

(* Set-up ends whatever the devices do and fail to do (mouse.cpp:4), and   *)
(* from then on a byte that may interrupt is taken from the buffer in the  *)
(* end, also one of the mouse, which comes by the other controller         *)
(* (kernelUtil.cpp:126).                                                   *)
EveryByteIsTaken ==
  /\ <>sti
  /\ (sti /\ Level(out, config) # {}) ~> (out = <<>>)
=============================================================================
