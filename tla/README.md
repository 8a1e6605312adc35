# CorgiOS in TLA+

CorgiOS is a small x86-64 operating system kernel: a UEFI boot loader loads an
ELF image and hands it the memory map, the framebuffer, a font and the ACPI
root pointer; the kernel builds its own page tables, maps PCI configuration
space, sets up interrupts and the PS/2 devices, and then a desktop ("Fluff")
lives entirely in the keyboard and mouse interrupt handlers while `_start`
spins. This directory holds TLA+ models of that kernel, TLC configurations that
check them on small machines, and proofs, checked by TLAPS, for machines of any
size. Paths below are relative to `src/CorgiOS/kernel/src/`.

## 1. The system

| Component | State | Operations | Talks to |
|---|---|---|---|
| **CorgiAlloc** `Memory/corgiAlloc.cpp`, `memory.cpp` | bitmap (stored in the memory it describes), cursor `pageBitmapIndex`, three byte counters, `initialized` | `ReadEFIMemoryMap`, `BorrowPage`, `LockPages`/`StealPages`, `FreePages`/`DropPages`, private reserve and unreserve | everything that needs a page |
| **Page tables** `Memory/pageTableManager.cpp`, `pageMapIndexer.cpp`, `paging.cpp` | PML4 and the tables below it | `MapMemory` | CorgiAlloc; the MMU; its own page faults |
| **Kernel set-up** `KernelUtils/kernelUtil.cpp` | the order of initialisation, CR3, IDTR | `PrepareMemory`, `PrepareACPI`, `DisablePS2Devices`, `PrepareInterrupts`, `PreparePS2Mouse`, `EnablePS2Devices`, `sti` | all others |
| **Interrupts** `Interrupts/*.cpp` | IDT gates, PIC masks and in-service bits | five handlers, `RemapPIC`, end of interrupt | page tables, drivers, panic |
| **ACPI and PCI** `ACPI/acpi.cpp`, `PCI/pci.cpp` | none of its own; maps configuration pages | `FindTable`, `EnumeratePCI` | page tables, screen |
| **PS/2 set-up** `kernelUtil.cpp`, `mouse.cpp` | controller status, configuration byte, device state | command and reply sequences with bounded waits | the controller and two devices |
| **Mouse** `InputOutput/UserInput/mouse.cpp` | `MouseCycle`, raw packet, ready flag, position | `HandleMouse`, `ProcessMousePacket` | IRQ 12, Fluff |
| **Keyboard** `keyboard.cpp`, `kbScancodeTranslation.cpp` | shift and caps flags, `rawStates` | `HandleKeyboard`, `Translate` | IRQ 1, Fluff |
| **Fluff** `Graphics/Fluff/*.cpp` | last packets, saved pixels under the cursor | `onStart`, `onInputMouse`, `onInputKeyboard`, `onClick`, cursor draw and clear, task bar | CorgiGL |
| **CorgiGL** `Graphics/CorgiGL.cpp` | framebuffer, print point, colour | pixels, rectangles, lines, text | framebuffer |
| **Panic** `KernelUtils/panic.cpp` | none | `Trigger` prints and halts for good | CorgiGL |
| **Libraries** `Libs/*.cpp` | static buffers | number formatting, random numbers | - |
| **Boot loader** `src/CorgiOS/gnu-efi/bootloader/main.c` | memory map and its key, loaded segments | load kernel and font, exit boot services, jump | firmware, kernel |

What is hard in it:

* **No failure path.** `BorrowPage` answers `nullptr` when memory is gone, and of
  its five callers only the page fault handler looks at the answer.
* **Faults inside faults.** `MapMemory` writes to the page it has just borrowed.
  If that page is not mapped the write faults, and the handler calls
  `BorrowPage` and `MapMemory` itself while the outer call is half way down its
  walk.
* **Derived state.** Bitmap, cursor, counters and the memory map have to agree
  after every sequence of calls although boot alone reserves, releases,
  reserves and locks overlapping runs.
* **Boundaries.** Rounding a bitmap up to bytes, one page too many or too few at
  the end of an identity map, unsigned counters.
* **Interrupts against the main program.** `onStart` draws while mouse and
  keyboard handlers draw. `BugLog.txt` #3 and #4 are reports from here.
* **Hardware at its own pace.** Input set-up polls, waits a limited time, and
  writes without asking whether the controller has taken the last byte, while
  both devices may report what the user does (`BugLog.txt` #2). What it polls
  leaves requests in the interrupt controllers that come out after `sti`.
* **Numbers without a sign, tables without an end.** Centring a text wider than
  the screen, indexing name tables by bytes read from a device, lengths of
  tables that firmware wrote.

What makes each component correct is written down as `hazards` in
`PROJECT.json`, each at the line where it bites. In short: the allocator never
grants a page twice, never loses one, never grants reserved memory; page tables
keep every translation they have promised and every table has one parent; a
fault is always answered; the mouse's idea of packets stays aligned with the
device's; pixels under the cursor are those the program drew last; every
interrupt is acknowledged; the loader's map is the one the firmware accepts.

## 2. Modules

| Module | Models |
|---|---|
| `PagePool` | abstract: pages are free or held, a request gets any free page or is refused when there is none |
| `CorgiAlloc` | the allocator, as operators from allocator values to allocator values, and a state machine of one client that borrows, steals and drops in any order; implements `PagePool` |
| `KernelMemory` | extends `CorgiAlloc` with `PrepareMemory`, `MapMemory`, PCI mapping, `PrepareInterrupts` and `PageFault_handler` |
| `Pointer` | abstract: a movement is applied once and in order, and shown before the next is complete |
| `Mouse` | the mouse driver against the byte stream of its device, with lost and stray bytes; implements `Pointer` while in step |
| `Keyboard` | the keyboard driver, `Translate` and the Ctrl-s hot key against the bytes of the device, lost and stray ones among them |
| `PS2Setup` | `DisablePS2Devices`, `RemapPIC`, `PreparePS2Mouse`, `EnablePS2Devices`, masks, `sti` and the two handlers, against the 8042, both devices, the user and the two 8259s |
| `PCI` | `PrepareACPI`: `FindTable` and the four loops of `EnumeratePCI`, what they map and print |
| `Desktop` | Fluff on CorgiGL: `onStart` pixel by pixel, interleaved with the two input handlers |
| `Panic` | `Panic::Trigger`, the text it is given by the fault handlers and the text output of CorgiGL |
| `BootLoader` | `efi_main`, with failing firmware calls and firmware events |
| `MCCorgiAlloc`, `MCKernelMemory`, `MCMouse`, `MCKeyboard`, `MCPS2Setup`, `MCPCI`, `MCDesktop`, `MCPanic`, `MCBootLoader` | small machines for TLC |
| `KernelMemoryProofs` (the allocator's too), `MouseProofs`, `KeyboardProofs`, `PS2SetupProofs`, `PCIProofs`, `BootLoaderProofs`, `DesktopProofs`, `PanicProofs` | theorems |

How they fit together: `KernelMemory` extends `CorgiAlloc`, its `PCI` mapping
stands for the calls of `MapMemory` whose addresses `PCI` computes. `PS2Setup`
says when a handler runs and which byte it finds; what the handler makes of the
byte is `Mouse`'s `HandleMouse` and `Keyboard`'s `HandleKeyboard`, which take
the late answers and exchanged bytes that `PS2Setup` shows to be possible as
`Stray` and `Lose`. What they give the desktop is `Desktop`'s input, and the
last word of a fault that `KernelMemory` does not repair is `Panic`'s.

The definitions named "Mutant" in the comments are wrong on purpose: each is a
plausible bug, and putting it in the place of the definition below it makes TLC
report the property that `PROJECT.json` pairs it with. Nothing else uses them.

### CorgiAlloc

Pages are numbers: the code only multiplies and divides addresses by 4096.
`nullptr` is page 0 (`NoPage`). `corgiAlloc` is a record of `Size` (in bytes),
`Buffer`, `bits` (the set of pages whose bit is 1), `pageBitmapIndex` and the
three counters; the globals `freeMemory`, `usedMemory` and `reservedMemory` are
kept in pages and wrap at `CounterRange`, as the `uint64_t` of the code does at
2^64. Each plural operation of the code is a loop of the singular one over a
run; its effect is that of one set operation (`LockPages`, `ReservePages`,
`FreePages`, `UnreservePages`), because a page already in the wanted state is
skipped, counters and all. `ReadEFIMemoryMap` is the whole of the code's: clear,
reserve everything, release the conventional descriptors, reserve the low
pages, lock the bitmap's own. `Boot`, `Borrow`, `Steal` and `Drop` are the
public operations. A client drops only pages it was granted; the source has no
caller that drops at all.

`granted` and `returned` are history: what clients hold, what the last
`BorrowPage` said. `memoryMap` is an input.

### KernelMemory

`phase` is how far `InitializeKernel` has come: `map`, `kernel`, `pml4`,
`identity`, `framebuffer` (the two loops of `PrepareMemory`), then CR3 is loaded
and `pci`, `idt`, `running`; `panic` is `Panic::Trigger`, `reset` a fault before
`lidt`, `runaway` a walk through a page that is no table, where the model stops.
`tables` maps physical pages to table contents. A call of `MapMemory` in
progress is a frame of `stack`; each frame holds the locals `virtualMemory`,
`physicalMemory`, the table reached (`PDP`, `PD` or `PT`), its level, and the
page borrowed for the next table. One step is one allocator call, one `memset`
of a table, or one entry read or written, so that a fault can come between any
two of them. `MapMemory` accesses tables through `Physical`: before CR3 is
loaded that is the firmware's identity map, afterwards the walk of the tables
themselves, which is how the model finds the accesses that fault.

Interrupts other than the page fault are left out here: gates are interrupt
gates, so handlers run with interrupts off, and neither of the two device
handlers calls the allocator or `MapMemory`. `EnumerateFunction` stands for the
three PCI functions that map a page before reading a header, for any pages of
`ConfigPages`, in any order and number (`PCI` has the order). `recovered` and `enumerated` remember
what was promised to whom; `spoiled` remembers that a table was put where no
table can be (`TableHome`): on page 0, outside what is mapped to itself
(`IdentityMapped`: memory and the framebuffer), or, once paging is on, on a page
that does not translate to itself, because `MapMemory` takes the number of a
table's page for its address.

The models assume that the bitmap's own pages are inside the identity map
(`hazards`, corgiAlloc.cpp:53), that the boot loader left zeroed statics, that
the kernel image is inside memory, and that memory, the framebuffer and
configuration space lie below the end of what four levels of tables can map
(`Virtual`: 48-bit addresses).

### Mouse and Pointer

Bytes are numbers. The device has the rest of a packet on its `wire`; `Deliver`
is IRQ 12 with the whole of `HandleMouse`, which first processes the packet that
is ready (`ProcessMousePacket`) and then takes the byte. `Magnitude` is the
subtraction whose result is stored back in a byte of the packet. `Lose` is a
byte of the device that someone else read (the set-up loops of `kernelUtil.cpp`
read port 0x60 as well) or that overran; `Stray` is a late reply to a set-up
command. `synced` is history: it is lost with every trouble and comes back when
one packet arrives whole whose movement bytes have bit 3 clear.

`Pointer` has the position the movements received lead to (`latest`), whether it
has been shown (`pending`) and what the desktop was told (`shown`). The mapping
takes as `latest` what `ProcessMousePacket` will report of the packet that is
ready (`Latest`).

### Keyboard

Scancodes are numbers; a character is the scancode it comes from and its kind
(lower, upper, plain, shifted). A key that goes down, repeats or goes up puts
its bytes on the `wire`, after 0xE0 if it is of the extended set; `Deliver` is
IRQ 1 with all of `HandleKeyboard` and what `Fluff::onInputKeyboard` does with
the packet. `AfterTable` is what lies behind the character table, which the
code reads: any character at all. A key of the device is a code and the set it
belongs to: the two Ctrls are two keys of one code, and the driver, which
ignores 0xE0, takes the release of one for a release of both (`Twins`). `Lose`
is a byte read by someone else, `Stray` one that is not about any key: an
answer to a set-up command (0xAA, the end of a self-test, is also the release
of left shift) or a byte of the mouse. `sure` is history: the keys whose last
byte came through with no other byte of the same code after it. The shift
prefixes that some keyboards put before the arrow keys while Num Lock is on are
left out.

### PS2Setup

`todo` is the rest of the kernel's straight line, one port access per element;
each sequence of accesses is an operator named after the function it
translates. A loop of reads is one element that stays at the head while it goes
on. `MouseWait` and `MouseWaitInput` poll 100000 times and then go on:
a step in which the controller or a device would have needed longer is allowed
`MaxSlow` times and counted in `slow`, as is a write that the controller was not
ready for. `status` is the local of `PreparePS2Mouse`.

The controller has an input buffer for one byte, taken some time later
(`TakeCommand`, `TakeData`), a configuration byte and an output buffer for one
byte; a device has its `answers` and puts them there when the buffer is empty
and its port open (`Fill`). A reset device is in its self-test for a while, does
not listen and does not report. The user presses keys and moves the mouse
whenever the device reports (`Use`). The lines to the 8259s follow the output
buffer and the configuration byte; a request is latched on a rising line, and a
line that falls may or may not take its request along. `PICCommand` and
`PICData` have the initialisation words, masks and the end of interrupt;
`Interrupt` is the most urgent request that nothing in service blocks. A handler
is again a list of accesses, with interrupts off until it is empty. A vector for
which `PrepareInterrupts` sets no gate leads to the step `undefined`.

The devices, the controller and the 8259s are not in `src/`: they are modelled
from the commands the code sends and are marked external in the map.

### PCI

A machine is the tables of the XSDT and, per page of configuration space, the
header of the function that answers there. One step is one call or one turn of
a loop; `position` holds the loop variables, `loop` the innermost loop. Every
level maps its page before it looks whether something is there. `Count` is the
code's division of an unsigned difference kept in an `int`. Names are the table
they come from, so that a fall through into the next `case` can be seen. A read
of entries after address 0, which is what the loop does without an MCFG, and of
a class name after the end of its table are the step `undefined`.

### Panic

`lines` is what `Trigger` has given to `println`, a text with its print point
each; `RowsOf` is what that draws: `printc` for each glyph with its wrap at
`PixelsPerScanLine` and its check of the height, `prints` with the four blanks.
Numbers are `unsigned int`, modulo `Word`. One step is one line, because
interrupts are off and nothing else runs. Of the fixed lines only the lengths
are kept, a blank in them counts as a glyph; of the message every character.
`hexBuffer` is the static buffer of `toHexString`, which the PCI names use
before a page fault does; its bytes after the copy are those of the code,
including the ones that earlier calls left. `LeftOf` is the loop that divides by
16 and `Turns` how often it turns. `MessagesAssumption` keeps messages so short
that neither `x` nor `y` goes around 2^32; it takes one of some hundred million
characters to break it with a font of 16 rows.

### Desktop

The framebuffer is a function from pixels to the names of what was drawn there.
`gl.ideal` is history: every drawing but the cursor's goes to it too, so it is
the screen without a cursor. `gl.stale` are the pixels drawn while the cursor
covered them, `gl.outside` tells that a pixel was written past the framebuffer.
`onStart` (clear the screen, draw the task bar, save, move and restore the print
point around the '=') advances by one pixel or one assignment per step; the
handlers are one step each, because gates are interrupt gates. The shape of the
cursor and of the glyphs is abstract; the box that is saved, its clipping and
where things are put back are not.

### BootLoader

One action per block of `efi_main`. Up to `MaxFailures` kinds of firmware call
may fail (a refusal of `AllocatePages` follows from who holds the pages and is
not counted), and up to `MaxEvents` times a firmware event (or the
firmware's console, through which the loader prints) takes or gives back a
page, which makes the key of an older memory map stale. Where the code goes on with
a pointer that was never set the model goes to the step `undefined` and stops.
`bytes` says which byte of which segment is at each address. Who holds a page,
the descriptors and the pool are the firmware's, modelled from what the loader
asks of it. `FillBootInfo` has the loop over the configuration tables as it is
written, `configTable++` and `configTable[i]` both.

## 3. What the runs check

`corgi_alloc` (1272 states) - 4 bits to a bitmap byte, 2 bytes to a page, and
four memory maps: contiguous, one whose bitmap has a single spare bit, one with
a hole, one unsorted. Runs stolen or dropped are up to `MaxRun` = 2 pages, which
is enough to overlap a page already locked and to run one past the bitmap; all
maps have fewer than 16 pages, so TLC visits every set of pages a client can
hold. `CounterRange` = 32 lets the counters wrap.

* `EveryBitHasOneOwner`: a bit is set exactly when its page is out to a client
  or permanently locked, never both.
* `NothingFreeBehindCursor`: the scan of `BorrowPage`, which never goes back,
  misses nothing.
* `CountersAgree`: the three counters are what the bitmap says.
* `PoolImplemented`: a refinement of `PagePool`.

`kernel_memory` (143 000 states) - 4 entries to a table, so that 256
virtual pages need all four levels, and three maps of 24 to 27 pages, of which
the identity map takes 14 and the IDT one. Up to four configuration pages and
seven touched addresses, in other tables and in the same, are enough to run out
of memory in PCI enumeration, in the IDT, in a fault and in a fault within a
fault. One of the addresses, page 26, has a bit in the bitmap although it is no
memory: once the handler has backed it, a table put there would be mapped, but
to another page.

* `EveryBorrowedPageHasOneUse`: every page the kernel holds is the image, the
  PML4, the target of one directory entry, the page of one recovered address,
  the IDT, or on its way to one of these. No leak, no page used twice.
* `TranslationIntact`: what was mapped stays mapped to the same page.
* `OnlyExhaustionSpoils`: the unchecked `BorrowPage` in `MapMemory` is harmless
  until not one page of memory is left, and no fault comes inside a call before
  that: nothing links a table between a call's read of an entry and its write.
* `EveryCallEnds`: every call and every fault, however nested, ends.

The first two hold while `spoiled` is false; the third says exactly when that
is.

`mouse` (1.2 million states) - a screen of 11 by 7, so that movements of a few
counts reach every edge; six movements with both signs, overflow, zero, and
movement bytes with and without bit 3; up to three lost or stray bytes, which is
one for every byte of a packet.

* `SyncedMeansAligned`: one intact quiet packet puts the driver in step with the
  device from whatever state trouble left it in. It is only the packet with
  quiet bytes that does: see the divergences below.
* `PointerImplemented`: while in step, a refinement of `Pointer`.

`keyboard` (1.7 million states) - both shifts, both Ctrls, Caps Lock and s; three
keys held at a time are enough for both shifts and a letter, for Ctrl and a
shift and s, and for both Ctrls and s; one byte lost or strayed, which may be
0xFA, 0xAA or Enter.

* `StatesFollowKeys`: a code whose keys' last bytes came through is known to be
  down exactly when one of its keys is: a lost release, a stray byte or the
  release of a twin misleads the driver about that code until its next byte and
  about no other.
* `LetterCase`: the case of a printed letter follows the shift keys that are
  held and the Caps Lock flag.
* `SavingByCtrlS`: "Saving." is printed exactly for a small s typed with Ctrl
  held.

`ps2_setup` (279 000 states) - two configuration bytes the firmware may leave, a
key and a movement whose bytes would turn interrupts and ports off, one byte of
the user's (`MaxUser` = 1), one delay (`MaxSlow` = 1), the timer asking all the
time. One byte of the user's is what can come between a command and its answer;
more only repeat it. With one delay, every wait and every write can be the one
that is too early.

* `OnlySetGatesTaken`: no interrupt leads through a gate that nobody has set,
  with the masks, bases and gates as the three functions leave them.
* `EveryInterruptEnded`: between handlers neither 8259 has one in service.
* `NoByteStuck`: after `sti` a byte in the output buffer has its request latched
  or a handler on the way to it. Nothing can come after a stuck byte, so one
  would silence both devices for good.
* `StraysDoNotBreed`: what polling leaves latched makes a driver take a byte that
  is not its device's; each such interrupt takes a byte, and no step adds one.
* `SetUpWorks`: unless the hardware was too slow or a byte was taken for the
  configuration that was none, both devices work once set-up is over.
* `EveryByteIsTaken`: set-up ends, and from then on each byte that may interrupt
  is taken in the end.

`pci` (19 000 states) - one and several segments, from bus 0 and from a later
one, with no bus and with all 255; an MCFG that is missing, shorter than its
header, or has half an entry; and functions at the corners of a device and a
bus, on the last bus, present or not in every combination. Thirty-two devices
and eight functions are the code's.

* `PrintedSoFar`: wherever the loops are, exactly the functions that can be
  reached and lie behind have been printed, once each, in order and from their
  own page.
* `OnlyConfigSpaceMapped`: nothing else is mapped.
* `NamesFit`: a name in words is of the function's own class; in the three
  fall-throughs listed below it is of the first case that has the code, and of
  none beyond.
* `EnumerationEnds`: it ends when there is an MCFG (or nothing where its length
  would be) and no class is past the name table; on any other machine it ends or
  comes to a read of what is no table, where the model stops.

`desktop` (0.65 million states) - a screen of 3 by 5 with a task bar of two lines,
a cursor with a transparent pixel, four positions (one of them half off the
screen, one on the task bar's icon) and three interrupts anywhere: two to
draw and move the cursor, a third to click or type in between.

* `OnlySavedPixelsComeBack`: the next restore puts back only pixels saved from
  the place they go to (the black box of `BugLog.txt` #3).
* `TracesOnlyWhereCovered`: the cursor leaves a trace only where the program
  drew under it.
* `TextMovesOn`, `HandlersPrintInside`: what handlers print never goes back over
  older lines and never past the framebuffer, wherever `onStart` is.

`panic` (77 000 states) - six screens: usual modes, padding, one too narrow for any
line, one where a line of the message just fits below and one where it just
does not; messages of no, one, two and three lines, empty lines, lines of 127,
128 and 140 characters; four hexadecimal digits and `Word` = 2^16 instead of 16
and 2^32, which is above all coordinates and keeps the wrap below zero.

* `InsideFramebuffer`: no glyph is drawn outside the framebuffer or over the end
  of a row, though the x of a text wider than the screen is a difference below
  zero taken without a sign.
* `NeverDrawnOver`: a line no wider than the screen is not drawn over by a later
  one.
* `WholeMessageShown`: a panic halts in the end, and then each line of its
  message that has its place on the screen stands there whole and centred, with
  nothing drawn into it unless a line further up is wider than the screen. Then
  the pixels are really mixed: `y` does not follow the wrap.
* `NumbersReadBack`: the number a page fault reports is the faulting address,
  whatever earlier calls left in the buffer.

`boot_loader` (3.5 million states) - six pages of two bytes, two images (one like
`CorgiOS.elf` with a .bss and a stack header, one with a note outside the
segments), three ways the firmware may hold memory, one failing call and one
event at any point, any free page for each allocation. The longest path has one
page for each of the six `AllocatePool`s and one split descriptor.

* `LoaderHoldsKernel`: all pages of the loaded segments, .bss and last page
  included, stay the loader's, unless `AllocatePages` refused.
* `SegmentsInPlace`: at the jump the file bytes of all loadable segments, and
  nothing else of the file, are where they belong.
* `KernelGetsTrueMap`: a kernel that starts without boot services, with a map
  that was filled, has the map of the machine as it is: the key protects it.

Three runs show where the code does not do what its comments say:

* `kernel_recovery`: "Recovery successful" (interrupts.cpp:15) after which the
  address does not translate to its page, or page 0 has become a table.
* `desktop_glyph`: "Prevent printing beyond framebuffer height"
  (CorgiGL.cpp:84): a click while `onStart` draws its '=' moves the print point
  under the loops of `printc`, which run off the framebuffer.
* `ps2_murder`: "Resolved? yes." (BugLog.txt:19) and "Disable both PS/2 ports"
  (kernelUtil.cpp:65): the mouse port is never disabled and the keyboard's is
  enabled again at once, and a byte of the user's is read as the configuration
  byte (mouse.cpp:39) and written back.

Further divergences that the models make visible and that have no run of their
own:

* "No free pages available" (corgiAlloc.cpp:144) although there are: memory above
  a hole has no bits. "+1 for rounding up" (corgiAlloc.cpp:32): the bits that
  round up are handed out as pages.
* `freeMemory` counts a reserved page past the end and wraps below zero when the
  padding pages are taken, so the planned `freeMemory < threshold`
  (corgiAlloc.cpp:148) would be false exactly at exhaustion.
* Scancodes above 0x39 have no character (kbScancodeTranslation.cpp:19), but
  Caps Lock, 0x3A, passes the check at :41 and is looked up after the table.
* "Reset cycle to re-sync" (mouse.cpp:60) fails for a mouse that keeps sending
  movement bytes with bit 3 set after one lost byte.
* `savedPixels`, "to store the original pixels" (Cursor.cpp:43), undoes what was
  drawn under the cursor.
* "BootInfo structure initialized successfully" (main.c:320) with an ACPI 1.0
  root pointer, or none, although there is a 2.0 one (main.c:296).
* The last bus of a PCI segment is left out (pci.cpp:62). A display controller
  that is not VGA is named from the bridges, an IDE or USB controller's interface
  from whatever case comes next (pciDescriptors.cpp:257, :279, :290).
* On a screen 640 pixels wide the second line of a panic, 83 characters, wraps
  and is drawn over, because `y` does not follow the wrap; on one 480 high the
  message lies below the screen (panic.cpp:21).
* The acknowledge and self-test bytes that `EnablePS2Devices` does not wait for,
  and requests of bytes it polled, reach the drivers after `sti`: a mouse handler
  may take a byte of the keyboard and the other way round.

### Fairness

`CorgiAlloc`, `Mouse`, `Keyboard`, `Desktop` and `BootLoader` have safety only:
their handlers are single steps or a straight line. `PCI` and `Panic` assume
that the processor goes on: nothing in them waits. `PS2Setup` assumes the same of
the kernel's and the handlers' accesses (an interrupt that can be taken is), and
of the hardware that the controller takes what is written to it, a byte waiting
for an empty output buffer gets there, and a self-test ends; the user and other
devices owe nothing. That two reset devices answer in some order and within the
100000 polls is not assumed (`slow`). The loops that drain the output buffer end
because a user makes finitely many bytes, as one does in microseconds. `KernelMemory` assumes weak fairness of
`Prepare \/ MapMemory \/ BorrowNewPage`: the CPU does not stop in the middle of
the kernel's own code, which waits for nothing here. `PageFault` has no
fairness: nobody has to touch an unmapped page. Deadlock checking is off for
`KernelMemory` because a machine that has halted, or has touched everything,
really stops; for `PCI` because it returns or is undefined; for `PS2Setup`
because of the bounds on the user and because a machine at rest waits for one;
for `BootLoader` because it jumps to the kernel, returns an error
or is undefined; for `Desktop` because the number of interrupts is bounded.

## 4. What is proved

For every memory map, bitmap geometry, counter width, table size and set of
addresses; the assumptions are those named in the modules (`SizesAssumption`,
`MemoryMapsAssumption`, `KernelAssumption`, `MouseAssumption`,
`KeyboardAssumption`, `PS2Assumption`, `PCIAssumption`, `BootLoaderAssumption`, `DesktopAssumption`,
`PanicAssumption`, `MessagesAssumption`, `NumbersAssumption`): sizes are
positive, a memory map is a sequence of descriptors with natural sizes, what is
mapped to itself is within reach of four levels of tables, a movement is one
that a packet can carry, a table is long enough for the entries its length
announces, a segment begins on a page boundary, ends inside memory and has
no more bytes in the file than in memory, a glyph is no wider than the screen
and the task bar and no larger than the screen of a panic, whose messages are
too short to wrap a coordinate around, and a number has at most `HexDigits`
digits.

* `TypeCorrect`, `Ownership`, `CursorSafe`, `Accounting`: the four invariants of
  `corgi_alloc`. They follow from one inductive invariant `AllocInv`, their
  conjunction with `BootShape`, which says that `Size` and `Buffer` are what
  `InitializeBitmap` made them and that the allocator is empty before boot.
  None of the four is inductive alone: the counters need ownership to know that
  a page dropped was counted as used, ownership needs the range of the bitmap,
  and the cursor needs to know that a freed page is a bit that was set.
* `Implementation`: `AllocSpec => PoolImplemented`. `Boot` is `Fill`, a borrow is
  `Take` or `Refuse`; that it is `Refuse` only when nothing is free is
  `CursorSafe`. A steal is `Claim`, a drop is `Return`.
* `PoolExclusive`: what the abstract pool promises, with the pages a client could
  hold before the pool is filled as the strengthening; `PromiseKept`: therefore
  what the allocator keeps.
* `KernelOwnership`: every step of the kernel is a step of the allocator or none
  (`KernelStep`), so `AllocInv` survives boot, page tables and nested faults.
* `KernelTypeCorrect`: `KernelMemory`'s type invariant. The strengthening
  `KernelInv` describes the frames of `stack`: a frame that waits to zero a table
  is at a directory level, a frame of a fault carries a page of the bitmap, a
  frame of PCI carries a configuration page, and there are no frames outside the
  phases that call `MapMemory`.
* `KernelTranslations`: `TranslationIntact`. A write of one table entry changes
  one translation only if no table is reached on two ways, so the strengthening
  `TranslationInv` says that the tables are a tree (`SoundMaps`: every table has
  one parent and one level, and a table that a call has borrowed but not linked
  is in no tree), that every table is where its page number is its address, that
  the call in progress stands at the table its address leads to, and that until
  the handler runs the tables map nothing but pages to themselves. No fault can
  come inside a call while nothing is spoiled, because every table is mapped to
  itself; so there is one call at a time, and the nesting of `stack` that makes
  the model large does not enter the argument.
* `KernelExhaustion`: `OnlyExhaustionSpoils`. `BorrowPage` gives the lowest free
  page (`NothingFreeBehindCursor`); if that is no `TableHome` it is `nullptr` or
  past the memory that is mapped to itself, and then no page of memory is free.
  That stays so, because the kernel gives nothing back. A `stack` of two calls
  is one of a spoiled state by `CallInv`.
* `KernelPages`: `EveryBorrowedPageHasOneUse`, with the count. `UsesInv` keeps the
  set of pages granted equal to the uses, and every use different from every
  other: `Nodes` and `Links` of the tree grow together, a page a handler gave
  away is no table, and the cardinality of a disjoint union is the sum.

* `MouseTypeCorrect`, `Alignment`: the invariants of `mouse`. The strengthening
  `MouseInv` adds `WireIsTheRest`, what is on the `wire` is the end of the packet
  being sent, and `QuietLeadsBack`, how far from step the driver can still be
  after each byte of an intact quiet packet.
* `MouseImplementsPointer`: the refinement, for every movement of up to 510
  counts. `PointerInv` adds that what has been gathered of an intact packet is
  the front of its encoding; the lemmas before it say that the flag bits and
  the movement byte decode to the movement (`FirstByteBits`, `DistanceOfByte`).

* `KeyboardTypeCorrect`, `KnowsTheKeys`, `LetterCaseCorrect`, `SavingCorrect`: the
  four properties of `keyboard`, for every set of keys, stray bytes and losses.
  `StatesFollowKeys` speaks of an empty wire only; the strengthening
  `KeyboardInv` says it at any time of the codes that nothing on the wire is
  about (`SettledStatesFollow`), that the wire has the last bytes about the key
  (`WireIsTheRest`), and that the shift flags say what `rawStates` say. It needs
  an assumption that the runs alone did not show: no key may have the code 0x60,
  for the driver takes 0xE0, the prefix of the extended set, as that key's
  release. No key of a PC keyboard has.

* `MappedCorrect`, `PrintedCorrect`, `NamesCorrect`: the three invariants of `pci`,
  for every set of tables and headers. The strengthening `PCIInv` adds `Place`:
  the loops over devices and functions only run where the first page of the bus
  and the first function of the device answer, and below the last bus, which is
  what makes a page that is read there one of the segment and a function that is
  printed there `Reachable`. `KeyOrder` says that `Key` orders positions as the
  loops do; then each step that prints nothing moves over no function that can be
  reached (`Skipping`), and the one that prints moves over the one it prints
  (`Printing`).

* `LoaderTypeCorrect`, `LoaderKeepsKernel`, `LoaderPlacesSegments`,
  `LoaderMapIsTrue`: the four invariants of `boot_loader`, for every image, page
  size and firmware that fails or changes memory any number of times. The
  strengthening `BootLoaderInv` says of each segment loaded so far that its pages
  are the loader's (`Held`) and its file bytes are in place (`Placed`) and that
  nothing else of the file is (`OnlyLoaded`), unless a call failed: a grant of
  `AllocatePages` is for pages that were free, so no later segment is read over
  an earlier one, which needs that addresses on different pages differ
  (`AddressPage`). `KeyIsTrue` says that the map the loader has is the true one as
  long as its key is: the key grows with every change of who holds memory.

* `OnlyOwnGates`, `HandlersEndInterrupts`, `BytesStayAnnounced`,
  `BothDevicesWork`, `StraysNeverBreed`: all five safety properties of
  `ps2_setup`, for every set of configuration bytes and of bytes of the user's, for
  every other line that requests and any number of user bytes and delays. Before
  `sti` the rest of the kernel's line is a suffix of `InitializeKernel`, 41
  accesses, and everything is said by its position (`At`); after it, `todo` is
  empty or a suffix of one of the two handlers.
  * `PicInv` has how far each 8259 is initialised, based and masked at each
    position, and what is in service at each point of a handler. It gives the
    first two; they need nothing of the devices.
  * `LatchInv` adds that from the access after the controller's answer has been
    read a byte that may interrupt has its request, except between an interrupt
    and the read of its handler. It does not hold earlier: `RemapPIC` makes the
    8259s forget their requests and a byte may lie in the buffer since before.
    That set-up reads the buffer afterwards is what makes `NoByteStuck` true.
  * `SetUpInv` is about hardware that was fast enough: the controller and the
    devices have taken the bytes written in order (`InOrder`), so the configuration
    (`Configured`), what was answered (`Answered`) and which devices report
    (`Reporting`) follow from how many were taken; that the byte read as the
    configuration is the controller's is the meaning of `mistaken`.
    `BothDevicesWork` has a hypothesis: the firmware left the keyboard's interrupt
    bit on. Set-up turns on only the mouse's (mouse.cpp:39), and with the bit off
    the keyboard never interrupts.
  * `StraysArePaidFor` says of hardware however slow that no step adds to the
    requests left over once interrupts are on and the controller has been given
    a configuration. A write to it could still come after `sti`, but only if each
    of the ten bytes that set-up writes after the configuration overtook the one
    before (`Overrun`): the last of them is then taken for a configuration that
    turns an interrupt off, its line falls, and the request stays. So
    `StraysNeverBreed` states `StraysDoNotBreed` for `MaxSlow` < 10; with two user
    bytes and `MaxSlow` = 10, far outside the bounds of the run, TLC finds it
    violated.

* `DesktopTypeCorrect`, `RestoresWhatWasSaved`, `CursorLeavesNoTrace`,
  `TextNeverMovesBack`, `HandlersStayInside`: all five properties of `desktop`,
  for every screen, font, cursor, text and number of interrupts. The two about
  the cursor are inductive together with the types and with the loop variables
  of `onStart`. What makes the proof short is one relation, `Printed`: each pixel
  is as before or drawn on screen and ideal alike (and stale where covered), the
  print point has moved on, and nothing was written outside. It holds of one
  glyph (`PrintcPrints`, which needs that a box that fits is not wrapped around
  by `PixelPointer`), is transitive, and so holds of any text (`PrintsPrints`).
  The last is an induction along `FoldLeft`: that its recursion has a solution at
  all (`PrintsExists`) and that the solution keeps `Printed` are both shown by a
  least counterexample (`Least`), since the induction theorems of the library
  cannot be instantiated here. `HandlersStayInside` needs an assumption that the
  run alone did not show: a glyph wider than the screen would be drawn over its
  end although it was wrapped to the left edge.

* `GlyphsStayInside`, `LinesStayReadable`, `NumbersReadCorrect`,
  `MessageStandsThere`: all safety properties of `panic`, and the safety half of
  `WholeMessageShown`, for every screen, font, line buffer, message and
  number.
  * One run of glyphs (`PrintcIs`) stays inside the framebuffer and goes down by
    at most one row per glyph, whatever its `x`: a difference below zero is, in 32
    bits, so far to the right that the first glyph goes to the next row. A text is
    runs with blanks between them; that the recursion of `prints` has a solution
    and that each of its values is still `Standing` are again shown by a least
    counterexample.
  * `PanicInv` says of the lines given to `println` that `x` is a centred one, and
    at most `Half` of the number range even when the text is wider than the
    screen, that each stands at least a glyph's height below the one before, and
    that `y` is bounded by what is left to print (`Deepest`), so that nothing wraps
    around. A text that fits is drawn in one row (`LineDraws`), and with the order
    of the lines that is `NeverDrawnOver`.
  * The digits of `toHexString` are what is left of the number in each turn,
    modulo 16 (`Digit`). Reading them from the front gives back, after `i` digits,
    what the loop had left before its last `i` turns (`ReadsBack`): induction over
    the digits. `PanicInv` only adds that the buffer has its size; that nothing of
    an earlier call is read is in `CStringIs`, the NUL after the copy is the first.
  * `ShownInv` says of a panic at work that `y` is where the entries of the page so
    far lead (`PageTop`), that what is left of the message begins at the start of
    one of its lines, that `y` is that line's place, and that every line before has
    been given to `println` at its own (`PrintedTo`). One turn of the loop takes the
    text `LineAt` says and goes on to the next start, with no start in between
    (`LineTaken`, `TextTaken`). What such a line draws is exact: a run that fits is
    one row (`RunIsWhole`), so after `i` characters every glyph is where it belongs
    (`Shown`), and with the least counterexample again, after all of them. That
    nothing else is drawn there is the order of the lines in `PanicInv`: a line
    above that fits ends above it, a line below starts below it
    (`AloneInItsPlace`). Only that a panic halts is left to TLC.

Only model-checked: the liveness properties `EveryCallEnds`, `EveryByteIsTaken`,
`EnumerationEnds`, and of `WholeMessageShown` that a panic halts. Liveness under
fairness is beyond the prover. Every invariant and every safety action property
of the passing runs is a theorem, and so are both refinements. The three runs
that end in a violation need no proof.

## 5. Not modelled

* gnu-efi (`src/CorgiOS/gnu-efi` but for `bootloader/main.c`) and the OVMF images
  are vendored: an EFI library of tens of thousands of lines, of which the boot
  loader uses `InitializeLib`, `Print`, the protocol tables and `CompareGuid`. It
  is most of the C code under `src/`; the map leaves it out, and what the
  loader gets from it is modelled external.
* The GDT is constant data with one `lgdt`.
* Bit positions: which bit of a bitmap byte and of a page table entry holds what,
  and the fields of an IDT gate. They are modelled by what they do.
* Vendor and device names of PCI are tables without a fall-through or an index.
* Code without a caller: the decimal and floating point conversions of
  `Libs/Strings.cpp` (whose `size` is never initialised), `TimerRNG`, `RDRand`,
  `Math::abs` but for CorgiGL's lines, and CorgiGL's lines, circles and rounded
  rectangles.
* The bytes of fonts, glyphs, colours and the cursor's shape.

## 6. Plan

Done: `CorgiAlloc` and `PagePool`, `KernelMemory`, `Mouse` and `Pointer`,
`Keyboard`, `PS2Setup`, `PCI`, `Desktop`, `Panic`, `BootLoader`. All parts of the
kernel that keep state or loop over input are modelled, and every safety
property of the passing runs is proved. Nothing of the plan is left.
