# A TLA+ model of osdev2

osdev2 is a small operating system kernel for i386, AArch64 and riscv64 with
its own C library, an EFI loader and, as a target of its own, the client stubs and
the server of the NFS version 4 protocol. These modules model the parts of it that
keep state, TLC checks them on small instances, and TLAPS proves most of their
invariants, and two refinements, for every instance. Paths below are relative to `src/`.

## 1. The system

### Components

| Component | State | Operations | Modules |
|---|---|---|---|
| i386 text console, `kernel/arch/i386/vga.c` | `tx`, `ty`, video memory, CRTC cursor registers | `vga_init putc puts setpos setpos_x clrline clrline_y vga_scroll cursor` | `Vga`, `Teletype` (abstract), `VgaTeletype`, `ConsoleProofs` |
| i386 keyboard driver, `kernel/arch/i386/kbd.c` | `kstate`, `extended` | the IRQ 1 handler `keyboard` | `Keyboard`, `KeyboardProofs` |
| kernel shell, `kernel/shell.c` | `shellbuf`, `shellptr`, `shellhist`, `shellptr_hist`, `histptr` | `shell_init`, `kcallback`, `shell_proc` with peek and poke | `Shell`, `LineEditor` (abstract), `ShellRefines`, `ShellMC`, `ShellProofs` |
| string functions, `libk/string` | `olds`, static in `strtok` | `strtok strspn strpbrk strchr strlen strcmp strtoul` | `LibString`, `Words` (reference), `Tokens`, `ShellProofs` |
| kmain, `kernel/kernel.c` | where it is, what it still prints | `arch_init`, printf, `shell_init`, idle loop | `Kernel`, `I386Proofs` |
| i386 start-up, `kernel/arch/i386/arch.c`, `boot.asm` | IDT, IDTR, interrupt flag, the two 8259 | `arch_init`, `pic_remap`, `add_idt_entry`, `keyboard_stub` | `I386Init`, `I386Proofs` |
| printf, `libk/stdio/printf.c` | position in the format, argument list, flags, two 256-byte buffers | `vprintf`, `__int_str`, `divmod_u64` | `Divmod`, `Printf`, `PrintfProofs` |
| EFI loader, `efi/main.c`, `efi/acpi.c` | pool buffers, pages, memory map and its key, `boot_info` | `load_elf`, `efi_main`, `find_uart`, `FindAcpiTableBySignature` | `ElfLoader`, `Acpi`, `EfiBoot`, `ElfProofs`, `EfiProofs` |
| AArch64 serial port, `kernel/arch/aarch64/uart.c`, `arch.c`, `boot.asm` | which driver, `kcallback`, FIFOs and interrupt of the port | `uart_init uart_putc uart_getc uart_int`, `interrupt_handler`, `arch_init` | `Uart`, `ConsoleProofs` |
| nfs4 target, `target/nfs4` | the stubs' static results, the server's arguments on its stack and what decoding them has allocated, the portmapper's mappings | the four client stubs, `main`, `nfs4_program_4`, `nfs4_callback_1`, the 229 `xdr_*` routines | `Nfs4Types`, `Xdr`, `Nfs4Rpc`, `Nfs4Proofs` |
| boot sector, riscv64 port, build files | | | not modelled, see 7 |

### How they interact

On i386, `kmain` calls `arch_init`, which initialises the console, fills the
IDT, remaps the interrupt controllers and ends with `sti`. From then on
every keyboard interrupt runs `keyboard`, which calls the shell's `kcallback`,
which edits the line or runs a command and calls the console, all inside the
handler and with interrupts off. `kmain` meanwhile still prints its greeting,
clears the line buffer and prints the prompt, without any lock: console
position, video memory and line buffer are shared between it and the handler.

On AArch64 the EFI loader reads the kernel file, places and relocates it, finds
the serial port in the ACPI tables, takes the memory map, leaves the boot
services and jumps. The kernel's start-up initialises the port (whose receive
interrupt is then on), sets `kcallback`, prints and polls for a key; the
interrupt handler reads and prints on the same port.

The nfs4 target stands apart. A client stub clears its static result and hands
the RPC library the routine that encodes its arguments and the one that decodes
the result. The server's `main` unmaps what an earlier run has left at the
portmapper, registers two programs for two protocols and enters `svc_run`, which
calls `nfs4_program_4` or `nfs4_callback_1` for each request: decode the arguments
into cleared storage, call the procedure, send the reply, free the arguments.
The same `xdr_*` routine encodes, decodes and frees, according to the handle it is
given.

### What is hard

* kmain and an interrupt handler share state without locks (both ports);
* fixed arrays with 8-bit indices that wrap (shell), unchecked cell indices
  (console), a 32-bit divisor shifted against a 64-bit number (printf);
* hidden state between calls: `strtok`'s pointer, `extended` and the modifier
  flags, the flags of a printf directive, the word an 8259 waits for;
* order in time: handlers lagging behind the keys, gates set after masks, a
  memory map key that any allocation makes stale;
* error returns that each have to free something else, and failures that are
  not looked at;
* requests and replies that are lost, repeated, late, cut short or altered, a
  timeout that races the late answer, results in static storage that the next
  call of the stub overwrites;
* a server that is killed at any point and started again;
* arguments whose decoding stops in the middle, after some were allocated;
* things that have to happen eventually: the keyboard's next interrupt after
  the end of the last, kmain's way to its idle loop past every interrupt.

`PROJECT.json` lists these one by one, each at its line, with the properties
that would notice it going wrong.

## 2. The modules

A component's statics are one record, and its functions are operators from
that record to the next one, with the names of the source. That makes it
possible to use the same definition in two ways: as the body of an action in
the component's own specification, and as part of a larger uninterrupted
handler in `Kernel`.

**Vga.** `con` holds `tx`, `ty`, the cells of the whole VGA window (visible page
and what lies behind it) and the cursor registers. `putc` is the whole function
with wrap, scroll, cursor, store and increment, in that order; `vga_scroll` is
memmove, memset and `ty`. `clrline_y` clears half a row, as the code does: it
passes `WIDTH` bytes for a row of `2 * WIDTH`, and it takes any row, since the code
does not check it. The page starts blank and the memory behind it with anything.
**Teletype** is the promise: a
roll of paper that grows at the end. **VgaTeletype** adds the history variable
`gone`, the lines that have scrolled off, so that `gone` followed by the rows of
video memory is the paper.

**Keyboard.** `keyboard(k, sc)` is the handler on the two tables of the source.
Around it, marked external, is the keyboard with its 0xE0 prefixes, release
bytes and repeats, and a wire from which the handler takes bytes later than
they were sent. `Ideal` states which calls a driver should make for an event.
`Misread` lists the events this driver reads differently: one Shift released
while the other is held, Caps Lock repeating, a keypad arrow after an extended
key that is no arrow. Once one has happened (`odd`) only `ShiftNeverStuck` is
still claimed. `KeyboardAssumption` is what scan code set 1 guarantees: codes from
1 to 127 without 96, whose release byte would be the prefix 0xE0, and a Backspace
that has no prefix.

**LibString, Words, Tokens.** The string functions on memory that is a function
from indices to characters; a loop over characters is the first index at which
its condition fails. `Words` says what words and numerals are without loops: a
word starts at a character that is no space after one that is, the n-th word is
the one with n - 1 starts before it, and the value of a numeral is an unbounded
number, capped at the end. `Tokens` is a caller that takes tokens and converts them.

**Shell.** One action per branch of `kcallback`. Reads that leave an array
return what the parameter `e` says lies there; `overrun` remembers that this
has happened, or that `shellptr` has wrapped. `ShellAssumption` says that the sizes
are at least 1, that characters and the two command words are what C strings can
hold, and that memory outside of the arrays holds characters and bytes. **LineEditor** is the promise in
terms of lines and words. Arrow keys are outside of that promise: their release
calls back with no flag set, and the shell then appends a NUL to the line.

**Kernel** composes the three. The handler is one step. kmain goes in steps of
one access to shared state: the test of `tx`, the move to column 0, the row, each
read and write of memmove and memset, the two reads for the offset, the store,
the increment, and each byte of `shell_init`'s memset. `tx` and `ty` are not
volatile: an increment may write back a value that was read before the
interrupt. gcc with the flags of `arch/i386.conf` does this for `tx++` and for the
`ty += 1` of a line end, and increments in place for that of a wrap; the model
allows both everywhere. It also takes gcc's order for the offset, `tx` before
`ty`. The reads and the four port writes of `cursor` are one step: no property of
`Kernel` is about the cursor registers. Three variables only remember: `early`, that a
key of the current line came before `shell_init` had returned; `back`, that kmain's
`ty += 1` wrote a row above one that the handler had reached meanwhile; `wide`, that
the line has outgrown what the console can redraw (it fills its row, holds a line
end, or was erased from past the half row that `clrline` clears).

**I386Init.** `arch_init` is a sequence of gates, port writes, `lidt` and `sti`,
executed one per step, against external models of the two controllers that
count the initialisation words as the hardware does. Devices raise lines
at any time.

**Divmod, Printf.** `divmod_u64` with the width of its divisor kept: `Shifts`
gives the numbers of shifts after which the first loop may end, none if it does
not end. `Printf` reads a format character by character as `vprintf` does and
stops in "hung" or "overrun" where the code would loop or leave its buffers.
Arguments are machine words of `WORD` bits: an int, a long, a size_t and a pointer are
one, a long long is two where it is longer than a word. `va_arg` takes the words of
the type the code names (`Bits`, `Slots`, `Taken`), whatever the caller has passed, and
behind the last argument finds what is on the stack there (`above`). `Texts` says which
words are character codes and strings; `%s` of any other word stops in "wild", `%c` of
one prints some character. The digits are what the loop of `__int_str` leaves in `buf`,
of `LONG + 1` places (65), before sign, pad and the copy into the buffer of `BUF` (256).
`PrintfMC` builds formats from directives, so that the meaning of a format is
known without parsing it; the proofs make no use of that and are about any
sequence of `Characters`.

**ElfLoader.** `load_elf` step by step, each call of the firmware able to fail,
memory as a function from addresses modulo `TOP`, segments, dynamic section
and relocations as in the file. Files are `WellFormed`: what a linker makes, where
the segments of a position-independent kernel do not overlap and its relocations lie
inside of them. **Acpi** holds the table search and `find_uart`
as pure functions; **EfiBoot** is `efi_main`. The firmware's memory map is a
version, which is also the key, and a number of descriptors; every allocation
changes both. Configuration tables hold at most one ACPI 2.0 entry, since the
firmware replaces an entry whose GUID is installed again; with two of them the
search would stop at the first.
Where the code goes on with a pointer whose allocation it did not
check, the model stops in "wild".

**Uart.** FIFOs are fill levels. kmain's `uart_putc` and `uart_getc` are two steps
each, the test and the access; the handler runs in between and always to its
end. The interrupt controller delivers nothing more until an acknowledged
interrupt is ended, which this kernel never does.

**Nfs4Types, Xdr.** The 229 routines of `prot_xdr.c` have three shapes: calls in
order that fail with the first failure, a switch on a discriminant, or one call
of a library routine. `Nfs4Types` is these routines as tables under the names of
the source, with the arms, the order of fields and the limits of lengths taken
from it line by line. `Xdr` is the library's side: a handle walks a value by the
table and encodes it to, or decodes it from, a stream of words, or frees it. A
value is the sequence of the parts that steer the walk (discriminants, lengths,
pointers); all other data is one word, `DATA`. Memory that decoding allocates is
named by the place of its pointer in the value. A walk takes at most 8 `MaxWalk`
calls; an action that decodes happens only when its walk has come to an end.

**Nfs4Rpc** is a client that calls the stubs, the server with its `main` and its
two dispatch functions, the portmapper and a network over which requests and
replies are lost, repeated, delayed, shortened and altered. The server may be
killed in any state and is started again. Values are chosen part by part while
they are walked: the plain choice is free, any other (a longer list, a boundary
length, another arm of a union) costs one of the `odd` parts of the behaviour's
scope, as a fault costs one of its `faults`. Attributes, which the protocol
carries as opaque bytes, are packed and unpacked with the routine of their type,
as the two sides of GETATTR and SETATTR have to do.

Definitions named `X_Something` directly above `X` are mutants: what the code
would look like with a plausible slip in it. They are used only to see that the
properties notice.

## 3. The runs

`tlc -config <cfg> <module>` for each.

| Run | Module, cfg | Distinct states | What it shows |
|---|---|---|---|
| vga | `VgaTeletype`, `VgaTeletype_run.cfg` | 349,232 | in any order of calls: no cell behind the page changes, whatever it holds, unless clrline_y is given a row there (`StoresOnPage`), the position is one putc can continue from (`OnPage`), the hardware cursor follows every putc (`CursorAfterPutc`), and the console is a teletype (`ImplementsTeletype`, a refinement) |
| tokens | `Tokens`, `Tokens_run.cfg` | 295,482 | the tokens are the words (`TokensAreWords`), only ending delimiters are overwritten (`CutsOnlyDelimiters`), strtoul saturates and never wraps to a small address (`StrtoulSaturates`) |
| keyboard | `KeyboardMC`, `Keyboard_run.cfg` | 215,054 | every keystroke is delivered once, in order, with the modifiers held when it was struck (`KeystrokesDelivered`), flags follow keys (`FlagsFollowKeys`), Shift never sticks (`ShiftNeverStuck`) |
| shell | `ShellMC`, `Shell_run.cfg` | 261,986 | buffers and lengths agree (`BuffersMatchLengths`), strings end inside their arrays (`LinesTerminated`), a recall brings back at least the command entered (`HistoryRecallsLine`), and buffers, strtok and strtoul implement the line editor (`ImplementsLineEditor`, a refinement) |
| kernel | `KernelMC`, `Kernel_run.cfg` | 679,435 | kmain preempted anywhere: stray stores stay in the row below the page (`StrayStoresBounded`), the position recovers (`IdlePositionOnPage`), a line is intact after the first Enter (`LineIntact`), the screen shows what Enter will run (`EchoIsLine`), kmain becomes idle (`ReachesIdle`) |
| i386_init | `I386Init`, `I386Init_run.cfg` | 2,422 | every interrupt taken has a gate (`DeliveredHasGate`), the keyboard's is served (`KeyboardServed`) |
| efi_elf | `ElfLoaderMC`, `ElfLoader_run.cfg` | 13,201 | both pools are freed on every path (`PoolsFreed`), writes stay in allocated pages (`WritesOwned`), the image is the linked one (`ImageLoaded`) |
| efi_boot | `EfiBootMC`, `EfiBoot_run.cfg` | 795,891 | the kernel gets the map the boot services were left with (`HandOver`), the loader gives up only for a cause (`ReturnsForCause`), the newest description of the serial port wins (`NewestUartUsed`) |
| printf | `PrintfMC`, `Printf_run.cfg` | 64,172 | output is what the directives mean and each takes the words passed for it (`PrintsAsMeant`), fields fit their buffers (`FieldsFit`), no int hangs the division (`NeverHangs`) |
| uart | `UartMC`, `Uart_run.cfg` | 3,652 | the handler never waits (`HandlerNeverSpins`), at most one character is lost (`LossBounded`), two keys get past the prompt (`KeysEndPrompt`) |
| nfs4 | `Nfs4RpcMC`, `Nfs4Rpc_run.cfg` | 575,461 | the procedures get what the stubs were given (`ArgumentsArrive`), a stub returns the answer to this very call or NULL (`ResultIsAnswer`), nothing decoded stays allocated (`ArgsFreed`), no request ends the server (`NeverDiesServing`), a killed server starts again (`StartsAgain`), in every operation of a compound lengths keep to their limits and what is to be looked at is allocated (`ArgumentsUsable`) |
| printf_long | `PrintfMC`, `PrintfLong_run.cfg` | violation | see 6 |

Deadlock is not checked: each system may stop. Calls, interrupts and key
events are bounded, kmain's idle loop is a state without steps, and the loader
ends in "kernel", "returned" or "wild"; starts of the server and calls of the stubs
are bounded.

### Bounds, and why they are enough

* vga: 3 columns, 2 rows, one cell of memory behind the page, which holds a NUL or
  a character, 2 lines scrolled off. The first cell behind the page is the one that a
  store or a memset one too far reaches, and the row of it that clrline_y may be given. Two scrolls in one putc (a wrap and a line end) happen; the bytes of the
  cursor registers count to 4, so the high byte is used.
* tokens: every line of up to 5 characters over tab, space, minus, 0, 1, 9, a
  and x, bases 0 and 16, `MaxULong` 15: two words, prefixes, signs and numerals on
  either side of the limit.
* keyboard: nine keys with each role (letter, both Shifts, Caps Lock,
  Backspace, an arrow, its keypad twin, an extended key that is no arrow, a key
  past the tables), 5 events and 4 bytes on the wire; the longest of the
  misreadings takes 3 events.
* shell: buffers of 6, 2 lines of history, one-letter command words, 7 calls:
  both arrays are filled and passed, and a poke with both arguments fits.
* kernel: 4 columns, 6 rows, buffers of 4, a greeting that wraps and ends its
  line, 3 interrupts among a letter, Enter, Backspace and its release. Three are
  enough to type early, enter and type again, and to strike in one putc at the
  test, between the reads and before the store. With six rows kmain can set the row
  back above text that the handler has left, which on a page of two rows has always
  scrolled off; a line of 2 characters is already past the half row, so that the
  guards `back` and `wide` of `EchoIsLine` are both needed here. With 2 rows and 4
  interrupts the properties hold too (565,532 states).
* i386_init: the timer, the keyboard and the last line of the master, two lines
  of the slave, 4 lines raised.
* efi_elf: 18 addresses in pages of 2, all pairs of segments that do not overlap
  in the range, relocations in data and bss, incomplete dynamic sections.
* efi_boot: a slack of 2 descriptors and allocations that add 0, 2 or 3, so that
  the slack holds exactly or fails; one or two configuration table entries.
* printf: an int of 8 bits, a long long of 16, words of 8 as on i386 (where a long long
  takes two), buffers of 20; all single directives over the edge values, pairs of
  directives with and without a literal between, unsigned longs alone and in front of
  one and two others. `printf_long` has words of 16, as on AArch64.
* uart: FIFOs of 2, 3 keys, texts below, at and above the FIFO.
* nfs4: every operation, and every attribute, with up to two unusual parts, so
  that each arm of each union and each limit of a length is met, and with one
  fault; two calls of different stubs with two faults between them, so that a
  late reply meets the next call; the server started twice. File handles of at
  most 4 bytes and owners of at most 8: below, at and above the limit by a byte,
  a padding or a word. `MaxWalk` is 12: no walk of this run is longer than 96
  calls, so that none is cut off. A request differs from what a stub sent in one word, which
  becomes 0, 1, 2 or 5, or ends early.

## 4. Fairness

* `Kernel`: weak fairness of `Main`, kmain's next instruction. The processor
  resumes kmain after each `iret`, kmain never blocks, and the number of
  interrupts is bounded.
* `I386Init`: weak fairness of `Step` (arch_init's next operation), `Accept` (a
  processor with interrupts on takes a pending one) and `Keyboard` (the handler,
  which does not wait, returns).
* `Uart`: weak fairness of `Main` and `Handler`, whose next steps are enabled
  exactly when the busy loops would exit, and of `Drain`: the port keeps sending.

Keys are never fair: nobody has to press one. `Nfs4Rpc` has no fairness: that a stub
returns at all is a promise of the library's timeout, not of this code.

## 5. The proofs

`tlapm <module>` for each; 8 modules hold theorems. They hold for every value of
the constants that satisfies the module's assumption, and each assumption is
evaluated by TLC for the values of the runs.

**ConsoleProofs**, the text console, from `VgaAssumption` (at least 2 columns and 2 rows, a window that
holds the page): `CursorOnPage` (`TypeOK` and `OnPage`), `NoStrayStore`
(`StoresOnPage`), `CursorFollows` (`CursorAfterPutc`) and `ConsoleIsTeletype`
(`ImplementsTeletype`). Inside a call the row may be `HEIGHT`, so the lemmas are about
`Good` console records (of the right type, column at most `WIDTH`); each says that its
function preserves that and leaves what is `Beyond` the page as it was. The inductive
invariant is `Good(con)` together with the row being on the page, since `StoresOnPage`
alone says nothing about where the next store goes. `CellBound` is the one place with nonlinear arithmetic. For
the refinement each function is rewritten as what it does to the rows of the page
(a store changes one cell of one row, a scroll moves the first row to `gone`), and
putc as a wrap, a line end and a store in that order, of which any may scroll.

**ShellProofs**, from `ShellAssumption` and `TokensAssumption`, proves what the
runs shell and tokens check.
The first part is about the string functions alone. Least elements and induction
over indices come from the well-foundedness of `<` (`MinIsLeast`, `Induction`), and
strtoul's loop, a fold over the characters, is compared with the numeral's value
one digit at a time: `StrtoulExact` (`StrtoulSaturates`) says that the test against
`cutoff` and `cutlim` is exact for every limit, base and string.
`TokensEnumerateWords` (`TokensAreWords`) and `OnlyDelimitersCut`
(`CutsOnlyDelimiters`) rest on `Scanned`, which says what a sequence of calls of
strtok leaves: NULs only over spaces that end a word before `olds`, and `olds`
between two words. That is what makes the next call find the next word.

For the shell, `StaticsWellFormed` (`TypeOK`), `LengthsInStep`
(`BuffersMatchLengths`), `StringsEnd` (`LinesTerminated`) and `RecallsEnteredLine`
(`HistoryRecallsLine`). A command only ever turns characters into NUL, and never
before the end of the first word, so the line copied to the history is blank
wherever the line was and still starts with the command. The invariant `IInv` is
the type of the statics together with "buffers are blank from their length on, and
each row of the history is a prefix of what was entered there, unless an index has
left its array"; the type is needed because lengths are used as indices.

`ShellIsLineEditor` (`ImplementsLineEditor`) adds to `IInv` that the line holds no
NUL before its end while no arrow key was used (`RInv`): then the characters
before `shellptr` are the editor's line (`ShownIs`), typing and erasing change
both alike, and on Enter the tokens a command takes are the words of that line
(`Answered`, `CommandRuns`), whatever strtok has cut meanwhile.

**KeyboardProofs**, from `KeyboardAssumption`: `ShiftComesBack` (`ShiftNeverStuck`),
`FlagsAreKeys` (`FlagsFollowKeys`) and `EveryKeystrokeDelivered`
(`KeystrokesDelivered`), for any number of keys and events and a wire of any length. What
the handler has not yet read decides what it will do, so the invariant looks
ahead (`LooksAhead`): reading the bytes on the wire from the handler's present state
would end with the flags of the keys that are down, and would make the calls
that are still due. A step of the handler moves along that reading, and an event
appends its bytes at the end of it; what a prefix or a break byte does is proved
for each kind of key.

**I386Proofs**, from `I386InitAssumption`: `EveryInterruptHasGate`
(`DeliveredHasGate`), whatever lines are raised at whatever step. `Program` gives the
45 operations of `arch_init` by position; the invariant says for each position
which word the master waits for, and from the mask on what it masks
(`Programmed`). Once interrupts are on only line 1 can come through, whose gate is
the one set just before. The slave's state does not matter, since the cascade line
is masked, which is the reason the second ICW4 going to the wrong controller
does no harm.

The same module, from `KernelAssumption` (2 columns and 2 rows at least, a window
of two rows more than the page, texts that are strings, a greeting that ends its
line), proves of kmain under interrupts `StoresNearPage` (`StrayStoresBounded`),
`IdleIsOnPage` (`IdlePositionOnPage`), `LineStaysIntact` (`LineIntact`) and
`ScreenShowsLine` (`EchoIsLine`), for any number of interrupts between any two
accesses. `ConsoleProofs`' `Good` is not invariant here: a stale `tx` can put the column at
`WIDTH + 1`, and a row of `HEIGHT` is there for the handler to find. The console is
`Loose` instead (column at most `WIDTH + 1`, row at most `HEIGHT`, cells from `Bottom` on
blank), and a handler that finds it so leaves it `Kept`: still loose, and no worse in
either coordinate. This is shown for each console call, then for `puts` and for a
handler's whole list of calls by induction on their recursions (`PutsKept`,
`ShownKept`, `HandlerKept`). `Bounded` gives, for each point of kmain's putc, what
`tx` and `ty` may be and what the registers copied from them may still say; it is
what makes the store at a stale offset stay above `Bottom`. For the line, `SInv` says
that the buffer is text up to `shellptr` and NULs from there (`Whole`), unless a key came
early, and that before kmain is idle such a `shellptr` is 0, so that `shell_init`'s
memset, byte by byte, does not cut anything.

`ScreenShowsLine` builds on both. Its invariant `EInv` has three parts. `Behind`: as
long as kmain has not set the row back, the page is blank below the row of the
position, but for the first cell of the next row, where a store at a stale offset
may land; for each point of kmain's putc it says how far a register may lag. That is
what makes the row blank that the next prompt goes to. `Quiet`: as long as no key
has called back, kmain's putc in pieces is Vga's putc (`Pieces`), so that the
greeting ends at column 0 (`Greets`) and the prompt is whole (`Prompts`). `Echoes`: once
kmain is idle, the row shows the prompt and the line, unless a guard of the
property holds. The handler's side is one lemma per key (`EnterShows`, `TypeShows`,
`EraseShows`): Enter reaches a clean row whatever was there before, which is why an
early key, or a line that has outgrown its row, spoils only itself.

**ConsoleProofs**, the serial port, from `UartAssumption` (sizes and levels at least 1, the trigger
level within the FIFO): `GetcInHandlerReturns` (`HandlerNeverSpins`) and
`OneCharacterLost` (`LossBounded`). The first invariant adds that a raised receive
interrupt means a FIFO at the trigger level or above, which kmain's own reads keep
true by withdrawing it. The second (`LossInv`) says that a test for room is still
true when its write comes unless the handler ran in between, and that the handler
runs once, because an acknowledged interrupt is never ended.

**PrintfProofs**, from `DivmodAssumption`, `PrintfAssumption` and `CharactersAssumption`
(a long long has more bits than an int, a word has as many as one of the two, an int
holds every base, a character and a short are no wider than an int, the digits of a long
long with its sign fit `BUF`, formats are sequences of characters without the
terminator): `DivisionExact`, `ShiftsEnd` (`NeverHangs`) and `BuffersHold`
(`FieldsFit`), for every format and whatever words it finds for its arguments.

* Powers of 2. The provers know nothing of exponents; that `2^(n + 1)` is twice `2^n`
  is derived from the library's `FS_SUBSET`, the number of subsets of a finite set. (The
  library states that fact; its own proof file takes the arithmetic step for granted.)
* The division. A base that the scanner asks for, 8, 10, 16 or 17, has at most two
  bits, so a divisor that overflows is never larger than `2^(INT - 1)`, which one of
  its earlier values has reached already: the least shift that ends the first
  loop comes before any overflow (`Wraps`, `Top`, `LeastShift`). Below that, each turn of
  the second loop halves the divisor and keeps number = quotient times base plus
  rest (`Halve`, `TurnStep`). So the division is exact whenever it ends, for a long too.
* The digits. The recursive functions of `Divmod` and `Numerals` are shown to exist
  and to be unique by `Induct`, induction for a set. Each division takes at least
  one bit (`BitsLeft`), so there are at most `LONG` digits; sign and digits fit `buf`,
  and the padded text is as long as the wider of the width and the digits.
* The scanner. Whatever the format, `Scan` gives a record that `IsDirective`
  describes: a base of the four, a number for a width, a place inside the format or at
  its end, and no argument given back. What `va_arg` takes is a number, also behind the
  last argument, and the variable it goes to has the bits of one of the types (`TakenIs`,
  `ValueIs`). The inductive invariant `IInv` adds to the two properties that the places in
  the format and in the argument list are positive and that the call is one of `Calls`,
  whose formats are sequences of characters.

**EfiProofs**, from `EfiAssumption` (a slack and growths that are natural numbers,
well-formed configuration tables): `MapIsCurrent` (`HandOver`), `GivesUpForCause`
(`ReturnsForCause`) and `KernelGetsNewestUart` (`NewestUartUsed`). The invariant ties
three versions together: while the key is the firmware's, a map that fits is in
the buffer (`MapHeld`), and the key is the firmware's unless there is a cause to
return or the slack was used up (`KeyCurrent`); neither property mentions the
steps between taking the map and leaving, where this has to be kept. The third
says where the search of the tables ends; it is false for two ACPI 2.0 entries of
which only the second leads to the table.

**ElfProofs**, from `ElfAssumption` (pages divide the address space, files are
well-formed): `BuffersFreed` (`PoolsFreed`), `WritesOnlyOwned` (`WritesOwned`) and
`ImageIsLoaded` (`ImageLoaded`), wherever the firmware places the pages. One
invariant says for each step of `load_elf` which buffer is alive, which is what
makes each error return free the right one. The other (`LInv`) says that the pages
of a kernel that is moved cover all its segments, addresses taken modulo `TOP`, and
that the segments before the loop's counter are loaded and stay so: since segments
do not overlap, neither do their images, also where one wraps around.

**Nfs4Proofs** proves all six invariants of `Nfs4Rpc`, for all limits and scopes, any
number of calls and starts, and any messages lost, repeated, delayed or altered.
`CanRestart` (`StartsAgain`) takes no assumption on constants. The invariant `Room`
says that what `main` still has to register is not mapped, unless unmapping failed:
the two `pmap_unset` make it true, and each registration takes away exactly what it
maps.

The other five are from `LimitAssumption` (the limits of lengths are numbers, the
named ones below "no limit"), `WalkAssumption`, `RpcAssumption` and `ScopeAssumption`
(scopes name stubs and attributes that exist). They say what the 229 routines
compute, in four stages:

* The tables. Every routine of `Nfs4Types` is well formed (`Shape`): the routines
  it calls exist, and a union of a Boolean has both arms and no default. This is
  shown part by part of the table (`...Names`, `...Shaped`).
* The walks. What `Run` computes is `Walk(x)[n]`, a function of the number of calls of
  `Advance` (`RunIsWalk`), and a property of all its values is shown by
  induction over the set of numbers that have it (`Induct`); each kind of routine
  gets one lemma for encoding, decoding and freeing (`StepEncode`, `StepDecode`,
  `StepFree`). Decoding and freeing a value go `Together`: they come to the same routine
  with the same parts, and what is still on the heap of the one that frees was
  either not yet decoded or is still to be released. So freeing does not fail and
  nothing is left (`FreesDecoded`). Decoding and encoding go `Alike`: whatever is
  encoded later, decoding the words so far takes the same parts and comes to the
  same routine (`Follows`), so that a value that could be encoded is decoded as it
  was (`DecodesEncoded`).
* The system. The inductive invariant `Delivers` says of each message under way, unless
  it was altered, that decoding it gives arguments some stub was given, or an answer
  some procedure gave, for the same call and procedure; that no message is of a call
  not yet made, and that one of the call being waited for is of its procedure
  (`Timely`: this is what makes it safe to clear and reuse the static result); and
  of the server that its arguments and its heap are what decoding its request gives.
  From it follow `ArgumentsDelivered` (`ArgumentsArrive`), `AnswersReturned`
  (`ResultIsAnswer`), `ArgumentsFreed` (`ArgsFreed`) and `ServesOn` (`NeverDiesServing`).
  TLC has checked the invariant, without the conjuncts `Follows`, on the run.
* What the procedures find. `GivesUsable` (`ArgumentsUsable`) is about every part of the
  arguments, in every operation of a compound. A walk over them that frees goes
  `Together` with the one that has decoded them, call by call (`WalkTogether`), so each
  length, pointer or discriminant it comes to was looked at by the same routine when it
  was decoded, and passed its test; later calls of the decoding neither change it nor give back
  what was allocated for it (`DecodePrefix`, `DecodeHeap`). Which test that was for a
  handle, an owner or a client id is in the tables: no name that has a limit is in
  two parts of them (`PartsOwn`), so that its routine can be looked up (`LimitRoutes`).

Only model-checked:

* liveness (`ReachesIdle`, `KeyboardServed`, `KeysEndPrompt`): the prover has no
  fairness and no `ENABLED`;
* `PrintsAsMeant` of `Printf`: it compares what a format prints with the items it was
  written from, by induction over the items, the characters of each and the powers of the
  base in each numeral. Induction over indices can be done, as in PrintfProofs,
  ShellProofs and Nfs4Proofs, for one concrete set at a time; the library's induction
  theorems take the statement as an operator, which the provers cannot instantiate.

## 6. What was found

`printf_long` shows the one disagreement that a run states: `divmod_u64` shifts a
32-bit divisor against a 64-bit number, and for numbers from 2^33 on (for bases 8
and 16 from 2^32 on) the divisor becomes 0 first and the loop at
`libk/stdio/printf.c:20` does not end (`%llu`, on AArch64 also `%lu`, `%zu` and `%p`), although the comment above it says the
divisor is shifted "until it is just less than or equal to n".

Facts about the code that the models contain, and that bound what the properties
can claim:

* `arch.c:59` (i386) sends the second ICW4 to the master; the slave takes its mask
  byte as ICW4 and stays unmasked. `DeliveredHasGate` holds because the master
  masks the cascade line.
* Keys struck before `shell_init` clears the buffer leave `shellptr` past the text
  (`shell.c:19`); this lasts until the next Enter.
* An interrupt between kmain's read and write of `ty` (`vga.c:46`) can set the row back
  above what the handler has printed; that text stays behind later prompts
  (`back` in `EchoIsLine`).
* `clrline` clears half a row (`vga.c:92`): erasing from a line of 40 characters or more
  leaves some of them on the screen (`wide` in `EchoIsLine`).
* The 256th character fills `shellbuf` without a terminator; Up with `histptr` 0
  and Down with 255 leave the history array.
* A recalled line is cut at its first space that ended a token, with the length
  of the whole.
* `%x` prints in base 17 (`printf.c:228`); it is outside `PrintsAsMeant`.
* `%lu`, `%lX` and `%lo` are read as `uint64_t` (`printf.c:259`). On i386 an unsigned long
  is one word, so they take the next argument as their upper half and leave every
  later directive one word off. `PrintsAsMeant` claims them only where an unsigned long
  has 64 bits (`Sound`); the run executes them as they are, and the proofs include them.
* `clrline_y` does not check its row (`vga.c:87-89`): from row 25 on it clears memory behind
  the page. `StoresOnPage` names this as the one exception; nothing in the
  kernel calls it.
* `uart_getc` of kmain may read an empty FIFO when the handler takes the character
  between its test and its read (`uart.c:74-76`); an interrupt before `arch_init`
  calls a `kcallback` that is not set; no interrupt is ever ended. The port's
  registers are not volatile: the waits work because `arch/aarch64.conf` asks for
  no optimisation.
* `efi_main` does not look at three statuses, and does not retry
  `ExitBootServices` when the key is stale.
* The nfs4 server keeps no replies: a request that UDP has repeated is executed
  twice (`prot_svc.c:51`). `ResultIsAnswer` allows either answer.
* Arguments that could not be decoded are not freed (`prot_svc.c:47-50`); only a
  request that no stub has sent can be of this kind.
* The stubs' results are static: the caller has to use a result before it calls
  the same stub again (`prot_clnt.c:30`).

## 7. Not modelled

* Floating point conversions of printf: the kernel passes no doubles and TLA+ has
  none.
* The i386 boot sector: straight-line real mode code that ends with the image loaded.
* The riscv64 port: a polled putc and an empty `arch_init`.
* nfs4: the procedures `*_svc`, which the repository does not contain (they
  answer anything); the values of integers and byte strings; that a call ends,
  which is up to the RPC library.
* `uart_poll` and the string functions without a caller; the exception handlers,
  which print and stop; a serial port at base 0.
* The value `efi_main` returns after a failed `load_elf` (`main.c:401` returns a
  variable that was never set).
* `endptr` of `strtoul` (`strtoul.c:54-55`), which the shell does not look at; stores of
  `poke` outside the addresses that the model of the shell keeps (`Addr`).
* The line that ICW3 names, and spurious interrupts of the controllers; the writes of
  `uart_init` to the line control and control registers (`uart.c:22-25`), which is one step.
* That the server is killed between `main`'s two calls of `pmap_unset` (`prot_svc.c:110-111`):
  they are one step, of which each may fail.
* The CRTC's index and data ports being separated by an interrupt: the cursor is
  misplaced until the next putc.

External, modelled from how the code uses them: the 8259 controllers, the PS/2
keyboard and its controller, the PL011 and 16550, the GIC, the UEFI boot services, the RPC and XDR library, the
portmapper and the network.

## 8. Plan

The order was: console, strings, keyboard, shell, their composition under
interrupts, start-up, the loader, printf, the serial port, the nfs4 target; then the
proofs of each component and of kmain under interrupts, as section 5 has them. Next:

1. `PrintsAsMeant` of `Printf`, on top of `DivisionExact`: that the digits of a number
   are its numeral in the base, then that `Scan` gives back a sound directive's parts.
2. Models: uart_poll and the port at base 0, the remaining string functions
   against references, and the boot sector's disk reads if they gain error
   handling.
