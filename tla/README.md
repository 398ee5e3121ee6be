# Verification of the DE2-115 PC: an 8086 core and its system on chip

The repository reimplements the Intel 8086 CPU and the IBM PC around it on a
Terasic DE2-115 board.  Most of it is hardware: VHDL and SystemVerilog, one
clock for almost everything, components that talk over valid/ready streams.
Beside the hardware stands C: a reference 8086, with the bench that compares
the simulated core with it instruction by instruction, and a game that runs on
the core.  This directory keeps the formal model of both: TLA+ modules
translated from the sources, TLC configurations that check them on small
instances, and proofs that TLAPS checks for every size.

Contents:
[How the code is modelled](#how-the-code-is-modelled) ·
[The system and its parts](#the-system-and-its-parts) ·
[The modules](#the-modules) ·
[The runs](#the-runs) ·
[Fairness](#fairness) ·
[What is proved](#what-is-proved) ·
[What the checks found](#what-the-checks-found) ·
[Not modelled](#not-modelled) ·
[Plan](#plan)

To check a run: `tlc -config FrontEnd.cfg MCFrontEnd` (each configuration and
its module are paired in `PROJECT.json` under `runs`).  To check a proof:
`tlapm AxisProofs.tla`.

## How the code is modelled

The hardware (`src/rtl`):

* **One step is one rising clock edge.**  A component's registers are its
  VARIABLES; its processes become operators that define the registers' next
  values from the wires of the present cycle; its wires (concurrent
  assignments) become operators without primes.  A module's `Next` has every
  register of its component in one conjunction, exactly as the edge has: the
  concurrency is inside the step, and the nondeterminism is in the inputs
  (when a neighbour is ready, when memory answers, what the program is).
* **A valid/data pair is a sequence of at most one word**, `<<>>` when valid is
  low.  A ready input is a Boolean chosen at every edge when the neighbour is
  not part of the module.
* **Data are abstracted to what the properties tell apart.**  An instruction
  word is its address; a byte of memory is the number of the request that wrote
  it; a register's value is the name of the result that it is (`<<2, "alu",
  1>>`: what the ALU makes of the first micro-operation of the second
  instruction); an answer of the SDRAM is the port that asked for it.  A
  property about data then says *which* value is where, for all values at once.
* **Reset** is the initial state.  Where a jump resets a part of the pipeline
  (`exec_resetn`), the reset is part of the model's step.  The skid buffer and
  the FIFO may also be reset at any edge.
* **A ready that the code leaves unconnected is not in the guard.**  What the
  code takes for granted is then a property of its own (room in a queue, an
  answer at the head of it), never an assumption.

The C programs (`src/tbs/cpu86`):

* **A processor is a value.**  `struct e8086_t` is a record, and every function
  of the emulator that changes it is an operator from the record before to the
  record after.  One step is one call of `e86_execute`, or one call of the
  bench.  Bytes and words are numbers with their width (`% 256`, `% 65536`).
* **Memory is what was written.**  `ram` is a function on the addresses a
  program was loaded at or has written; every other byte is HLT, so that a
  program that goes astray stops.
* **A main program with interrupts** is a process whose steps are the pieces
  that no interrupt can tell apart: the game's `kbd_has_data` and
  `kbd_read_char` mask interrupts, and what lies between two of them touches
  nothing an interrupt touches.

In both:

* **Mutants.**  A definition commented "mutant" is a plausible mistake in the
  definition after it; it is used nowhere in the project.  `PROJECT.json` names
  for every property the mutants that break it.

## The system and its parts

Paths are under `src/rtl`, or under `src/tbs/cpu86` where the row says so.  A request of the program goes around two loops.
The *fetch loop*: `cpu86_fetcher` asks for words ahead of the program, through
the instruction cache and the memory interconnect; the words come back through
the fetch buffer to the decoder; the branch predictor passes decoded
instructions on and sends the prefetcher elsewhere.  The *execution loop*: the
register reader waits until the registers an instruction needs are valid and
locks those it will write; `ifeu` expands it into micro-operations; `mexec`
executes them on the ALU, the slow units and the load-store unit, and writes
back.  A jump found to differ from its prediction flushes everything between.
Both loops meet in the memory interconnect and go on to the mapper, the
on-chip RAM, the SDRAM arbiter (which the video controller shares) and the
SDRAM controller.  I/O goes over a second port to the devices, and the
devices' interrupt lines through `pic_lite` back to the register reader.

The bench (`golden_ref`) runs the reference processor beside a simulation of
the core: it loads a program, has the reference execute one instruction with
its prefixes and repetitions, and reports registers, flags and addresses to
the simulator.  The game (`snake`) is a main program that polls a keyboard
ring, moves the snake and halts the processor while it is paused; two
interrupt routines run between any two of its instructions.

| Component (files) | State | Operations | What makes it correct | Here |
|---|---|---|---|---|
| Skid buffer `utils/axis_reg` | two registers | accept, hand on, reset | a two-place queue under every valid/ready pattern | `AxisReg`, proved |
| Fall-through FIFO `utils/axis_fifo_fwft`, `axis_fifo_bram` | ring, RAM, bypass, output register | write, read ahead, bypass, reset | a bounded queue; no write under a word still being re-read | `AxisFifo`, proved |
| FIFO without bypass `utils/axis_fifo`, `axis_fifo_er` | ring, two output registers | the same | the same | queue view in `AxisQueues` |
| Prefetcher `cpu86_fetcher` | CS:IP, three counters, two FIFOs | request, take an answer, discard, jump | exactly the words of the present stream, in order; no more in flight than there is room for | `Fetcher`, `FetchStream`, proved |
| Instruction cache `cpu86_icache`, `axis_bram`, `cpu86_icache_rob` | lines, lookup stages, miss path, reorder buffer | look up, miss, fill, reorder | an in-order memory, although hits overtake misses | `ICache`, proved |
| Fetch buffer, decoder `cpu86_fetcher_buf`, `cpu86_decoder` | bytes left; state of the instruction being read | shift, decode a byte, emit | each instruction's bytes once; waits and locks that fit the micro-operations | waits and locks in `ExecuteKinds`; rest planned |
| Branch predictor `cpu86_bpu`, `cpu86_bpu_lifo` | items, return stack, output register | foretell, jump the prefetcher, learn | program order whatever is foretold | `Bpu`, `Speculation`, proved |
| Register reader, registers `cpu86_exec_register_reader`, `cpu86_exec_reg` | output register, lock pulses, lock counts, interrupt mode | wait, lock, stop the queue, insert an interrupt | no stale operand; interrupts only between instructions | `Execute`, `Interrupts`, proved |
| Issue and micro-execution `cpu86_exec_ifeu`, `cpu86_exec_mexec`, `cpu86_exec` | micro-operation, busy and wait flags, unit pipelines | expand, execute, write back, jump, flush | each result reaches its register or store once; a flush loses nothing older | `Execute`, `Interrupts`, proved |
| Arithmetic units `cpu86_exec_mexec_{alu,shf,bcd,mul,div}`, `axis_div_u` | pipelines, counters | compute | what the 8086 computes | latencies in `Execute`; values in the reference only |
| String and I/O unit `cpu86_exec_mexec_str` | machine of its own | MOVS … OUTS, REP | order of its reads and writes, interruption, count | planned |
| Data cache, load-store unit `cpu86_dcache`, `cpu86_exec_lsu`, `_lsu_fifo` | lines, request registers, tags, result slots | look up, split, issue, collect | reads return the last write, in order | `DataPath`, proved |
| CPU wiring, memory interconnect `cpu86`, `cpu86_mem_interconnect` | arbiter register, queue of ports | arbitrate, return | an answer goes to its asker | wiring in the composed modules; interconnect planned |
| Interrupt controller `soc/pic/pic_lite` | last line levels, mask, remembered requests, offer | remember, offer, acknowledge | no request lost, none twice | `PicLite`, `Interrupts`, proved |
| Memory mapper, on-chip RAM `soc/soc_mmu`, `on_chip_ram` | queue of turns, credits, results | route, credit, return in turn | answers in the order of requests | `SocMemory`, proved |
| SDRAM arbiter `sdram/sdram_interconnect` | request register, queue of ports | grant, return | an answer goes to its port | `SocMemory`, proved |
| SDRAM controller `sdram/sdram_ctrl`, `sdram_input_efifo_module` | two machines, refresh counter, input FIFO, read pipeline | initialise, refresh, open, burst, close | commands follow requests and the chip's rules; refreshes in time | `SdramCtrl`, `SocMemory`, proved |
| I/O interconnect, UART, PS/2, timers, small devices `soc/*` | registers, FIFOs, bit machines | port accesses, shift in and out, count | a byte each way once; an interrupt per event | planned |
| SD card `sdcard/*`, `soc/ps_io_sdcard` | command and data machines | send, wait, receive, time out | a late or missing answer ends the command | planned |
| Video `video/*`, asynchronous FIFO `utils/async_axis_fifo*` | line buffers, Gray counters | fetch ahead, scale, cross clocks | no word lost between clocks | its requests in `SocMemory`; FIFO planned |
| Not instantiated: `pic_8259`, `pit_8254`, `cpu_reg_acc`; board wiring, vendor IP | | | | not modelled |
| Reference CPU `tbs: golden_ref/e8086` (`e8086.c`, `opcodes.c`, `e80186.c`, `flags.c`, `ea.c`, `pqueue.c`) | registers, flags, prefetch queue, prefixes, run state, request line | one instruction or one element of a repeated one; trap, request, reset | what the 8086 computes; interrupts leave no trace in the program | `E8086` and the modules under it |
| Disassembler `tbs: golden_ref/e8086/disasm.c` | none | decode the bytes at CS:IP | the lengths and targets that the execution has | `E8086Disasm` (text left out) |
| Reference bench `tbs: golden_ref` (`golden_ref.c`, `e8086_cpu.c`) | reported values, halted flag | load a test, execute, report | one report per instruction, tests that do not depend on each other | `E8086` |
| Snake `tbs: snake` (`main.c`, `kbd.c`, `kernel.c`) | keyboard ring, commands, body, board, screen | interrupt, read a key, move, eat, pause | no key lost or reordered; one whole snake, shown as it is | `Snake`, proved |
| Other bench programs and the simulator's side of the benches | | | | not modelled |

`PROJECT.json` lists the components file by file (`components`) and the places
in the code that tests hardly reach, line by line (`hazards`).  The behaviours
that make this system hard are few and recur everywhere:

* **No back-pressure on the way back.**  Answers of memory cannot be held.
  Every component therefore counts what it has asked for, and most leave the
  ready of their bookkeeping queues unconnected.
* **Bookkeeping a clock late.**  The lock of a register, the port of a read,
  an item of the predictor and the pop of the SDRAM FIFO are all written an
  edge after the decision they belong to.
* **Overtaking inside, order outside.**  Hits overtake misses in both caches;
  the two memories of the mapper have different delays.
* **Flushes.**  A jump must discard what is younger and lose nothing older,
  while requests are in flight in both loops.
* **Tagless waiting.**  `mexec` waits for "the next" result of a unit or of
  memory; nothing says whose it is.
* **One instruction, many executions.**  The reference executes a repeated
  string instruction an element at a time and keeps its prefixes between them;
  a trap or a request may come at each.
* **The same fact kept twice.**  Every function of `opcodes.c` adds up its
  own length, which the disassembler counts again; the prefetch queue is a
  copy of memory; the screen is a copy of the board.
* **State read early.**  IF is looked at when an interrupt is seen, and may be
  cleared by an instruction that is already past.

## The modules

### Buffers

`StreamFifo` is the abstract specification: a bounded sequence with an input
port, an output port, a word that is offered until it is taken, and a clear.

`AxisReg` is `axis_reg.vhd`.  `in_tready` and `tmp_tready` are its wires;
`TmpBuffer`, `OutReg` and `OutData` its processes; `Clock` an edge with reset
high, `Reset` one with reset low.  `in` and `out` record what the ports did on
the last edge.

`AxisFifo` is `axis_fifo_fwft.vhd` over `axis_fifo_bram.vhd`.  `RingClock` is
the counter, the addresses and the two valid/ready registers; `BramClock` the
bypass; `RamClock` the vendor's dual-port RAM (read returns old data, a stalled
read port keeps re-reading its cell while its output is waiting), external to
the repository and modelled from the parameters it is instantiated with;
`ResClock` the optional output register.  The RAM output is a wire of the RAM
register, so a write to the held cell *would* show: `HeldSlotNotOverwritten`
says that the early close of the ring prevents it.

`AxisQueues` has the same buffers as functions from contents before an edge to
contents after it (`FifoStep`, `FifoErStep`, `RegStep`), short enough to be
used by the composed modules.  That `FifoStep` and `RegStep` are exact, edge by
edge, is a property of the run `FrontEnd` and a theorem.  `FifoErStep` stands
for `axis_fifo_er` and `axis_fifo`, whose ring is the same without the bypass.

### Front end

`Fetcher` is `cpu86_fetcher.vhd`: `FetcherClock` takes the ready of memory, the
answer, the jump and the ready of the fetch buffer as arguments.  The three
counters, one of which (`skip_hs_cnt`) says how many answers of the streams
before are still to be discarded, are separate registers as in the code.
`FetchStream` joins it to `InOrderMemory` (any delay; also the specification
that the instruction cache implements), to a consumer that stalls, and to jumps
of both kinds.  Specifications that one module extends together have names of
their own: those of `FetchStream` start with `Stream`, those of `ICache` with
`Cache` (and the registers of its reorder buffer with `rob_`), those of
`Speculation` with `Path`.

`ICache` is `cpu86_icache.vhd` with its RAM and `cpu86_icache_rob.sv`.
`RamPort` is the two lookup stages with the bypass of a word written on the
edge of its lookup; `MissPath` the miss register, the skid buffer and the FIFO
of misses; `Rob` the reorder buffer, whose "full" output the cache ignores.
The store behind it does not change (see [Not modelled](#not-modelled)).

`Bpu` is `cpu86_bpu.vhd` with `cpu86_bpu_lifo.sv`; `Speculation` puts it
between a front end that follows the last jump it was sent and an execution
unit that takes instructions in order, resolves jumps and takes interrupts.

`MCFrontEnd` joins the three, and a chain of the two buffers, to one run: in
each behaviour one of them runs (`part`) and the others keep their reset state.

### Interrupts

`PicLite` is `pic_lite.sv`: `PicClock` is edge detection, mask, remembered
lines, the offer of the lowest line and the acknowledgement.  `Interrupts`
joins it to the part of the pipeline that an interrupt goes through:
`RegisterReader` (it stops the queue, waits for quiet, puts the
interrupt in the place of the next instruction), `Issue` (`ifeu`:
micro-operations and acknowledgement), `Execute` (the flags writes of `mexec`
and the jump) and `Flags` (`cpu86_exec_reg` of the flags).  Instructions are
reduced to twelve kinds by what they do to this path.  REP with CX = 0 makes the
reader skip the next instruction (`skip_next`); a program has a string
instruction or one more prefix there, since REP before anything else has no
meaning on the 8086.  `rr_tdata` is the reader's
output, `unpaid` the history of a skipped instruction that has locked the flags, `exec_jump` the `event_jump` of `cpu86_exec`; the specification's own
names start with `Intr`, so that `PipelineProofs` can extend it together with
`Speculation`.

### Data path and execution

`DataPath` is the data cache (`Cache`), the load-store unit (`Issue`: the
request, the second half of a word that lies across two cells, the tags;
`Results`: assembling the halves), the result slots (`ResultSlots`) and a
memory of bytes with free delays.  A history variable, `program`, is the memory
as a processor without delays would have it.

`ExecuteKinds` is the table of thirty-two kinds of instructions and a NOP: what
each waits for and locks (the decoder's tables), the micro-operations it becomes
(`ifeu`; an operator per procedure, from a micro-operation to one with its
fields set), and, derived from these, the value each register and each store is to
get.  `Execute` is the pipeline that executes them: `Reader` and `Expand` (register reader
and `ifeu`), `AluStep` and `SlowStep` (ALU, and shifter, multiplier and BCD
unit with their latencies), `Count` and `Busy` (the results under way and what
`mexec` waits for), `Request` and `Memory` (stores that wait for their value,
the load-store unit as a queue), `WriteBack` (data registers shared between
results, the source of the flags), `JumpStep`, and `Flush` (the edge on which
`exec_resetn` is low).

### Memories of the system

`SdramCtrl` is `sdram_ctrl.v`: the refresh counter, the initialisation machine,
the main machine with every one of its states, the input FIFO, the read
pipeline, and the chip behind the pins, with the open row of each bank and the
clocks it must be left alone after each command.  `SocMemory` puts the arbiter
(`Arbiter`) and the mapper with the on-chip RAM (`Mapper`) before it.

### The reference processor

The layers follow the files.  `E8086Flags` is `flags.c`: the flags of an
operation from its operands and result.  `E8086Machine` is the state, memory,
the prefetch queue (`pqueue.c`), effective addresses (`ea.c`) and the trap.
`E8086Ops` has the instructions that move and combine data, `E8086Arith`
shifts, multiplication, division and decimal adjustment, `E8086Control` jumps,
calls, the stack, flags, ports, ENTER and LEAVE, BOUND, INS and OUTS, and `op`,
the table from the first byte to the function (with `e80186.c`'s
additions).  Each keeps the name of its function in C (`op_f6_06`), takes the
machine and returns the machine and the number of bytes to go on by.

`E8086` is `e86_execute` (`Instruction` is the loop over prefixes, `Executed`
what is looked at afterwards: the trap flag of before, then the request) and
the bench: `SetTest` and `CpuExec` are the calls that the simulator makes.
`E8086Disasm` is the disassembler as far as lengths and targets go, written
from `disasm.c` alone.

`E8086Checks` has the properties.  None of them looks at the definitions under
test: sums and products are those of unbounded integers, a decimal result is
that of the decimal digits, a shift is repeated shifting by one place, a
repeated string instruction is its block operation, a conditional jump is the
order of two numbers, an interrupted run is compared with the undisturbed run,
and a length with the disassembler's.

### Snake

`Snake` is the game: `Poll`, `Read`, `Play`, `Halt`, `Round` and `NewGame` are
the pieces of the main program, `Int8` and `Int9` the interrupts.  `kbd_isr`
writes to the ring without looking for room, as the code does.  The terminal
is `screen`: what the last character printed at each square is.

### How the modules are composed

    StreamFifo <== AxisReg, AxisFifo          (refinement: runs and theorems)
    AxisQueues <== AxisReg, AxisFifo          (edge by edge: run and theorems)
    InOrderMemory <== ICache                  (refinement: run and theorem)
    FetchStream    = Fetcher + InOrderMemory + jumps + consumer
    Speculation    = Bpu + front end + execution unit
    Interrupts     = PicLite + reader + ifeu + mexec + flags
    Execute        = ExecuteKinds + reader + ifeu + mexec + registers
    SocMemory      = mapper + on-chip RAM + arbiter + SdramCtrl
    E8086          = the reference processor + a device + the bench
    E8086Disasm   <=> E8086                   (lengths and targets: run)
    Snake          = main program + interrupts + keyboard

The pieces meet in named facts.  `FetchStream` shows `RoomForRequests` (at
most 15 requests under way); `ICache` assumes exactly that many less than its
slots.  `ICache` shows that it is an `InOrderMemory`; `FetchStream` assumes
one.  `DataPath` shows that reads are answered in order with the last write
(run and theorem);
`Execute` assumes an in-order load-store unit.  `Speculation` shows that
instructions are taken in program order; `Execute` assumes a program.

## The runs

Seven runs pass, and five state what the repository says of itself and the code
does not do (see [What the checks found](#what-the-checks-found)).  Deadlock is
checked in every passing run but `ReferenceCpu`: a clock edge is always
possible, and so is a tick of the game's timer, but the bench is done after its
last test.

A property with several conjuncts is one argument: what the whole needs is
named part by part in its module.  The type invariant of a component is a
conjunct of the invariant that needs it.

| Run | Instance | Distinct states | What holds |
|---|---|---|---|
| `FrontEnd`, buffers | a skid buffer feeding a FIFO of four slots with output register, two data values, reset at any edge | 17 thousand | the FIFO is a bounded queue (`ImplementsQueue`) and steps exactly as the composed modules assume (`StepsAsFifoStep`); no write reaches a held word (`HeldSlotNotOverwritten`); a stored word comes out (`FrontEndGoesOn`) |
| prefetcher | two segments, IP of 32 bytes, the code's own limit (4 words) and FIFO depths (16, 32), jumps into the middle of a word | 20 thousand | the consumer gets the words of the present stream, each under its own CS:IP (`DeliversStream`); answers, counters and tags agree and nothing overflows (`NoAnswerLost`); words keep coming (`FrontEndGoesOn`) |
| cache | two lines, five slots; two words of one line, or one of each | 143 thousand | the cache is an in-order memory (`ImplementsMemory`); each answer finds its miss and each request a slot (`AnswersHaveAPlace`); every request is answered (`FrontEndGoesOn`) |
| predictor | a branch, a call, a loop and a return that may be tampered with; two items, a return stack of one | 338 thousand | instructions are taken in program order whatever was foretold (`TakesProgramOrder`); no branch is remembered twice (`OneItemPerBranch`); instructions keep being taken (`FrontEndGoesOn`) |
| `Interrupts` | two lines, one of which is masked at times, or one line; string instructions with REP; twelve kinds of instructions in four programs | 106 thousand | flags are never read as valid while a write is coming, except behind an instruction that is certain to jump (`ScoreboardHonest`); an interrupt enters only between instructions and is acknowledged on the next edge at its own line (`EntersOnce`); waiters get the flags, and a request that stopped the queue gets in, but for the two cases of `InterruptsCli` and `InterruptsRepZero` (`NobodyWaitsForEver`) |
| `DataPath` | eight bytes, two lines, two tags, three slots, three requests: bytes, words, split words | 61 thousand | `ReadsReturnLastWrite`; valid lines are current, no tag and no slot is ever missing (`BooksAreTrue`); `ReadsAnswered` |
| `SocMemory` | two banks, two rows; both memories, two banks, or CPU and video | 740 thousand | each request reaches the chip once, in order, with its row open, the chip's rules are kept and refreshes keep up (`SdramObeys`); each answer finds its port, and its turn until a read of the SDRAM overtakes an on-chip read that is held back (`AnswersFindTheirWay`); `ReadsOfCpuAnswered` until then |
| `Execute` | every program of three instructions from three families of kinds, shifts of up to two places | 271 thousand | `OperandsAreCurrent`; `StoreCarriesItsValue`; each locked register gets its write and a flush loses nothing older (`NothingIsLost`); `InstructionsFinish` |
| `ReferenceCpu` | about nine thousand programs and their operands, with requests and single steps; every pair of three tests | 39 thousand | `ArithmeticIsExact`; pairs of instructions fit (`PairsFit`: sum and decimal adjustment, comparison and jump); `StringsAreBlocks`; `InterruptsAreTransparent` and `RequestsAreServed`; lengths and targets are the disassembler's (`LengthsAgree`); `QueueHoldsTheCode`; `ReportsTellOfOneMoment` and `TestsAreIndependent` |
| `Snake` | three by three squares, a ring of two bytes, four keystrokes, two meals | 350 thousand | `KeysInOrder`, also after an overrun; `SnakeIsWhole`; `ScreenTellsTheGame`; `NeverTurnsBack` but for pause and start; `KeysAreRead` |
| `DataPathOddWords` | as `DataPath`, four slots, words at odd addresses written too | | violated: `ReadsReturnLastWrite` |
| `ExecuteXchg` | XCHG with memory, and a store before it | | violated: `StoreCarriesItsValue` |
| `InterruptsCli` | one line; ALU instructions and CLI | | violated: `StopsAreServed` |
| `InterruptsRepZero` | no requests; ALU instructions and CMPS with REP | | violated: `LocksAreReleased` |
| `SocMemoryMixed` | the scene of `SocMemory` with both memories | | violated: `NoAnswerIsDropped` |

### The bounds, and why they are enough

*Depths.*  The ring of `FrontEnd` has four slots: it fills (three words), wraps,
and holds a word at the output while it wraps; larger depths are proved.
`FetchStream` needs no small depths: the limit of four words keeps its state
small.  `ICache` has five slots instead of sixteen, so that the reorder buffer
is full with four requests and its ring wraps; the FIFO of misses keeps its
depth of sixteen, which the reorder buffer never fills.  `DataPath` has three
slots, so two reads fill them, and a tag FIFO of depth five before a memory
that holds three reads: `DataPathAssumption` states the relation, which is what
the code leaves to the memory behind it.  `Speculation` has two items for three
resolved instructions, so that items are replaced while they are in use, and a
return stack of one, so that it overflows on every second round.  `SocMemory`
has the code's own credits (7) and depths (8 and 32).  Once an on-chip read was
overtaken, an answer may be lost and its turn stay in the queue for ever; from
then on at most two reads wait (`MaxReads`), and what is still claimed there are
the ports and the chip's rules.

*Times.*  `SocMemory` has a refresh every 14 clocks instead of 1563 and a
power-up of one clock instead of ten thousand.  The chip's own times are the
datasheet's as the controller counts them (`T_RP` 2, `T_RCD` 3, `T_RFC` 7,
`T_MRD` 3).  A shorter refresh interval is the harder case: a refresh
interrupts the machine in every state, and `RefreshesKeepUp` has less time.

*Lengths.*  Three requests in `DataPath` are a write that fills a line, a
second access that meets it and a read that looks; three instructions in
`Execute` are a producer, one that overlaps with it and a consumer.  Nothing in
`FrontEnd`, `Interrupts` and `SocMemory` bounds
the length of a behaviour.

*Data.*  Two data values, two words of one line, two lines with two tags, two
rows and two interrupt lines are the least with which the wrong one can show.

*Operands.*  `ReferenceCpu` has every operation of `ArithmeticIsExact` on the
operands at the boundaries of bytes, words and half bytes (0, 1, 0F, 10, 7F,
80, FF and the same for words) with carry set and clear, where the formulas of
`flags.c` change; shift counts up to 31 with 7, 8, 9, 15, 16 and 17, at which the
moduli of the code change; dividends on both sides of each overflow.

*Instructions.*  Every first byte, and every group with each of its operations,
is run with five forms of ModRM (register, two displacements, direct address),
and eighteen of them behind every prefix.  A program runs into the end of its
segment from every distance up to 26 bytes, and past the end of the RAM from
every even one up to 28 (from an odd one, the code reads a byte behind its
array).

*Interrupts of the reference.*  Fourteen programs of stack and string
instructions, with up to two requests, each before or after any instruction
and between any two elements; the string programs are single-stepped too.  The
second request may come during the handler of the first.

*The game.*  The ring has two bytes, and each arrow with its prefix is as long
as that, so that it overruns; the snake of five squares nearly fills the board,
so that it meets itself; two meals make it grow twice and change the level once.

*Shifts of the core.*  The shifter shifts a place at a time; two places (31 in the code)
are one more than "at once".

*Scenes and families.*  Where the product of all inputs is out of reach, a run
starts in one of several smaller worlds (`program` of `Interrupts`, `working`
of `ICache`, `scene` of `SocMemory`, `family` of `Execute`, `part` of
`MCFrontEnd`), chosen initially
and never changed.  What crosses two worlds is not checked: for example, a
shift followed by IRET, or the video controller while the CPU reads the on-chip
RAM.

### What the environment may do

The inputs are as free as the hardware leaves them, with these exceptions,
each of which is a fact about the neighbour:

* Jumps of the predictor need an instruction of the present stream, jumps of
  the execution unit one since its last jump (`FetchStream`).
* The instruction cache has at most `ROB_SIZE - 1` requests under way: what
  `FetchStream` shows of the prefetcher.
* Memory answers no sooner than two edges after a request, in order
  (`InOrderMemory`, `DataPath`).
* After a REP with CX = 0 comes a string instruction or another prefix
  (`NextKinds` of `Interrupts`, `repeated` in `ProgramsAssumption`).
* `DataPath` is run, and proved, without word writes to odd addresses
  (`NoOddWords` of `DataPathProofs`); `DataPathOddWords` shows why.

## Fairness

A clock edge is a step of the hardware, so the fairness of its modules is about its
inputs: the clock runs, and nobody outside says no for ever.

| Module | Fairness | Why the design has it |
|---|---|---|
| buffers (`AxisFifo`) | WF of an edge without reset | the clock runs, and reset ends |
| `FetchStream`, `ICache` | WF of an edge; WF of an edge on which memory accepts; SF of one on which it answers | the interconnect and the controllers accept and answer every request; the answer is strong because an answer may be enabled on alternate edges only |
| `Interrupts` | WF of an edge; WF of an edge with no stall from memory, registers or decoder | loads answer, other registers become valid (`Execute`), the decoder delivers (`Speculation`) |
| `DataPath` | WF of an edge on which memory takes and answers and the consumer takes | `SocMemory`; `mexec` takes what it waits for |
| `Speculation` | WF of an edge on which nobody stalls | the same |
| `SocMemory` | WF of an edge; SF of an edge on which the arbiter has room and the video controller asks nothing | the video controller reads ahead into a FIFO of its own and stops when that is full; port 0 has priority, so without it the CPU could wait for ever |
| `Execute` | WF of an edge on which the load-store unit takes, memory answers and the decoder offers | `DataPath`, `FetchStream` |
| `E8086` | WF of `e86_execute` | whoever drives the processor goes on calling it; written with `Runs`, which is when a call changes anything |
| `Snake` | WF of the main program; WF of the tick | the processor runs unless it is halted; the timer is free-running |

`MCFrontEnd` has the fairness of its four parts as one formula, which says the
same because only one of them runs.

No fairness is assumed of anything inside a component of the hardware.
`RequestsAreServed` leaves out a program that is being single-stepped (below).

## What is proved

The two buffers that everything else stands on, the prefetcher, the
instruction cache, the data cache with its load-store unit, the branch
predictor in its pipeline, the entry of interrupts, the execution pipeline, the
memories of the system and the game are proved correct for every value of their constants.

`AxisProofs` has the FIFO and, behind it, the skid register as the instance
`Reg` of `AxisReg`.  Of the skid register (assumption: none on the data):

* `SkidSafe`: types, and the skid register is filled only behind a full output
  register.
* `AxisRegStepsAsRegStep`: every edge is the `RegStep` that `ICache`,
  `DataPath` and `Bpu` use.
* `AxisRegImplementsQueue`: it implements `StreamFifo` with capacity two.

The inductive invariant is `Reg!TypeOK /\ Reg!SkidBehindOutput`.  Without the second
part the refinement mapping would put a word of the skid register before an
empty output register, and the next input word would overtake it.

Of the FIFO (assumptions: `DataAssumption`, there is some word;
`DepthAssumption`, at least three slots; `RegisterAssumption`, the output
register is there or not):

* `FifoSafe`: counter, addresses and the two ready/valid registers agree, and
  no write lands on the slot whose word still waits at the RAM output.
* `FifoStepsAsFifoStep`: every edge is the `FifoStep` that `Fetcher` and
  `ICache` use, or a reset.
* `FifoImplementsQueue`: it implements `StreamFifo`.

The inductive invariant `IInv` is

* `TypeOK`;
* `RingConsistent`: the write address is the read address plus the count,
  modulo the depth, and `wr_data_tready` is low exactly when only one slot is
  left;
* `HeldBehindRead`: a word that waits at the RAM output without having bypassed
  the RAM is the content of the cell the RAM re-reads, and that cell is the one
  just before the read address;
* the output register is empty when there is none.

The third part shows why the ring must close one slot early: the slot before
the read address is the last free one, the next that a full ring would write.

The argument of the refinement goes through the ring as a sequence (`RingOf`):
`RingNext` shows that an edge appends the word written and drops the word read,
by cases on which of the two wrap; the rest is algebra of concatenation, which
is done once in lemmas (`Concat`, `Assoc`, `HeadTail`) and cited.  The temporal
steps are `Init => IInv`, `IInv /\ [Next]_vars => IInv'`, and one PTL step per
theorem.

`FrontEndProofs` has the prefetcher and the instruction cache.  Of the
prefetcher (assumptions: the segments are numbers and 0 is one of
them, IP has some multiple of four values, the reset value is one of them, the
limit is 1 to 4 words, jumps go to some of the pointers; nothing about the
delay of the memory):

* `AnswersSafe` (`NoAnswerLost`): each answer still to come is either one of the
  `skip_hs_cnt` oldest or has the tag of its own request in `fifo_0`, at the
  output when it is needed; no counter wraps, no FIFO fills, and at most
  `3 * (LIMIT + 1)` requests are under way.
* `StreamOrder` (`DeliversStream`): the consumer is offered the words of the
  present stream, in order and without a gap.

The properties are not inductive: they say nothing of where the next pointers
come from, nor why three streams are the most that meet in the memory.
`StreamInv` adds

* `Limits`: a word that waits for the consumer means that nothing is left to
  discard, and so does `stream_used`; between a predicted jump and the next
  word at most `LIMIT + 1` answers are discarded, and after a jump of the
  execution unit on top of it twice as many.  This is where the environment
  is used: a jump is predicted for a word of the present stream, and executed
  for a word since the last executed jump.
* `Answering`: a tag is missing at the output of `fifo_0` only if it entered at
  the last edge, and then its answer cannot come yet.  This is the reason why
  the code may pop the FIFO without looking at `tvalid`.
* `Sequenced`: the pointers of the words at the consumer, of the requests and of
  the next request, put in one row, start with the pointer expected and follow
  each other.  An edge shifts the row (`At2(i) = At(i + c)`), whichever of the
  four ports move.

The FIFOs enter through two lemmas of `QueueProofs` (`RegisteredStep`,
`UnregisteredStep`): an edge of `FifoStep` is the step of a queue.  What a jump
does and what an edge without one does are proved apart (`JumpStep`,
`StreamStep`).

`QueueProofs` has the facts about `AxisQueues` that proofs about composed
modules need: what is in a FIFO or a skid buffer (`RegisteredStep`,
`UnregisteredStep`, `ErStep`, `SkidStep`) and when it is at the output, after
an edge; places in a ring (`RingFacts`) and remainders.

Of the cache, in the same module (assumption `ICacheAssumption`: addresses, a line, at least two
slots in the reorder buffer, and no more of them than the FIFO of misses is
deep; nothing about which words the prefetcher asks for, nor about the delay of the
memory):

* `AnswersPlaced` (`AnswersHaveAPlace`): each answer of the memory finds its
  miss at the output of the FIFO, each request a slot that is free, and no FIFO
  fills.
* `CacheIsMemory` (`ImplementsMemory`): the cache implements `InOrderMemory`.

The properties are far from inductive.  They say nothing of which slot of the
reorder buffer a request in the pipeline belongs to, nor of what is in the
lines.  `CacheInv` follows every request by its age (`Pos`, its distance from
the read address of the reorder buffer):

* `CacheCounters`: the slots in use are as many as the requests not yet answered,
  in one run of the ring from `rob_rd_addr` to `rob_wr_addr`.
* `SlotsHold`: a slot in use is empty or holds the word of the request it was
  reserved for.
* `Flight`: the misses, the miss register and the two lookup stages, in one
  row, have slots that are in use and still empty, and of two of them the later
  has the younger slot, with at least as many slots between them as there are
  places between them in the row.  The gap is the heart of the proof.  Hits leave the row in the middle and
  let it overtake; the gap grows and the order stays.  It makes the slots
  distinct, so that no answer lands on another's, and it bounds the misses by
  the slots (`MissRoom`), so that the FIFO of misses needs no ready.
* `Misses`: what the memory has been asked and is about to be asked are the
  addresses in the FIFO of misses, in its order, and its head is at the output
  whenever the memory may answer.  This is why the code may pop the FIFO
  without looking at `tvalid`.
* `Cells`: a valid line holds a word of that line under the word's own tag, in
  the RAM, in the bypass and in both stages.  That the line of a lookup is
  *still* valid is part of it, because a stalled lookup reads its cell again.

An edge is proved part by part (`MissStep`, `PipeStep`, `FlightStep`,
`SlotStep`, `CellStep`), the row through one lemma (`ItemStep`) that says where
each of its members is after the edge.

`DataPathProofs` (assumption `DataPathAssumption`: memory in cells of four
bytes; the bytes that share a tag have at most one line each; at least two
slots; two places more in the FIFO of tags than the memory holds reads; nothing
about which requests come, how many, nor about the delay of the memory.  Each
theorem also has the hypothesis `NoOddWords`: no request of the program writes
a word to an odd address.  Without it both properties are false, see
`DataPathOddWords`; with it every other mixture of bytes, words and split words
is allowed):

* `LastWriteRead` (`ReadsReturnLastWrite`): a read returns what the last write
  before it left there.
* `BooksKept` (`BooksAreTrue`): valid lines are current, each read has its slot
  and each request to the memory its tag, and the tag of an answer is at the
  output of its FIFO when the answer comes.

`program` is where the writes of the program already are; the memory is up to
four parts of requests and one whole request behind it.  `DataInv`, which holds in every state
(`DataSafe`), relates the two:

* `MemoryInOrder`: the two requests of the skid register, the request in front
  of it, the second half of a word and the write in the cache's register,
  applied to the memory in this order, make of it what the program made of it.
  A write of the program is the writes of its parts (`WriteInParts`).
* `LookupHolds`: a lookup that waits in the cache's register is still right,
  though writes went past it before; `LinesAreCurrent` itself is the part that
  needs `NoOddWords`, together with `SameLine`: two even addresses with one
  index and one tag are the same, because a tag spans at most the whole cache.
* `Counters` and `SlotsHold`: the slots in use are one run of the ring and stand
  for the answers that the program waits for, oldest first; one that is valid
  holds its answer.
* `AnswersFit`: the n-th tag belongs to the n-th read among the answers of the
  memory and the row of requests, and the bytes of that read, which for a
  request still under way are those of the memory *as it will find it*, are
  the bytes that the slot of the tag expects.
* `Order`: the slots of the tags are in use, empty, and ascend by age, but for
  the two halves of a word, which share one and follow each other; the low byte
  of a first half that was answered is in `upd_lo` as long as the second is not.
  So no result lands on a slot that is read or given again.
* `HalfBehind` and `TagsInTime`: the second half of a word is right behind the
  first, and a tag goes through its FIFO no slower than the request through the
  register to the memory, so that an answer never waits for its tag.

Where a request is after an edge is one lemma (`RowStep`, `BeforeStep`), as is
where a slot is (`LiveStep`, `SlotStep`) and where a tag is (`TagStep`, over
`ErStep` of `QueueProofs`); the parts of the invariant follow from these one by
one.  TLC checked `DataInv` on the states of the run `DataPath` before it was
proved.

`PipelineProofs` has the speculation loop and the entry of an interrupt, two
views of the same pipeline.  Of the loop (assumptions `BpuAssumption`, any code map over any set of
addresses and one to eight items, as many as the one-hot index can name, and
`SpeculationAssumption`):

* `ProgramOrder` (`TakesProgramOrder`): the instructions taken are those of the
  program, whatever the tables hold.
* `OneItem` (`OneItemPerBranch`): no branch has two items.

`OrderInv` follows the instructions through the pipeline: each is followed by
the one foretold to follow it, at the predictor's output, at the reader's
(`ReaderInv`) and at the execution unit's (`ExecInv`), and the last of these is
where the program goes unless a correction is on its way.  It needs nothing of
the tables: a wrong entry costs time, not order.  `TableInv` is about the
tables alone: the hit that was looked up when a resolution came in is still the
hit when it is written an edge later (`HitsAreFresh`), because resolutions are
at least two edges apart.

Of the interrupts (assumptions `QtyAssumption` and `ProgramsAssumption`: at least one line, and programs of any of the kinds of
instructions with any masks and any lines that request; nothing about when they
request, nor about any delay):

* `FlagsHonest` (`ScoreboardHonest`): the flags never read as valid while a
  write of them is under way, except behind an instruction that jumps for
  certain.
* `InterruptsOnce` (`EntersOnce`): an interrupt enters between two instructions
  and is acknowledged once, at its own line.

Neither is inductive: they look at the flags' valid bit and at the next
acknowledgement, but not at how many locks and writes are on their way.
`IntrInv` counts both.

* What `ifeu` has left of an instruction goes on to the next instruction
  (`Plain`) or will jump (`Final`).  From the moment that something `Final` is
  loaded until the jump empties the pipeline, a jump is certain (`Doomed`).
* `Counted`, while no jump is certain: the locks, those counted and the one on
  its way to the count (`Locks`), are as many as the writes in the reader's
  output, in `ifeu`, in the memory read of POPF, in the string unit, in the ALU
  and at the flags (`Under`), with one more lock once a skipped instruction has
  left its own (`unpaid`), and the flags are valid exactly when the count is zero.  This
  equation has to survive that two writes never meet on one edge, since `mexec`
  would make one of them: an instruction that changes IF waits for the flags
  and so is alone (`Executed = 0`), and ALU writes follow each other through
  the same pipeline.
* `Stopped`, once a jump is certain: the equation breaks, since an interrupt
  writes the flags twice under one lock; but the jump lock keeps what is
  behind it out of `ifeu`, so at most two locks are counted before the jump
  clears them all, and the count keeps its three bits.
* `Entry`: while the reader answers a request no write is under way, so nothing
  can clear IF any more; and a line once taken stays offered until it is
  acknowledged, so IF, the offer and the vector are still there at the edge
  that acknowledges it.

`OpsCounted` and `IssueCounted` follow one edge of `mexec` and `ifeu`,
`ReaderEdge` one of the register reader, `CountStep` one of the count, and
`ScoreStep` and `EntryStep` put them together.  `Least` is what makes the proof
hold for any number of lines: a non-empty set of lines has a lowest one.  TLC
checked the invariant on the states of the run `Interrupts`, with every kind
of instruction, before it was proved.

`ExecuteProofs` (assumption `ExecuteAssumption`: the families are sets of kinds
of the table, a program has an instruction, a shift takes a place; nothing
about which instructions come, how many, nor about the delays of the decoder,
the load-store unit and memory, nor about how jumps end):

* `PipelineKeepsOrder`: the invariant `PipeInv` below.
* `OperandsCurrent` (`OperandsAreCurrent`): an instruction leaves the queue
  with the values of the instructions before it, and no register has more
  writes under way than its counter counts.
* `NothingLost` (`NothingIsLost`): two writes of the flags never meet, a
  pipeline at rest has every register unlocked with its last value and no word
  left over, and a jump empties the pipeline only when all before it has
  arrived.
* `StoresCarry` (`StoreCarriesItsValue`), under the hypothesis that no family
  has `xchgm`.  With it the property is false, which the run `ExecuteXchg`
  shows; the other two theorems hold with it as well.

The properties are not inductive: they look at a register when it is read and
at the pipeline when it rests, and say nothing of what is in between.
The first half of the proof is about the table: `OpOK` is what a
micro-operation may ask for, given the one before it and the number that follow
(a wait for a word follows a read and nothing else does, only the last one asks
for a jump that is taken, a word for a register or for memory is not awaited
right behind another word), and `KindsAre` shows it for every kind, and that each
kind writes exactly the registers it locks, each once.  The second half never
looks at the table again.  `PipeInv` is

* `Types` and `UnitsAgree`: what may be busy together, and that `mexec_wait`
  names exactly the units and words that are still to come.  `op_cnt` is the
  number of results that have left their unit.
* `WordsInOrder`: the words that memory owes, in the answers, in memory and in
  the request, are the words that are awaited, in their order.  Answers carry
  no tags; this is why each finds its micro-operation.
* `WordIsAlone`: a word bound for a data register of `mexec` or for a store
  does not meet a result of the ALU: the word takes longer through memory than
  the result through the ALU.
* `LocksCounted`: the count of each register, with the lock that is on its way
  to it, is the number of its writes in the reader, in the micro-operations to
  come and in the units.  At most one write is in each place, which bounds the
  count.
* `WaitsOver`: behind the wait of an instruction nothing is under way to the
  registers it waits for, up to its own writes.
* `Values`: the last value of a register is the youngest of its writes under
  way (`Latest`), from `ifeu` through the units to the register.
* `Jumps` and `JumpLocks`: a jump that will empty the pipeline has `mexec` for
  itself, nothing is behind it in `ifeu`, and it is decided only when the units
  are empty; the jump lock is free exactly when no jump is under way.
* `Stores`: a store that waits for a result has that result, and no other,
  before it on its way.  It is here that `xchgm` fails: its first
  micro-operation starts the ALU and its second waits for "the next result".

An edge is proved from the units outwards: what `mexec` accepts and finishes,
where each result goes (`Early` and its summands), the locks, the words, the
values, the jump.  The edge that empties the pipeline is apart (`Fresh` is the
state after it and after reset, `FreshInv`).  TLC checked the parts of
`PipeInv` first, on programs of two instructions of all kinds, with `xchgm` and
without (91 thousand states).

`SnakeProofs` (assumption `SnakeAssumption`: the ring has a slot, sizes are
numbers, the first snake fits on the board):

* `KeysSafe` (`KeysInOrder`): bytes are read in the order of the keyboard while
  the ring is not overrun, whatever its size.
* `OverrunCostsTheOldest`: after any overrun the ring still holds the newest
  bytes, each at its place.

`RingInv` ties the write pointer to the read pointer and to the bytes not read,
modulo the size, and the count to their number modulo 256.  The remainders are
treated in lemmas of their own.

For every board, any food and any keys:

* `WholeSnake` (`SnakeIsWhole`): one last part, each part next to the one before
  it, as many as meals, inside the walls and on squares of their own until the
  game is over.
* `TrueScreen` (`ScreenTellsTheGame`): the stars are the snake, the fruits shown
  are on the board, the walls stand.
* `KeepsItsWay` (`NeverTurnsBack`, an action property).

They follow from `BoardInv`.  A snake is `Snakelike`: a path with its flag `last`
at its end only, so that the loops over the parts reach all of it
(`AllReached`).  Behind the head it is always clear of walls and of itself
(`TailClear`); with the head (`HeadClear`) it is so wherever the main program is
between two rounds, because `Round` ends the game otherwise, and only a clear
head can leave a clear tail behind (`ClearStep`).  The screen shows the body
(`Shows`) because a move erases and draws all of it and no part of a clear snake
lies on a wall.  The head looks where the command last sent it, unless the snake
is new or the game paused: this is what makes the opposite command the one that
is fatal.

`SocMemoryProofs` (assumptions `SdramAssumption` and `SocAssumption`: any
banks, rows, columns and scenes of requests).  Two hypotheses name what the
constants of the code are chosen for:

* `Times`: the chip needs no more than the controller waits, which is written
  into the states of `sdram_ctrl.v` (2 clocks after PRE, 3 after ACT, 8 after
  REF, 6 after LMR), and there are 11 clocks or more between two refreshes.
* `Rooms`: the queues of turns and of ports hold 11 more than the credits, and
  the results hold more than the credits.  The code has 32, 8 and 7.  Eleven
  covers the reads that can be on their way between the mapper and the chip's
  data pins and the slot that each queue closes early.

The theorems:

* `ControllerObeys` (`SdramObeys`), from `Times` alone: the chip sees each
  request once, in order, in its own row; each command finds the chip ready;
  the data pins have one driver; no refresh comes too late.
* `AnswersFindPorts`, from both: an answer of the SDRAM finds its port at the
  head of the arbiter's queue, which has room for each port, and each word of
  the on-chip RAM has its place.  It holds after an answer was lost as well:
  what goes wrong there is the turn alone.
* `AnswersNeverLost` (`AnswersFindTheirWay`), from both and `CREDITS <= 7`: an
  answer finds its turn as well, unless the SDRAM was read while a read of the
  on-chip RAM could not go on (`overtaken`), which `SocMemoryMixed` shows to
  lose one.  The number of credits matters: reads that have their turn leave
  one a clock, and seven of them are gone before the SDRAM answers.

The controller's part of the invariant, `CtrlInv`, is a table of its states.
`SdramObeys` looks at the pins, and the machines are one clock ahead of them:

* `Machines` says for each state which command is on the pins, how long the
  chip is busy at most and which rows are open; before the chip is initialised
  (`Initialising`) for the one machine, after it (`Running`) for the other.
* `InTime` gives each state the most clocks it still needs before it
  acknowledges a refresh (`Deadline`, eleven from the state that opens a row).
  The refresh counter stands no lower while a refresh is asked for.
* `DataPins` says where the machine can be while a read is on its way back: the
  states that wait out a read (`spin`, `rec`) are what keeps a write three
  clocks away from it.
* `Requests`: what the chip has not seen is the request the machine is about to
  issue, then those of the input FIFO.

The rest follows the reads to their answers:

* `ArbiterInv`: the ports in the arbiter's queue, with the one that is queued a
  clock late, are the ports of the reads in the read pipeline, of those the
  controller holds and of the one in the request register, in this order.  Its
  head is at the output in time, because a read takes longer through the chip
  than its port through the queue.
* `CreditsInv`: the credits that are out are the reads in the on-chip RAM and
  its results.  This is why the results need no ready.
* `TurnsInv`, until a read was overtaken: the queue of turns is as long as the
  reads under way, and for some `b` (`Lead`) it holds `b` reads of the on-chip
  RAM, then those of the SDRAM, then the on-chip RAM's others.  A read of the SDRAM
  behind a read of the on-chip RAM is possible, then, but only while no read of
  the SDRAM is before it: an SDRAM read between two others is what `held_back`
  tells.
* `Before`: the `b` reads leave in time.  `Given(n)` counts the words that the
  on-chip RAM will have given in `n` clocks, and `Leave(b, n)` says that `b` of
  them can have gone by then, one a clock.  The place of an SDRAM
  read says how many clocks its answer is away at least: 0 to 3 in the read
  pipeline, 4 in the controller, 5 and 6 in the request registers; `Leave` holds
  for that many clocks.  When the first read of the SDRAM is accepted, the
  RAM is open, so the `b` reads, at most six, are all in the RAM or its results, or
  about to be; each clock then takes one of them and one from the distance
  (`LeaveStep`).

An edge is proved for the controller first (`CtrlInv`, state by state), then
for each queue from what enters and what leaves it.  TLC checked the whole
invariant on the states of the run `SocMemory` before it was proved.
The proof needs a bank to exist, and rows and columns other than the marks
`"closed"` and `"all"` of the model; `SdramAssumption` says so.

Of the runs' properties, `HeldSlotNotOverwritten`, `StepsAsFifoStep`,
`ImplementsQueue`, `NoAnswerLost`, `DeliversStream`, `AnswersHaveAPlace`,
`ImplementsMemory`, `ReadsReturnLastWrite`, `BooksAreTrue`,
`TakesProgramOrder`, `OneItemPerBranch`, `ScoreboardHonest`, `EntersOnce`,
`OperandsAreCurrent`, `NothingIsLost`, `StoreCarriesItsValue` (without XCHG
with memory), `SdramObeys`, `AnswersFindTheirWay`,
`KeysInOrder`, `SnakeIsWhole`, `ScreenTellsTheGame` and `NeverTurnsBack` are
theorems.

*Only model-checked:* everything else.  The reference processor and its bench
use RECURSIVE operators (prefixes, repetitions, the undisturbed run), which the
prover does not handle.  Liveness under fairness is out of the prover's reach.
What an invariant proved of one component assumes of the next ("the pieces
meet in named facts", above) is argued, not proved: no module composes the
whole processor.

## What the checks found

**A stale line of the data cache** (`DataPathOddWords`).  A word written to an
odd address invalidates the line of its first byte only
(`cpu86_dcache.vhd:155`).

**XCHG with memory** (`ExecuteXchg`).  The register's old value passes the ALU
in the first micro-operation, and the store of the second takes "the next
result".  If the second is held up by a busy load-store unit, the value has
passed, and the store takes the word it has just read.

**An answer of the SDRAM out of turn** (`SocMemoryMixed`).  The mapper passes an
answer of the SDRAM on only if the SDRAM is the head of its queue of turns
(`soc_mmu.vhd:253`), and nobody can hold the answer.  In the order SDRAM, on-chip
RAM, SDRAM the on-chip answer waits for the first of the SDRAM; if the second
comes right behind it, from the same row, the on-chip RAM still has the turn:
the answer is lost, and the queue of turns waits for it for ever.  The same
happens without the first read when the on-chip RAM is closed because its
credits are used up, and the video controller keeps the row open; `held_back` is
these two cases, and the theorem `AnswersNeverLost` says that there is no third.

Three facts about interrupts and flags bound what `Interrupts` claims:

* *A request can stop the CPU.*  The register reader stops the instruction
  queue as soon as it sees a request with IF set
  (`cpu86_exec_register_reader.vhd:403`).  A CLI or POPF that has already left
  the queue may still clear IF; `ext_intr_tvalid` then falls, the state machine
  never leaves `ST_IDLE`, and only a jump would clear the mask.  The next
  interrupt cannot help, because IF is clear.  `InterruptsCli` shows it, and
  `StoppedIsServed` excepts exactly this: something on its way that may clear IF
  (`IfMayGo`), in any program.  `mmu_map` of the benches' library (`x86mmu.c:8`)
  runs CLI with requests enabled.
* *A skipped instruction keeps its lock.*  REP with CX = 0 before CMPS or SCAS
  issues nothing, but the flags are locked (`cpu86_exec_register_reader.vhd:628`):
  only the locks of SI and DI look at `skip_next`.  The next instruction that
  waits for the flags waits for ever, unless a jump of an older instruction
  clears the lock.  `InterruptsRepZero` shows it, and `NobodyWaitsForEver` holds
  as long as it has not happened (`unpaid`).  LODS leaves AX locked in the same
  way, which no model covers.  A segment prefix between REP and the string
  instruction resets `skip_next`, so that with CX = 0 the string executes once.
* *An acknowledgement too many.*  `ext_intr_s_tready` stays up after the first
  acknowledgement (`cpu86_exec_ifeu.vhd:2355`) until IF is cleared by the third
  micro-operation.  If a second line is pending, `pic_lite` offers it two edges
  later; it is acknowledged and forgotten, and its interrupt is never taken.
  `EntersOnce` speaks of the first acknowledgement, the one an entry owes.

The reference processor, where it departs from the 8086 or from itself.  A
comparison of the core with it inherits these:

* ENTER with a nesting level of two or more (`e80186.c`) reads the display with
  the new frame's offset as its segment; the run has levels 0 and 1.
* IMUL by an immediate sets ZF anew.
* A division error behind a prefix saves the address behind the prefix, not that
  of the instruction (`LengthsAgree` says so).
* C0 and C1 with a count of zero return one byte less than they took
  (`e80186.c:290`), so the count is executed as the next instruction; the
  rotations to the right by one place always
  clear OF.  `LengthsAgree` excludes the first and
  `ArithmeticIsExact` the second.
* The disassembler does not know 69, 6B, D6 and D8 to DF (`disasm.c:1435`).
* The prefetch queue reads on behind the end of the segment when a word straddles
  it (`QueueHoldsTheCode`).
* MOV SS and POP SS shield the next instruction from a request but not from the
  single step.  Under single-stepping HLT does not halt, and a request waits as
  long as the program is stepped: the trap is looked at first.
* The globals that hold the reported values are not set up by
  `c_tb_set_test` (`golden_ref.c:88`): the first report of a second test has
  the registers of the end of the first.  `ReportsTellOfOneMoment` speaks of
  the reports after it.

The game:

* Food may fall under the snake, whose next part to leave the square erases it
  from the screen; it may also fall on the right wall.  `ScreenTellsTheGame` has
  the direction that holds.
* While the game is paused any arrow is taken, so the snake may come back
  reversed into itself; and its body starts pointing up under the command LEFT,
  so DOWN as the first key is fatal.  `NeverTurnsBack` excepts both.
* A key that comes between the poll of the ring and HLT is seen at the next tick.
* The ring has no check for room.  After an overrun it gives bytes again in
  order as soon as no more are waiting than fit.

Reading the code for the models also showed places that no run covers yet:

* `JMP m16:16` reads two words and takes one (`cpu86_exec_ifeu.vhd:1722`);
  every later load gets the answer of the one before.
* RETF behind an ALU instruction (`cpu86_exec_ifeu.vhd:1951`): its first jump,
  which is never taken, waits for nothing but gives a result of its own.  XLAT
  (line 2023) takes its segment from the buffer of the instruction before.  MOV
  with a segment register reads the `rm` field as a register to wait for even
  when the operand is in memory (`cpu86_decoder.vhd:1445`), so that the base of
  the address may be stale.
* INS and OUTS: the locks of `cpu86_decoder.vhd:1003` against the registers the
  string unit writes.
* The UART port overwrites a byte that has not left for the transmit FIFO
  (`soc_io_uart.vhd:276`) and drops a received one when its FIFO is full
  (line 152).
* Arithmetic at the edges: AAS, DAA and AAA near 255, AAD with a base other
  than ten, AAM, division overflow and IDIV at −128, byte division by a memory
  operand (`cpu86_exec_ifeu.vhd:846`), and flags of a shift by CL = 0.
* Nothing invalidates the instruction cache when code is written.

The main ones are listed under `hazards`, with the reason why no property
covers them yet.

## Not modelled

* **Self-modifying code.**  The instruction cache has no invalidation, so there
  is nothing to model; `ICache` has a memory that does not change.
* **Kinds outside `Execute`.**  Division, BOUND, ENTER, PUSHA and POPA, the
  string and I/O instructions, the traps (divide, overflow, single step) and
  software interrupts take other ways through `ifeu`; RETF, XLAT, JMP m16:16
  and MOV to a segment register are left out for the reasons above, so that the
  properties of the others are not hidden behind theirs.
* **Values of arithmetic in the core.**  A result is a name.  Latencies and
  destinations are modelled; what the units compute is planned, against the
  reference processor, whose values are modelled.
* **Of the reference processor**: clock counts; the hooks that the bench leaves
  NULL; `e80286r.c`; the text that the disassembler prints; `e86_interrupt`,
  `e86_clock` and the reset callback, which nobody calls; the bench's memory
  models for the simulator (`hdl_*`).
* **Of the game**: the random generator (any number of its range is possible),
  the set-up of vectors, timer and interrupt controller, the loop that waits.
* **The other programs of the benches**, and the simulator's side of them.
* **The table of the mapper.**  Which of the two memories a request goes to is
  free in `SocMemory`, which is more than any table allows, except during
  reconfiguration.
* **The read port of `pic_lite`, and spurious I/O.**  They do not change the
  state that the properties are about.
* **The pixel pipeline of the video controller, 7-segment displays, LEDs,
  switches**: registers and layout.
* **`pic_8259`, `pit_8254`, `cpu_reg_acc`**: not instantiated.
* **Clock domains.**  All modules are of one clock; the asynchronous FIFO of the
  video controller is planned as a module with two.
* **Electrical timing, vendor IP, board wiring.**

## Plan

Done: the streams, the front end, interrupts, the data path, branch prediction,
the memories, the execution of the ordinary instructions, the reference
processor with its bench, and the game.

Next, in this order:

1. *Decoder and fetch buffer* (`FetchBuf`, `Decoder`): the byte-by-byte machine
   over words, instruction lengths, prefixes, a flush in the middle; its
   abstract specification is a sequence of instructions with their addresses.
2. *Memory interconnect*: fetcher and load-store unit before one port, with the
   queue of ports written an edge late, composed with `InOrderMemory`.
3. *String and I/O unit* (`Strings`): MOVS, CMPS, SCAS, LODS, STOS, INS and
   OUTS with REP, an interrupt between two elements, and CX = 0 with the locks of
   AX, SI and DI.
4. *Arithmetic* (`Alu`, `Divider`): the units as operators with the code's
   widths, compared over all bytes with `E8086Flags`, `E8086Ops` and
   `E8086Arith`.
5. *Devices*: UART, PS/2, timer and the I/O interconnect, as one composed
   module with the CPU's port.
6. *SD card* and the *asynchronous FIFO*.

Theorems worth proving next:

* The divider: quotient times divisor plus remainder, for every width.
