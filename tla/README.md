# RedPlanet in TLA+

RedPlanet is a RISC-V (RV32) emulator with a debugger that can go back in
time.  This directory models it in TLA+: what each part keeps and does,
properties that are hard to test, TLC configurations that check them on small
instances, and proofs that TLAPS checks for every instance.  Line numbers refer
to the sources of the repository; `PROJECT.json` maps every definition to the
lines it stands for.

## The system

```
  GDB  <--tcp-->  GDB server  --commands-->                    prompt, keyboard
                  (gdb.rs)    <--events---  simulation thread  <--- (tui.rs)
                                            (target.rs)
                                                | step, step_with, undo, go_to
                                            Simulator        (simulator.rs)
                                                | make_snapshot, checkout,
                                                | drop_snapshot
                                            SpaceTime        (space-time crate)
                                                | Allocated state, arrays
                                            Board: core, CLINT, PLIC, UART, RAM
```

| part | state it keeps | operations |
| --- | --- | --- |
| **Simulator** (`red-planet-core/src/simulator.rs`) | a few snapshots, the recorded custom ticks, HEAD (state index, base snapshot, next custom tick) | `step`, `step_with`, `undo_step`, `undo_steps_until`, `redo_step`, `go_to`, `clear_forward_history` |
| **SpaceTime** (`space-time/src/lib.rs`, `snapshot.rs`, `table.rs`, `ids.rs`) | a reference-counted slab of objects, an arena of pointers per snapshot, HEAD as a dirty arena or as a checkout | `insert`, `get`, `get_mut`, `remove`, `pop`, `make_snapshot`, `drop_snapshot`, `checkout` |
| **array storage** (`space-time/src/array_storage.rs`) | trees of shared pages, one slab per level | `new_instance`, `clone_instance`, `drop_instance`, `get`, `get_mut`, `read`, `write`, `iter_range`, `reset` |
| **simulation thread** (`red-planet-cli/src/target.rs`) | the simulator, breakpoints, the current run, the shared state the interface draws | `run`, `advance_sim`, `step`, `step_back`, `com_with_uart`, every `Command` |
| **GDB server** (`red-planet-cli/src/gdb.rs`, `gdb/`) | idle, running, or waiting for an answer | gdbstub's requests, Ctrl-C, stop reports |
| **user interface** (`red-planet-cli/src/tui.rs`, `main.rs`) | prompt, scroll positions | commands, bytes typed for the UART, drawing |
| **core** (`red-planet-core/src/core/`) | registers, CSRs, privilege mode | fetch and execute, traps and returns, CSR access, interrupts |
| **MMU** (`core/mmu.rs`) | none of its own (satp, page tables in memory) | translate, read, write, fetch |
| **CLINT, PLIC, UART** (`core/clint.rs`, `resources/plic.rs`, `resources/uart.rs`) | timer and comparator; priorities, pending and enabled sources; FIFOs and line status | memory-mapped reads and writes, `step`, interrupt callbacks |
| **board and buses** (`board/`, `bus.rs`, `system_bus.rs`, `address_map.rs`) | power-down flag, memory map | dispatch of reads and writes, `step`, `reset` |
| **instruction decoder, register file** (`instruction.rs`, `registers.rs`) | x registers and pc | `decode`, `set_x` |
| **test programs** (`red-planet-test`, `riscof-tests`, `examples`) | - | run the emulator on given binaries |

The parts talk by ordinary calls, except for three places: the clients of the
simulation thread send it commands and bytes through queues and receive events
and answers through others; the simulator calls back into the code that uses it
(`tick`, the closures of `step_with`, `pred` and `visit` of `undo_steps_until`);
and the devices call back into the PLIC and the core to raise interrupts.

### What is hard about it

* **History without storing it.** Any past state is a snapshot plus a replay.
  It is right only if the snapshots, the recorded custom ticks and HEAD's three
  indices agree after every sequence of steps, undos, jumps, scans and
  truncations, in the middle of a replay too (`SnapshotOrder`, `Replayable`,
  `TimeTravel`, `TravelLosesNothing`).
* **Sharing.** Snapshots, HEAD and arrays share objects and pages by reference
  counts; a missing count changes a snapshot silently, much later, and one too
  many keeps an object for ever (`TableExact`, `PagesExact`, `ImplementsStore`;
  the two leaks of the code are counted apart, in the history variables `leaked`).
* **Concurrency.** GDB, the prompt, the keyboard and the simulation thread
  interleave freely; the thread polls its queue only between batches
  (`SessionOK`, `ServerReturns`).
* **Recorded input.** Bytes leave a queue once but are replayed any number of
  times, and history that is erased takes its bytes along (`StreamsExact`,
  `TravelKeepsFuture`).
* **Interrupts.** Lines move between steps and within one, and meet delegation,
  enables and privilege; traps nest over two levels that share one status
  register (`QuietAfterStep`, `TrapsAreAllowed`, `ReturnRestores`,
  `MachineStateGuarded`).
* **Tables in the memory they translate.** A walk writes to the memory that
  later walks read, and an access may fail after its walk has written
  (`LoadsMoveNothing`, `DirtyKept`, `RomKept`).
* **A polled device.** What a driver read in the line status is old when it acts
  on it; the terminal's exchange may come in between (`StatusCurrent`,
  `ImplementsChannels`, for drivers that clear no FIFO which holds something).
* **Wide numbers in halves.** The counters and the timer are 64 bits that
  software writes in words of 32 while they run, and the timer's line is driven by
  the edges its own updates see (`ImplementsClocks`, `TimerLine`, `TimerFires`).
* **Instructions of several steps.** An instruction may fail after its first
  step; operands and results share registers, numbers wrap, and the order of
  bytes changes at run time (`Precise`, `ArithmeticRight`, `MemoryRight`).

## Modules

| module | models | its variables in the code |
| --- | --- | --- |
| `Timeline` | what a simulator promises: a linear history of machine states and a cursor in it | abstract |
| `Simulator` | `simulator.rs`: every public method that changes state, and every iteration of its replay and scan loops | `mem` the allocator's HEAD, `snapshots`, `customs` = `custom_ticks`, `head` = `Head`, `scan` the locals of `undo_steps_until`; `call`, `probe`, `trace` are history |
| `Table` | `table.rs`, the reference-counted slab, as operators | |
| `SpaceTime` | `lib.rs`, `snapshot.rs`: HEAD, snapshots, copy on write | `table`, `head`, `snaps`; `leaked` is history |
| `SnapshotStore` | what SpaceTime promises: snapshots are full copies | abstract |
| `ArrayStorage` | `array_storage.rs`: the page trees | `tables` one slab per level, `instances`; `leaked`, `calls` are history |
| `Arrays` | what array storage promises: independent arrays | abstract |
| `SimTarget` | `target.rs`: the thread's loop, its commands and channels | `trace`, `cursor` the simulator as `Timeline` has it, `cmds`, `events`, `uart`, `replies` the channels, `mode` = `execution_type`, `breaks`, `shared` |
| `GdbSession` | `SimTarget` with the GDB server, the prompt and the keyboard | `gdb` the server's state; `sent`, `marks` are history |
| `Registers` | `status.rs`, `interrupts.rs` and `csr.rs`: mstatus, mip, mie, the delegation, and their writes, as operators | |
| `Hart` | `core/mod.rs`, `trap.rs`, `execute.rs`: steps, traps, returns, lines, the debugger's register writes, reset | `hart` the fields of `Core`, `Status`, `Interrupts`, `Trap`; `hart.mframe`, `hart.sframe`, `mover`, `writes` are history |
| `Mmu` | `mmu.rs`: translation, its marks, the accesses through it | `mem` physical memory, `csr` satp with SUM and MXR; `dirty`, `stores` are history |
| `Uart` | `uart.rs`: the registers that hold state, FIFOs and line status, `push_and_read`, reset | `uart` = `struct State`; `seen` and `guest` belong to the program (what it has polled, whether it polls); `heard` is history |
| `Channels` | what a serial port promises a driver that polls: two bounded queues | abstract |
| `Board` | `counters.rs`, `counter_control.rs`, `clint.rs` and the step of `board/mod.rs` that moves them | `board`: the fields of `Counters`, `Mcountinhibit`, the CLINT's `State`, mip.MTIP, `PowerDown`; `board.ahead` is history |
| `Clocks` | what the clocks promise: a time and two wide counts that software may set | abstract |
| `Words` | the arithmetic of `execute.rs`, as operators on words of any width | |
| `Executor` | `execute.rs`: what every instruction does to registers, memory and CSRs, and which exception it ends in | `h`: `Registers`, memory, mstatush.MBE |

`MCSimulator`, `MCArrayStorage`, `MCGdbSession`, `MCHart`, `MCMmu`, `MCUart`,
`MCBoard` and `MCExecutor` give the constants their values for TLC.
`Simulator_proofs`, `SpaceTime_proofs`, `GdbSession_proofs`, `Hart_proofs`,
`Mmu_proofs`, `Uart_proofs`, `Board_proofs` and `Executor_proofs` hold theorems.

Composition: `GdbSession` extends `SimTarget`, whose simulator is an instance of
`Timeline`; `Simulator` is proved to implement `Timeline` (theorem `Refinement`).
`SpaceTime` and `ArrayStorage` use `Table`.  `Simulator` takes from `SpaceTime`
that a checkout restores exactly what was in HEAD when the snapshot was made,
which is what `ImplementsStore` (theorem `SharingIsInvisible`) and
`ImplementsArrays` say.  `Hart` extends
`Registers`.  `Hart` and `Mmu` meet in the privilege of an access: `Hart` shows
which level loads and stores run at (`DataAccessAtOwnLevel`), `Mmu` what an
access of a level may do.  `Uart` implements `Channels` for guests that poll; the
bytes `SimTarget` exchanges in a custom tick are those of its `PushAndRead`.
`Board` raises and lowers the machine timer line that `Hart` takes as given.
`Executor` says what the instructions do that are `plain` or `fault` in `Hart` and
accesses in `Mmu`: which exceptions they end in, and what they have done by then.

### Abstractions

* **Simulator.** The machine is a constant: a set of states and a function from
  a tick and a state to a state.  `pred` of `undo_steps_until` may answer
  anything, as the real one also looks at the command queue.  `visit` changes
  nothing; `ScanContract` says when it is called.  Indices are natural numbers
  up to `MaxSteps`.
* **SpaceTime** has objects of one type.  The real allocator has one table per
  type, which do not interact.  Objects are written through the reference
  `get_mut` returns; `Write` is the call and the write.  The arena is a library
  (`generational-arena`) and is modelled from how its documentation and
  `snapshot.rs` use it.  The loops of `clone_snapshot`, `delete_snapshot` and
  `from_iterators` are written in closed form: an arena points to a cell at most
  once (part of `StoreInv`), so cloning or deleting one changes every count by the
  number of its pointers to the cell, and the cells that deleting empties join the
  free list in the order of the slots (`InOrder`).
* **ArrayStorage** has `Layers` levels of pages of pointers over one of elements,
  and pages of `PageSize` entries.  A range operation is modelled by the pieces
  it is cut into, level by level, as the code does; what it copies, counts and
  drops on the way is in the action.  The recursion over levels is recursive
  here as well.  `iter_range` of the trait has two implementations, which differ:
  `IterRange` is that of `STArrayAccessor`, `IterRangeMut` that of
  `STArrayAccessorMut`, for every kind of bounds (`RangeTo`).
* **SimTarget.** The machine has a program counter, the UART's FIFOs and the
  output buffer; a program is any function of these.  Registers and memory are
  not in it, so writing a register and writing memory are the same tick to a
  machine state.  The UART is operational (its divisor is set).
  `reverse-continue` is one action: the scan it makes is in `Simulator`, whose
  properties say which state it ends in.
* **GdbSession.** Requests come in any order gdbstub allows: resumes and
  questions only while it takes the target for halted.
* **Hart.** The program is free: a step executes any instruction and may raise
  any exception that instruction has.  Left out: x registers, memory, the cause
  and value registers, vectored handlers, counters, satp, the environment
  configuration, and the fields of mstatus that only steer accesses.  CSR
  instructions name bits out of a set given by register (`Sources`), so that a
  run can be small; the proofs are for all sets.  The supervisor's external line
  is part of the core's interface and is driven here, though the board connects
  the machine timer and the machine external line only.  `mframe` and `sframe`
  remember what the last trap into a level interrupted; writing what it saved
  ends them, as a return does.
* **Mmu.** Memory is counted in words, each of them a page table entry; a page
  has `Entries` words, and there are as many virtual as physical addresses.
  Accesses are one or two words, the latter for those that cross a border.  Left
  out: bytes, endianness, alignment, the debugger's reads (they change nothing),
  devices as places of tables.  The programs of all levels are free, and so is
  the moment at which satp, SUM and MXR change.
* **Uart.** The guest is free, or it polls: it reads a byte only after it saw Data
  Ready, sends one only after it saw THRE, and clears a FIFO only while that is
  empty.  The driver in `examples/demo/uart.h` is of this kind as long as nothing
  is typed before its `uartinit` clears the FIFOs (`uart.h:41`); a byte that comes
  between the divisor and that clear makes it one of the free kind.  Left out: the enables (IER) and the modem
  registers, whose values nothing else reads (`update_interrupt` looks for the
  enables in the line status); the bits of lcr but DLAB, as characters have
  eight bits; the line to the PLIC.
* **Board.** A word has `Base` values.  An instruction is what it does to the
  clocks: write a half of a counter, the inhibits, a timer register or the
  power-down register, or nothing.  An instruction whose execution raises an
  exception counts as retired, as in `step_with`; only ECALL, EBREAK and what
  cannot be fetched or decoded do not.  A program stores 4 bytes at a time, and
  the `set_*` functions of `clint.rs` join the halves with a bitwise "and", so
  such a store makes the register 0 (`WriteHalf`); the debugger can write 8, at
  the address of the upper half.
  Left out: reads, the counter enables, the hpm counters.
* **Words, Executor.** A byte has `ByteBits` bits and a word four bytes, so that
  every operand of a word can be tried.  What the operators say does not depend
  on the width; the lengths that the manual gives in bits (the low 12 of LUI and
  AUIPC, the 5 of a shift amount) are scaled.  Powers of two (`Pow2`), and what a
  set of bits or a list of bytes is worth (`Total`, in `OfBits` and `Get`), are
  recursive functions, so that theorems can be proved about them.  The hart is in
  machine mode and
  memory has four kinds of regions, one of which translation refuses; which
  accesses of which level are refused is in `Mmu`, what traps and returns do in
  `Hart`.  Left out: the decoder, the other CSRs, and the values of the fault
  registers, so that exceptions of the same sort (load and store page faults)
  are one.

## Runs

| run | instance | what it shows |
| --- | --- | --- |
| `history` | 1 custom tick, snapshot interval 2, 5 steps | types; what HEAD shows is what was there; history can be replayed from any snapshot; order of the snapshots; navigation loses nothing; the contract of `undo_steps_until` for every answer of `pred`; every call returns; `Simulator` implements `Timeline` |
| `delete_future` (violation) | 3 steps | `clear_forward_history` at the end of history forgets the last custom tick |
| `store` | 2 slots, 4 cells, 2 snapshots, 1 removal per arena | counts (what `make_snapshot` leaks apart) and free list; `SpaceTime` implements `SnapshotStore`, removals included |
| `arrays` | 2 names, arrays of 9 elements in pages of 2 over 3 levels, 4 calls | page counts (leaked reset pages apart), independence, and agreement of range operations with element-wise ones; how far the iterators of a mutable accessor fall short of it |
| `session` | 3 commands from GDB and the prompt, 2 bytes typed | GDB and thread agree who runs; breakpoints; what may erase history; input and output; answers and stops arrive |
| `stale_stop` (violation) | Ctrl-C allowed | one resume is answered by two stops |
| `hart_traps` | machine timer and supervisor external line, both delegable; 4 register writes; every register and every CSR instruction | traps, interrupts and returns of nested handlers; nothing waits that could be taken; machine state is safe from lower levels |
| `hart_mstatus` (violation) | the same, 2 register writes | `csrrc` and `csrrw` cannot clear a one-bit field |
| `mmu` | pages of 2 words, 2 frames of RAM, 1 of ROM and 1 of nothing, 2 roots, 2 stores | rights and pages through two levels of tables, marks, ROM |
| `uart` | FIFOs of 3 bytes, two byte values, two trigger levels; a guest that polls and one that does anything | the line status hides nothing from either, and is exact for the polling one, for which the UART implements `Channels`; the interrupt shown agrees with it |
| `clocks` | words of two values, so that every second step carries | time and counters implement `Clocks`; the timer's line is at its level; the timer fires |
| `instructions` | words of 4 bits, 3 registers, ROM, RAM, a refused page and a hole of one word each | arithmetic, jumps, branches, loads, stores and AMOs in every state that programs reach; what an exception leaves behind |

**Bounds.** The free machine of `MCSimulator` remembers every tick, so equal
states have equal pasts and no wrong tick can hide.  Five steps with an interval
of 2 give a dirty HEAD, HEAD on a snapshot, HEAD between two snapshots, and
custom ticks before, on and after snapshots, and scans over three segments.  In `store`, four cells are two objects and a
copy of each, and two snapshots are enough for objects shared by both and by
HEAD, with one dropped while checked out.  In `arrays`, a write of 4 elements in
9 crosses pages on all three levels and the border of the top level.  In
`session` two bytes and a FIFO of one make a byte wait, a batch of 2 makes runs
of several batches, and a buffer of 3 is filled exactly.  In `hart_traps` four
writes delegate, enable and lower the privilege, and leave one to spoil a
register in a handler; one line that can and one that cannot be set by software,
of the two levels, are the cases that `Signal` and `Highest` tell apart.  In
`mmu` a table that points at itself or at the other, a page that holds its own
table, a table in ROM, a table in an unmapped frame, and page numbers above the
32-bit space all occur with two RAM frames, and two stores are enough to map a
table and then to change it through the mapping.  In `uart` three bytes give
batches that fit partly, shifts of more than one byte, and, with trigger levels
1 and 2 as 1 and 14 of 16, a FIFO that is filled above its level; two values
tell a byte from its neighbour.  In `clocks` a half of two values and a time of
four carry and wrap in every order with the writes; the proofs are for all sizes.
In `instructions` words of 4 bits have the most negative number, -1, 0 and their
neighbours, amounts of shifts below and above the word, and addresses whose
accesses begin in one region and end in the next or at the end of memory; the
three triples of operands have rd equal to either source and to x0; one register
reaches each of its 16 values, next to another's.

**Symmetry.** Only in `arrays`: names of arrays are interchangeable there.

**Deadlock.** The simulator, the store, the hart, the memory, the UART, the board
and the executor can always do something, and this is checked.  `arrays` stops at its bound on calls;
a session ends after the exit command; those runs do not check deadlock.

**Fairness.** `history` assumes that a call that has begun runs on: it is a
function on one thread.  `session` assumes that the simulation thread runs when
it can, and that the server wakes up when what it waits for is there: both are
threads of the operating system that block on channels and nothing else.  Nothing
is assumed of GDB, of the user or of the program; that a resume is reported holds
for the instance's program, which powers down.  `clocks` assumes that the board is
stepped as long as it is on, which is what the simulation thread does when it
runs; a debugger that halts it for good stops its time, and the timer with it.

## Proofs

### Simulator

`Simulator_proofs` proves all safety of run `history`, for every machine, every
set of custom ticks, every snapshot interval and every bound:

* `TypeCorrect`, `SnapshotsOrdered`: types, and the order of snapshots with
  HEAD's base the last one not after HEAD, in the middle of every loop.
* `TimeTravelIsExact`, `HistoryIsReplayable`: the state shown is the state that
  was there, and the recorded ticks recompute history.
* `Refinement`: `Simulator` implements `Timeline`.
* `ScanIsRight`: `undo_steps_until` ends in the latest past state that `pred`
  accepted, has asked about every state it passed once, and visits in reverse.
* `NothingIsLost`: navigation never makes fewer states available.

The assumptions are those of module `Simulator` (`SimulatorAssumption`: ticks
map machine states to machine states, the bounds are numbers).
`TimeTravelIsExact`, `HistoryIsReplayable` and `Refinement` also assume
`ClearAnywhere = FALSE`, that `clear_forward_history` is called from
outside only while HEAD is detached; run `delete_future` shows that they are
false without it.

`SnapshotOrder` is not inductive: in the middle of a replay HEAD could run past
the next snapshot, and a scan could enter a segment with no snapshot.
`StructInv` adds where the target of the replay and the segment of the scan lie
relative to the snapshots (`CallOK`), that HEAD is placed on its base and counts
no more custom ticks than there are (`Placed`), and that every state index is
one history has (`Recorded`).  `TimeTravel` needs `HistoryInv` on top: every
snapshot holds the state of history at its index, the custom ticks before HEAD
are those HEAD has counted, and a detached HEAD counts exactly those (`Shown`),
custom ticks are in order (`TicksOrdered`), and a scan starts only from a HEAD
whose state is saved (`Clean`).  Each action has its lemma.  `ScanIsRight` needs
`ScanInv`, which says in the middle of a scan what it has found out so far: the
states asked about are those from HEAD's segment up and all above the segment, and
the match is the latest of the accepted ones (and in the replay that ends the
scan, that its goal is it).  `Clean` is why a scan loses nothing.

### Allocator

`SpaceTime_proofs` proves all of run `store`, for every set of values and every
bound on cells, slots, snapshots and removals: `ReferencesExact` (`TableExact`:
as many references as pointers, plus those of dirty HEADs that `make_snapshot`
replaced and never gives back, which `leaked` remembers),
`SharingIsInvisible` (`ImplementsStore`), and `CompactIsItsCopy`, that copying
an arena without gaps gives the same ids.  The only assumption is that the bounds
are numbers.

Counting pointers is not inductive by itself.  `StoreInv` counts, for each cell,
the arenas that hold it (`Counted`); that is the same as counting pointers only
because the filled slots of an arena point to different cells (`ArenaOK`), which
holds because an insertion takes a cell without references, and such a cell is in
no arena.  It adds that both free lists are exact and without repetition
(`TableOK`, `ArenaOK`), that snapshots have no gaps (`Compact`), and that a HEAD
that is checked out owns nothing.  A method that writes first makes HEAD its own
copy; `OwnedInv` is the invariant between that and the write, so that each operation
has one lemma for both kinds of HEAD.  `insert` adds the object before it copies
HEAD (`lib.rs:297`), and `AddThenClone` shows that the order makes no difference.
`InOrder` is a CHOOSE of an increasing enumeration; that there is one is proved by
induction over sets of numbers (`EnumerationExists`).

The refinement compares what arenas contain (`Objects`).  A write goes in place
only if the count is 1, and then `Counted` says that no snapshot holds the cell; an
insertion or a copy goes to a cell that nothing holds; deleting keeps the
contents of every cell.  So no operation changes what a snapshot contains.  The
names `make_snapshot` gives are shown to be the ranks of the old ones
(`Ranks`), which is how `SnapshotStore` states the renaming.

### Session

`GdbSession_proofs` proves all safety of run `session`: `ServerAndTargetAgree`
(`SessionOK`), `ConsoleLosesNothing` (`StreamsExact`), `FutureIsKept`
(`TravelKeepsFuture`), `BreakpointsStopRuns` (`BreaksStopRuns`), for all batches,
buffers, FIFOs, commands and bounds, with and without Ctrl-C.  Besides
`GdbSessionAssumption` (commands carry arguments of their types) they assume of
the program `ProgramSoundOn(Machines)`: an instruction does not touch the output
buffer of the interface, which is not in the program's address space, nor the
history variables, and takes bytes out of the UART's receive FIFO but puts none in.
`MCGdbSession` assumes the same of the machines its program reaches
(`ProgramIsSound`), which TLC evaluates.

`SessionOK` is not inductive, as it speaks of GDB only while it takes the target
for halted.  `AloneOK` follows the one run that GDB has asked for: it is a command in
the queue, or the mode of the thread, or an event, and in exactly one of the
three (`RunOnce`).  `ConsoleExact` speaks of the viewed state only, and travelling
changes the view: `HistoryOK` says of every state of history that its buffer has
its output and that it has heard what the states before it have.  `ErasesMarked`
says that a command which erases the future, and is still queued, is already
known as one.  `TravelKeepsFuture` has three parts: no step loses the past or the
current state, only edits and the reading of a CSR erase what comes after, and
the latter does not change the current state.  That the reading of a CSR erases
the future is a defect of the code, which the property names instead of
forbidding; nothing else that reads does.

### Core

`Hart_proofs` proves all six properties of `hart_traps`, for every address
space, every vector, all lines and every program: `TypeCorrect`,
`DataAccessCorrect`, `TrapsCorrect`, `ReturnsCorrect`, `QuietCorrect`,
`MachineStateCorrect`; and `SeipCorrect`, part of `TypeOK`, that the two
sources of the supervisor's external interrupt do not mask each other. The
invariant is `Good`: to the checked invariants it adds `Kept`, that what the
last trap into a level saved is still in mepc and MPIE and MPP (sepc, SPIE,
SPP), which is why a return restores it, and that MPRV is never set below
machine mode. `QuietAfterStep` is inductive next to it: the check at the end of
a step takes one interrupt, and taking one masks every other that was ready,
because a trap to a level clears that level's enable and machine mode masks the
supervisor's interrupts (`QuietAfterTrap`). A step is a composition of
functions on the hart, so each function has its lemma, and the action property
is put together from `Guarded` before and after retirement
(`GuardedTransitive`).

`Mmu_proofs` proves, for tables and pages of any size, any memory map and any
memory image, all of run `mmu`: `TypeCorrect`, `RomCorrect`,
`DirtyCorrect`, `MarksMoveNothing`, `TranslationCorrect`.  `Outcome` says what a walk returns (the
entry it found is in memory, its flags are those of STEP 7, and it changes them
only in RAM); the invariant is `Kept` of memory and of the entries stored
through, which also holds between the two halves of an AMO.  For the last
theorem `Same` relates memories that differ in marks of entries in RAM:
translations agree on them (`TranslateSame`), since a mark is refused only
outside RAM, and a step that stores nothing leaves memory `Same`.
`TranslationCorrect` (`PagesTranslate`) compares the walk, which is one level after
the other and marks on its way, with the reference definition of a right.

`Executor_proofs` proves all of run `instructions`, for words of any width, every
address space, every set of operands and immediates and every program:

* `ExceptionsArePrecise` (`Precise`): each kind of instruction has checked what can
  fail before it writes, except the two the property names.
* `RegistersSound` (`TypeOK`): registers, memory and pc keep their ranges, x0 is 0
  and pc is aligned.
* `ComputesArithmetic` (`ArithmeticRight`): every arithmetic and shift
  instruction, `lui` and `auipc` agree with a definition that says what the result
  is, by the bits, by an equation or by the division with remainder, where the
  closure says how it is computed (`ResultsRight`); and `jal`, `jalr` and the
  branches lead where they should (`TransfersRight`).  There the target is an
  integer that may lie outside the words: the jump ends at a word that differs
  from it by a multiple of their number, with the link of the next word written,
  or, if it is not aligned, in the exception with everything as it was.  The base
  of `jalr` is what the register held before the link.  A branch is taken exactly
  if `slt` or `sltu` of its operands says so (or they are equal).
* `AccessesMemory` (`MemoryRight`): loads, stores and AMOs move the bytes they
  name, in both endiannesses, and nothing else.  `lr` and `sc` are not in it.

The assumptions are those of `Words` and `Executor`: a byte has a bit at least,
memory and vectors are of their types, there are registers x0 and x1, and
immediates are in the signed range of a word.  `TypeOK` is inductive; the two
properties about results follow from it, state by state.  They are facts about
numbers, for which the file has a small library of its own:

* `Induction` is induction over a set of numbers, from the well-foundedness of
  `<`; `Recursion` says that a function defined by recursion over numbers exists
  and satisfies its equation.  Both are about sets and functions, not operators.
  `Pow2Facts`, `Pow2Add` and `TotalFacts` are what they give for the recursive
  functions of `Words`.
* `DivisionIsUnique`, `DivideTwice` and `HigherBits` are the arithmetic of
  quotients and remainders that shifting and cutting need.
* `SetOfBits`: the sum over a set of bits is the word that has these bits, which
  makes the bitwise operations right (`RightBitwise`), and shifts those of bits
  (`RightShifts`, `SignedBits` for the arithmetic one).
* `GetNumber` and `JoinDigits`: the bytes of a number put together in either order
  are the number again, hence `PutGet`, that a load returns what a store of the same
  length put there, and `LoadNarrows`.
* `WrapMoves` and `EvenTarget`: wrapping keeps the lowest bits of an address, so
  that alignment can be checked before or after it (`JumpLeads`, `BranchLeads`);
  `UpperIsRight` for `lui` and `auipc`.
* `RightProducts` and `RightQuotients`: the upper half of a product of any mixture
  of signs, and division that truncates, with its one overflow (`QuotientRange`).

### Devices

`Uart_proofs` proves all of run `uart`, for FIFOs of any length, any bytes and
any trigger levels: `TypeCorrect`, `StatusCorrect`, `Refinement`.  `StatusCurrent`
has one direction for all guests (`NothingHidden`) and both for those that poll
(`NothingPromised`): `write_fcr` clears the FIFOs and not the line status, so after
it DR stays set over an empty receiver, and THRE and TFE low over an empty
transmitter, until the next byte is read or the next exchange.  The invariant
adds to the checked ones that what a polling guest has seen still holds when it
acts: the terminal only
adds input and makes room for output, so what was seen is old, but not wrong.
Without that the refinement fails, since a guest that reads an empty FIFO
receives a byte nobody sent.

`Board_proofs` proves all of run `clocks` but its liveness, for words of any
size: `TypeCorrect`, `TimerLineCorrect`, `Refinement`.  `TimerLine` is inductive
next to types, since `Update` sees the comparison before and after; what makes it
hold is that `ahead` starts false with both registers 0.  The refinement shows
that a half that wraps and its carry add one to the wide count (`Incremented`
against `Plus1`, by arithmetic of quotients), that writing a half is `WithHalf`,
and that the skip flags are the set `fresh`: an instruction's own write sets the
flag and its own counting clears it, and a debugger's write is passed over by the
next instruction.  `Clocks` does not require the last, nor that a store into
`mtime` makes it 0, as the code does (`clint.rs:37-51`): its `Poke` may leave the
next count alone or not, and its `RunStore` leaves any time.  A program with both
corrected would implement it as well; in return nothing is promised of the value
that a store into the time leaves.

### Only model-checked

* Liveness: `CallsReturn`, `ServerReturns`, `TimerFires`.  The provers have no rule
  for ENABLED, which fairness speaks of.
* `PagesExact`, `RangesAgree` and `ImplementsArrays`: the operators of
  `ArrayStorage` are RECURSIVE in the level of a page, as the code is, and the
  provers take no module that declares such an operator.  `Executor_proofs` shows
  the way around it (recursive functions over a set, with `Induction` and
  `Recursion`), but pages are dropped and written by recursion over tables, whose
  domain would be the set of all tables.  That is left for later (see the plan):
  this component is checked, on three levels of pages, and not proved.

## What the runs disagree with

Three violation runs show the code doing something else than its own words:

* `delete_future`: `step_with` sets `next_custom_tick_index` before it pushes
  the tick, so `clear_forward_history` at the end of history drops that tick.
* `stale_stop`: `Pause` always answers with an event, so a Ctrl-C that crosses
  a stop leaves one event too many, which the next resume takes for its own.
* `hart_mstatus`: `write_mstatus` stores a one-bit field if the value has its bit
  (`status.rs:355`), not if the mask has it, so no write clears one.

Met while reading, and not the subject of a run of their own:

* Making a snapshot after a removal renumbers the objects of HEAD: the copy's
  arena is built without the gaps (`snapshot.rs:31`, `lib.rs:139`), so ids that
  were never removed become invalid, where `errors.rs:4` says that an id is
  invalid only if it was never created or was removed.  `SnapshotStore` promises
  no more than the code does, and `ImplementsStore` is about these ids.
* `read_scause` answers with the cause of the last trap into machine mode
  (`trap.rs:511`).
* The low bits of a megapage come from VPN[1] (`mmu.rs:424`).
* 32-bit writes of `mtime` and `mtimecmp` clear them (`clint.rs:37`), so a program
  cannot set the timer to anything but 0; and the timer's line is not raised at
  power-up though `mtimecmp <= mtime` holds.  Both are in `Board` as they are.
* The CSR `time` is read from the upper half of mtime and `timeh` from the lower:
  `read_mtime` (`core/mod.rs:626`) asks for 8 bytes, whose halves `Clint::read`
  (`clint.rs:132`) takes in the order of their addresses.
* A debugger's write of a counter suppresses the count of the next instruction,
  since `skip_next_*` is set by every write, where `counters.rs:96` has "written by
  guest code in the same step"; `Clocks` allows it and does not require it.
* Replacing a dirty HEAD by a snapshot gives no reference back (`lib.rs:139-149`
  has no `delete_snapshot` for it), so the objects of a HEAD that was ever
  snapshotted are never freed and are copied on every first write, where
  `lib.rs:320` says that an object only HEAD refers to is dropped, and `table.rs:8`
  that a pointer that is no longer used must be reported.  `leaked` in
  `SpaceTime` counts these.  Likewise `drop_instance` keeps the reference to
  `reset_page` (`array_storage.rs:418`; `leaked` in `ArrayStorage`).
* `STArrayAccessorMut::iter_range` (`lib.rs:535-554`) leaves out the last element
  of a range that has an end, and gives none for one that has not, unlike
  `STArrayAccessor`'s and the contract of `allocator.rs:113-116`.  `RangesAgree`
  says how short it falls; outside the tests nobody calls it.  `iter_range_mut` is
  a `todo!()`.
* Reading a CSR from GDB is recorded as a custom tick (`target.rs:312-319`), so it
  erases the future when the viewed state is in the past, where `README.md:63` has
  a command for that.  `TravelKeepsFuture` names it.
* Output is lost without a word when the output buffer is full, or when the user
  goes to the state before it was made and steps on (`target.rs:183-198`).
  `StreamsExact` leaves both out.
* A program that clears A and leaves D in an entry loses D at the next load
  through it (`mmu.rs:427-429`): a load writes D as "is it a write?".  `DirtyKept`
  is about marks that no program wrote.
* `sc` sets rd before its store, and `csr_op` before its write, can fail; an sc that
  has rd among its sources runs again with 0 in it after a page fault.  `Precise`
  names the two.  An sc always succeeds, also after a trap since the lr.
* AMOs report misaligned and refused accesses as those of a load
  (`execute.rs:945`).
* The PLIC masks all sources but 0 out of the first word of enables
  (`plic.rs:195`) and its register addresses are byte offsets used as indices
  (`plic.rs:114`).
* The UART's interrupt enables are read from the line status register
  (`uart.rs:74`), and clearing a FIFO leaves the line status as it was
  (`uart.rs:380`): a driver that clears the receiver and then polls reads bytes
  that are gone until the next one comes, and one that clears a full transmitter
  waits for room until the next exchange.  The driver of `examples/demo/uart.h`
  meets the first if something is typed before `uartinit` clears the FIFOs.
  `StatusCurrent` is exact for guests that do not.

## Plan

In order; each step adds modules and keeps those before it.

1. *(done)* `Timeline`, `Simulator`; `Table`, `SpaceTime`, `SnapshotStore`;
   `ArrayStorage`, `Arrays`; `SimTarget`, `GdbSession`; proofs about `Simulator`.
2. *(done)* `Registers`, `Hart`; proofs about `Hart`.
3. *(done)* `Mmu`; proofs about `Mmu`.
4. *(done)* `Uart`, `Channels`; proofs about `Uart`.
5. *(done)* `Board`, `Clocks`; proofs about `Board`.
6. *(done)* `Words`, `Executor`.
7. The cause and value registers in `Hart`.
8. *(done)* Proofs about `SpaceTime` (reference counts, refinement), about
   `GdbSession`, of `ScanContract` and `TravelLosesNothing`, of `PagesTranslate`,
   and of all properties of `Executor`.
9. `ArrayStorage` with recursive functions over levels in place of recursive
   operators, and `PagesExact` along the lines of `StoreInv`: references of a page
   are those of the pages above that hold it, level by level.

## Not modelled

* The **PLIC**: no source of it can be enabled through its registers, so its line
  never rises and there is nothing that a model of it would do.
* The **decoder**: a table and five permutations of bits, without state, that
  `riscof-tests` runs the architecture's test suite for.
* The **type maps** of the allocator: one instance of what `SpaceTime` and
  `ArrayStorage` model per type, found by its TypeId.
* The **memory** devices (wrappers of arrays in the allocator), the **address
  map**, formatting, drawing, argument parsing, the **TCP** wrapper and the
  **test programs**.
