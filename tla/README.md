# pghal in TLA+

pghal ("Pretty Good Hardware Abstraction Layer") is a C library with which small
command line programs drive FPGA cards: register buses over PCIe or a serial line,
self-description tables (SDB) that say which cores a card has and where, I2C and SPI
masters, the chips behind them, and a few register cores.  This directory holds a TLA+
model of the library, the TLC runs that check it on small instances and TLAPS proofs about
every part that is modelled.  Paths below are relative to the repository; `src/x.c` is the
library's file `x.c`.

To check something: `tlc -config XdmaBus.cfg MCXdmaBus`, and likewise for the other
`.cfg` files (the table under "Runs" names the module of each).  `tlapm` checks the proofs in
`XdmaBusProofs.tla`, `UartBusProofs.tla`, `WbI2cProofs.tla`, `PghalListProofs.tla`,
`SdbRomProofs.tla`, `SpiChipsProofs.tla`, `Si57xProofs.tla` and `CardRegsProofs.tla`; the
longest takes a few minutes.  `PROJECT.json` ties every definition to the lines it models.

## Inventory

| Part | State it keeps | Operations | What is hard |
|---|---|---|---|
| Bus dispatch, `pghal.c` | the bus and its driver | `pghal_bus_read`, `pghal_bus_write` | a NULL bus returns 0 and leaves the output as it was |
| PCIe bus, `sdb_xdma.c` | descriptor, one mmap'ed window and where it is | open, word loops over load and store | a window left by an earlier call, a failed mmap, address wrap, several programs |
| Serial bus, `sdb_uart.c` | a terminal | word loops over a command and a reply | replies matched by position only, short reads, lost characters, replies left by a program that was killed |
| I2C master, `wb_i2c.c`, `pghal_i2c.c` | none: the core has it | `write_read`, `detect` | driver and core run concurrently; acknowledges and lost arbitration; waits without a limit; a bus left taken by a killed program |
| SDB, `wb_sdb_rom.c` | a tree of roms with their entries | recursive discovery, lookups by entry numbers | numbering with gaps, nested windows, cycles |
| SPI master, `wb_spi.c`, `pghal_spi.c` | none: the core has it | `write_read`, 16-bit register reads and writes | an access is two transfers with the chip held selected; polling a concurrent core; a chip left selected by a killed program |
| AD9510, `chip_ad9510.c` | a copy of 91 registers | reset, upload, download, commit, two configurations | which edits of the copy reach the chip |
| ISLA216P, `chip_isla216p.c` | a copy of the register groups | reset, upload, download, test patterns | the order of a test mode and its patterns |
| Si57x, `chip_si57x.c` | factory, current and new settings, crystal | reload, divider search, send, download | freeze protocol over transfers that may fail; bit fields; a search that may find nothing |
| GPIO, BPM parameters, scope: `wb_gpio_raw.c`, `wb_bpm_params.c`, `xwb_scope.c` | the cores' registers; the scope's last download | set and clear, read-modify-write, arm and stop | calls of several programs interleave word by word |
| FMC CSR, Xilinx DNA, XVC: `wb_fmc_csr.c`, `wb_xilinx_dna.c`, `wb_xvc_jtag.c` | a copy of what was read, the JTAG shift's words | enable bit, identification, upload, start and download of a shift | like the cores above: calls interleave word by word |
| Boards, `fmc/*.c` | handles of the drivers on a board | one init function each | lookups by fixed numbers, shifted when an entry is missing |
| Lists and registration, `list.h`, `pghal.c` | rings of cells | append, delete, two kinds of loop | aliasing in short rings; loops while lists change |
| Programs, `tests/` | none | fixed sequences of calls | they are the environment |

The layers call downwards only.  A program opens a bus, lets SDB discovery find the cores
or uses fixed offsets, and calls chip drivers; those go through the operation tables
`struct pghal_i2c` and `struct pghal_spi` to the masters, and everything ends in
`pghal_bus_read` and `pghal_bus_write`.  There are no threads, callbacks or interrupts in
the library.  Concurrency comes from outside: several programs on one card (no driver has
a lock operation, both are NULL), the cores that shift bytes while the driver polls, other
masters on the I2C wires, the bridge and the line of the serial bus, and the scope's
trigger.  Nothing is persisted by a program, but the hardware keeps what a program that was
killed (by its user, out of a wait without a limit, say) left in it, and the
next program's init functions start from there.

What must hold, part by part: an access reaches the register asked for; a transfer
moves all its words once and in order, however it is carried; replies stay with their
requests; a transfer on I2C or SPI is exactly the one asked for, byte by byte, and its
result tells what happened; a lookup finds what the tables say; a chip ends up with what
the driver's copy says; an oscillator is never left frozen or changed while it runs; and
programs that use different parts of a card do not disturb each other.

## Modules

| Module | Models | State and actions |
|---|---|---|
| `PghalBus` | data shared by the bus drivers | `Calls` is a transfer's arguments and loop variables, `MoreWords` and `Advance` the loop; no variables |
| `WbBus` | what a bus promises (abstract specification) | atomic words in order, then the length; a program may die or be refused |
| `XdmaBus` | `sdb_xdma.c` | `data`, `page`, `base` are `xdma_node`'s window; `Open`, `Begin`, `Map` (`xdma_remap`), `Access` and `Fault` (the load or store), `Return` |
| `XdmaBusProofs` | | theorems about `XdmaBus` |
| `UartBus` | `sdb_uart.c` | commands, line, terminal queue; `Send`, `ReadFull`, `ReadShort`, `Return`, and the bridge's `Serve`, the line's `Deliver` and `Drop`; `Kill`, and `Open` with its flush |
| `UartBusProofs` | | theorems about `UartBus` |
| `WbI2c` | `wb_i2c.c`, `pghal_i2c.c` | `pc`, `stage` and `i` are the place in `wb_i2c_write_read`; one action per command and per poll; the core, chips and other masters as steps of their own; `Kill` and `Restart` (`wb_i2c_init`) |
| `WbI2cProofs` | | theorems about `WbI2c` |
| `ListSpec` | what a list promises (abstract specification) | a sequence of nodes for each head |
| `PghalList` | `list.h`, registration in `pghal.c` | `next` and `prev` of every cell; one action per operation, `walk` is the loops under way |
| `PghalListProofs` | | theorems about `PghalList` |
| `SdbRom` | `wb_sdb_rom.c` | `heap` is the roms, `stack` the activations of the recursive function; lookups are operators on the tree |
| `FmcBoards` | `fmc/fmc_adc250m.c`, `fmc/fmc_dio32ttla.c`, over `SdbRom` | `LookUp` is one lookup of a board's init with the handle and the initialisation it leads to |
| `SdbRomProofs` | | theorems about `SdbRom` and `FmcBoards` |
| `WbSpi` | `wb_spi.c`, `pghal_spi.c` | one action per register access of the core; `Shift` is the core; `Kill` inside an access, `Restart` (`wb_spi_init`) |
| `SpiChips` | `chip_ad9510.c`, `chip_isla216p.c`, over `WbSpi` | `mirror` is the drivers' copies, `script` the accesses a call still has to make |
| `SpiChipsProofs` | | theorems about `SpiChips`, with the `WbSpi` below it |
| `Si57x` | `chip_si57x.c` | the three settings and the crystal; one step per I2C transfer, which may fail anywhere; `Kill` between transfers |
| `Si57xProofs` | | theorems about `Si57x` |
| `CardRegs` | `wb_gpio_raw.c`, `wb_bpm_params.c`, `xwb_scope.c`, `wb_fmc_csr.c`, `wb_xilinx_dna.c`, `wb_xvc_jtag.c` | a call is a script of word transfers, one step each |
| `CardRegsProofs` | | theorems about `CardRegs` |
| `MC...` | | small constants for TLC |

How they compose.  `XdmaBus` and `UartBus` both implement `WbBus` (instances
`WB!Spec`), so what is modelled on top may take a word transfer as one atomic step:
`CardRegs` uses words, `WbI2c` and `WbSpi` use register accesses of their cores.
`SpiChips` extends `WbSpi` and carries every call down to the core's registers.
`FmcBoards` extends `SdbRom` and starts a board on the tree that was discovered.  `PghalList`
implements `ListSpec` (instance `Lines`), so `SdbRom` may keep its lists as sequences.  `Si57x`
stands on I2C transfers that do all, part or nothing of what was asked, which is what
`WbI2c` shows a transfer can do when nobody looks at its result.

Operators with "Mutant" in their comment are plausible mistakes.  Each stands before the
definition it would replace, and replacing it breaks the property named in
`PROJECT.json`.

## Runs

| Run | Module, configuration | Question | Distinct states |
|---|---|---|---|
| `xdma_bus` | `MCXdmaBus`, `XdmaBus.cfg` | Do accesses hit the register asked for, and do callers see the abstract bus, when two programs move their windows and one window cannot be mapped? | 1,042,448 |
| `xdma_bytes` | `MCXdmaBus`, `XdmaBytes.cfg` | Does a transfer return the bytes it moved? **No** | |
| `uart_faults` | `MCUartBus`, `UartFaults.cfg` | Is the serial bus the abstract bus up to its first fault, and what survives a lost character, a pause and a killed program? | 2,013,826 |
| `uart_timer` | `MCUartBus`, `UartTimer.cfg` | Does a read return whole replies? **No** | |
| `i2c` | `MCWbI2c`, `WbI2c.cfg` | Are transfers, sweeps and results right, with one lost arbitration and one killed program anywhere? | 168,974 |
| `i2c_nack` | `MCWbI2c`, `WbI2cNack.cfg` | Does -2 mean "not acknowledged"? **No** | |
| `i2c_lost` | `MCWbI2c`, `WbI2cLost.cfg` | Is every lost arbitration reported? **No** | |
| `lists` | `MCPghalList`, `PghalList.cfg` | Are the rings of pointers the sequences their users take them for? | 21,652 |
| `sdb` | `MCSdbRom`, `SdbRom.cfg` | Does discovery end with a tree in which lookups find what the tables say, and which cores does a board start? | 205,310 |
| `spi` | `MCSpiChips`, `SpiChips.cfg` | Do the chips end up with the drivers' copies, and reads with the chips' registers, also after a program was killed? | 365,211 |
| `si57x` | `MCSi57x`, `Si57x.cfg` | Is every frequency set as asked, and does a send repair what failed, or was cut off, before? | 1,159,740 |
| `card` | `MCCardRegs`, `CardRegs.cfg` | What do two programs on one card keep of their calls? | 3,535,447 |

### What the passing runs show

* `xdma_bus`.  `OnTarget`: whatever window a call before left, the word loaded or stored is
  the one asked for.  `FaultsOnlyOffCard`: a window that failed to map is kept by
  `xdma_remap` like a good one, but never in the way of a register outside it.
  `WholeTransfer`: an odd length is rounded up, never down, by less than a word.
  `Implements`: windows and their moves cannot be seen from above.
* `uart_faults`.  Up to its first fault the serial bus is the same abstract bus
  (`Implements`).  A lost character costs the word it was in and not the step between replies
  and requests (`InStep`, `WritesLand`, `ReadsTrue`), because the line then falls silent and
  the timer ends the read.  A program killed while a reply is under way leaves it to the next
  one, whose flush on opening the terminal (`src/sdb_uart.c:240`) removes what has arrived by
  then; a flush that comes before the last character does not, and neither that nor a pause
  inside a reply leaves any protection.  With or without, no transfer hangs
  (`TransferEnds`), as long as one character of each reply arrives.
* `i2c`.  A call that lost no arbitration puts exactly its transfer on the wires and
  leaves the core and bus at rest (`CleanTransfer`); bytes are fetched when complete
  (`FetchedAsRead`); no command overruns another (`NoOverrun`); the result of writes and
  probes tells the last acknowledge (`LastAckReported`), which is enough for sweeps
  (`SweepExact`).  Every call returns, also after a lost arbitration, if the other master
  ever frees the bus (`CallReturns`).  A killed program costs the transfer it was in: the core
  finishes its byte, `wb_i2c_init` of the next program sends no stop, so the bus stays taken,
  and the next transfer begins with a repeated start and is complete.
* `lists`.  The rings stay closed both ways and apart (`Linked`), a loop sees what was in the
  list when it began, also when a safe loop deletes the entries it is at (`WalkExact`), and
  followed forwards the rings are the promised sequences (`Implements`).  The library itself
  only ever adds; that a node is in no list when it is added, and that its head has been
  initialised, is up to the callers: the module lists of PCIe and serial buses are not
  (`src/sdb_xdma.c:183`, `src/sdb_uart.c:180` are commented out), and nothing adds to them.
* `sdb`.  Scan and lookups number entries alike although skipped records leave gaps
  (`LookupExact`); an address is offset by the window of the bridge right above it
  (`AddressInBridge`; windows do not add up, so a table behind two bridges must hold
  absolute addresses in the inner bridge's record); the tree is well formed at every
  moment (`HungOnce`); the recursion runs out of stack exactly for tables that lead back
  to themselves (`OnlyCyclesOverflow`, `DiscoveryEnds`).  A board with a complete table
  starts with every handle on the core of its own entry (`OwnCores`), except that the GPIO
  handle of a DIO board ends up on its information port.  An ADC board whose entry 1 is
  skipped has every handle on the core before its own, and initialises those
  (`GapMovesAll`): the shift is meant for older tables that lack the enable core, but their
  other entries move up, so they do have an entry 1 and are not recognised; the enable bit is
  then written to the system I2C core.
* `spi`.  Uploads, configurations and test patterns write their range and nothing else
  (`UploadExact`; one that begins with register 0 while the copy has the chip's reset bit set clears
  the registers outside its range, and nothing else), configurations upload all they edit (`NothingLeftOut`), downloads copy
  (`DownloadExact`), a chip sees whole accesses (`WholeAccess`, `ShiftUndisturbed`), the
  test mode comes after its patterns (`PatternsBeforeMode`), and calls return
  (`CallReturns`).  After a program was killed inside an access the chip stays selected and
  the next program's first access continues the open one: it can write one register, or the
  reset bit, that nobody asked for; from the second access on everything is as asked
  (`KillCostsOneAccess`).
* `si57x`.  For every whole frequency of the parts the search finds the smallest divider
  with the highest speed divider (`SmallestDivider`), and after a send without failures the
  chip's own registers give the frequency to the last bit of the reference
  (`TunedAsAsked`).  Settings change under a freeze only (`ChangesFrozen`), and a send that
  does not fail leaves the chip released and running on what the driver believes, whatever
  failed before, and whoever was killed (`SendSettles`; a killed `send_hard` followed by
  `send_smooth` alone, which does not release the freeze, leaves the oscillator frozen).
* `card`.  Port bits are kept for the program that drives them, under any interleaving
  (`PortKept`: set and clear registers are enough).  Everything else is kept as long as no
  two calls on one core overlap, and a call never harms another core (`AsAsked`).  What is
  kept is what the code keeps of the arguments: averages and calibrations cut to their
  limits, and the lowest byte of each trigger argument (256 is written as 0).  The
  precondition is needed, as read-modify-writes, pairs of words and the two writes of a
  shot are not atomic: an update lost to an overlapping call, and the shots of two programs at
  once, are outside `AsAsked`, and nothing in the code prevents them.

### What the failing runs show

Each checks one sentence of the source; `PROJECT.json` quotes it under "findings".

* `xdma_bytes`: the operations are said to return the number of bytes written or read
  (`src/pghal.h:75`); a length of 1 moves four bytes and returns 1.
* `uart_timer`: the timer between characters is said to be unused (`src/sdb_uart.c:237`);
  with VTIME 1 and VMIN 11 it is in use, and a pause splits a reply.
* `i2c_nack`: -2 is said to mean no acknowledge (`src/wishbone/wb_i2c.c:21`); it is the last
  acknowledge bit only, so refused bytes go unnoticed.
* `i2c_lost`: -1 is said to mean a lost arbitration (`src/wishbone/wb_i2c.c:20`); the
  first poll after a command does not look at the bit, so a loss that is over by then is not
  seen.

### Bounds, and why they are enough

* `xdma_bus`: two programs, four registers in two windows, transfers of five bytes (two
  words, the second in part), which start at every register: so inside a window, over its
  edge and over the end of the address space.  Only the last window can be mapped, so the
  one `xdma_create_open` asks for always fails.  The proofs remove all of these bounds.
* `uart_faults`: two registers of two binary digits, so replies of five characters; one lost
  character, one pause and one kill, any two of them in a behaviour (`MaxFaults`), suffice to
  show every kind of mismatch between queue and request.
* `i2c`: up to two bytes each way is first, last and only byte of each phase; three
  addresses: one with a chip outside the sweep, one empty and one with a chip inside it;
  one lost arbitration and one kill (`MaxLosses`, `MaxKills`), at any moment of any call, and
  further calls after them.  The next program starts only when the core is idle: a restart
  takes longer than a byte.
* `lists`: two lists, four nodes, each cell static or allocated; one loop for each list.  Four
  nodes have an inner one on both sides of which there are others.  The theorems remove the
  bounds.
* `sdb`: seven slots; 2592 memories with tables that are shared, nested, overlapping,
  headless, empty or cyclic, from two roots; every lookup of up to three numbers; stack for
  ten activations (`MaxFrames`), more than there are tables; 15 board tables in nine slots,
  complete, short, and with one, two adjacent or two distant records missing.
* `spi`: two chips, all registers, any two calls one after the other: the second starts
  from what the first left in the core, the chips and the copies.  At first the clock divider
  is held in reset, as a program that was killed inside `chip_ad9510_soft_reset` leaves it, so
  that its other registers differ from the copy.  One kill (`MaxKills`), at
  any step of the first access of a call (`InFirst`: the later accesses differ only in
  address and data).
* `si57x`: registers of the reference hold four values instead of 256 (`FracBase`), all whole
  frequencies from 10 to 280 MHz and two above them, four calls of a program (a reload, a search and a
  send with one more), two faults (`MaxFaults`) that are a failed transfer at any byte or a
  kill; kills for some of the frequencies only (`FaultFreqs`).
* `card`: three calls are two that overlap and one before or after; ports of three bits,
  words of six bits with the average in the upper two and two bytes of two bits below
  (`ByteMod`), and arguments below, at and above the limits of their fields: averages to 4,
  triggers of more than a byte and of less than zero, gains and offsets of more than
  their 16 bits, here four.

`CHECK_DEADLOCK FALSE` stands where the system really stops: programs killed by an access
(`xdma_*`), a discovery that has returned or run out of stack (`sdb`), and calls
used up (`spi`, `si57x`, `card`).

### Fairness

Safety needs none.  Liveness assumes: a program that is running its loop goes on (one
thread, no lock, nothing to wait for but the polls themselves); the I2C core executes its
commands and the SPI core ends its shifts (hardware); the serial bridge answers and the
line delivers; another I2C master ends its transaction.  Nothing is assumed of calls: a
program may never call.  No strong fairness is used.

## Proofs

Every component has theorems, which hold for all values of the constants under the named
assumptions (`ASSUME` in the component's module; TLC evaluates them in the runs).  Each of
the proof modules has an inductive invariant `IInv`, the theorem `Invariance` (`Spec =>
[]IInv`), one lemma per action below it, and from it the theorems named here.  The invariants
were checked by TLC on the instances of the runs before they were proved.  `TypeCorrect`
states the component's `TypeOK` (for `XdmaBus` a property of the run; the others hold in the
runs too, and say little beyond what the listed properties need).

| Module | Properties of the runs proved | Not bounded there |
|---|---|---|
| `XdmaBusProofs` | `TypeOK`, `OnTarget`, `FaultsOnlyOffCard`, `WholeTransfer`, `Implements` | programs, registers, window size, lengths, mappable windows |
| `UartBusProofs` | `InStep`, `WritesLand`, `ReadsTrue`, `Implements` | base and number of digits of a word, registers, lengths, faults |
| `WbI2cProofs` | `CleanTransfer`, `FetchedAsRead`, `NoOverrun`, `LastAckReported`, `SweepExact` | chips, addresses, bytes, losses, kills |
| `PghalListProofs` | `Linked`, `WalkExact`, `Implements` | lists, nodes (finitely many) |
| `SdbRomProofs` | `HungOnce`, `LookupExact`, `AddressInBridge`, `OnlyCyclesOverflow`, `OwnCores`, `GapMovesAll` | memories, roots, lookups, stack |
| `SpiChipsProofs` | `UploadExact`, `NothingLeftOut`, `DownloadExact`, `KillCostsOneAccess`, `ShiftUndisturbed`, `WholeAccess`, `PatternsBeforeMode` | chips, registers, what they hold, ranges, masks, calls, kills |
| `Si57xProofs` | `SmallestDivider`, `TunedAsAsked`, `SendSettles`, `ChangesFrozen` | parts, frequencies, register width, calls, faults |
| `CardRegsProofs` | `PortKept`, `AsAsked` | programs, bits, arguments, calls |

Only model-checked: liveness (`TransferEnds`, `CallReturns` of I2C and of SPI,
`DiscoveryEnds`), which is beyond the proof system.  Every other property of a passing run is
a theorem.

Three arguments come up again.  An induction over the records of a table or the cells of a
ring is made with the least place at which a claim fails (`LeastElement`, `FirstFailure`).  A
recursive function of the models is shown to exist, for its value at every argument, before
it is unfolded (`RoundDef`).  And what may not go on for ever is mapped one to one into a
finite set (a ring into the cells, a path of the discovery into the slots).

### PCIe bus

Assumptions: `BusAssumption` (at least one register, words of at least a byte, lengths
that fit the buffer, at least one value) and `XdmaAssumption` (windows of at least one
word).

`OnTarget` alone is not inductive: between `Map` and `Access` nothing in it
says that the window is around the register, and between two calls nothing says that
mapping and window agree.  `IInv` is `TypeOK`, `WholeTransfer` and, for each program,
`Window(p)`: a mapping that is good starts where the window does; one that failed was asked
for on a closed descriptor or off the card; before an access the register is in the window
and there is a word to move; a program dies only of a failed mapping.  `PageOf` and
`InWindow` are related by lemmas about remainders (the window of a register starts at or
before it, ends after it, and is the only such window).  The loop's counters need that a
transfer that goes on has moved fewer bytes than its length, so that one more word
overruns by less than a word.  For the refinement, `Map` and `Open` are stutters of the abstract bus,
`Access` is its `Word` because by `IInv` the register reached is the one asked for, `Fault`
is its `Die`, and the others are their namesakes.

### Serial bus

`UartAssumption`: digits of a base of at least two, words that are the numbers of a fixed number
of digits, registers whose numbers fit a word.

The properties say that the program is in step, not how.  `IInv` says where the one outstanding
command is: until something fails there is nothing on the way between two words, and during
one the command has not been seen (`Unserved`), or its reply is under way, whole unless
characters were lost, with the register it speaks of as it should be (`Answered`).
`Backlog` bounds what is on the way by one reply for each pause and each killed program and
the one that is waited for.  `Landed` says which words of a transfer are in their registers,
also when its addresses wrap around and meet.  The conversion of a reply into a word
(`ScanOfReply`) is a theorem of its own: digit by digit it gives back what was printed,
whatever the base.  The refinement is the abstract bus up to the first fault: the word is
transferred when the bridge serves it, the other steps are stutters.

### I2C

`I2cAssumption`: addresses are numbers, and the swept addresses and those of the chips are among
them.

`IInv` has five parts.  `DriverOK` and `CoreOK` are the places of the driver and the values of
the core.  `Handshake` ties them: the command of the driver's stage is the only one there is,
the bus is held from start to stop, and while the arbitration-lost bit is up the bus is not
ours.  `Clean`, for a call that has lost no arbitration, says how many events are on the wires
for the place the driver is at, that each is the one meant and answered by the chip
meant, that the bytes stored are those on the wires, and that RxACK is the last
acknowledge.  `Swept` says what a sweep has found among the addresses it is done with.  The
properties follow when the driver is back at its caller.

### Lists

`ListAssumption`: heads and nodes are different cells, NULL and the poison values are none, and
there are finitely many nodes.

`Linked` is inductive once the pointers are functions over the cells (`RingInv`).  No cell in
use has a pointer to one that is not (`NotANeighbour`), so initialising and adding take nothing
out of a ring, and next and prev are inverse on the cells in use (`OneNeighbour`), so after
`list_add_tail` and `list_del` only the two cells beside the node have changed, even when these
are one.  `Chained` says that each ring, read forwards, is a sequence without duplicates of
exactly the nodes of its list.  It needs that a ring returns to its head: the cells
reached before that are all different and the nodes are finitely many (`RingIsShort`).
`AddRings` and `DelRings` say what the two operations make of the sequence.  `WalksOK` is about
the loops: what a loop has seen is a prefix of what the list was, and the cell it is at
is the next; the list of a plain loop is unchanged, and of a safe loop's list what is ahead of
it is still linked.  The refinement to `ListSpec` is these facts read off step by step.

### SDB and boards

`SdbAssumption`: memories of records, and more stack than slots.  `BoardAssumption`: the entry
numbers of boards fit their field.

Each property speaks of a finished tree, so `IInv` says what an unfinished one is.  `Tree`:
each rom but the first is behind a bridge of an older one, at the slot and the address the
bridge gives.  `Lists`: each rom hangs exactly once at its parent, or is still active.
`Frames`: the activations on the stack are a path of the tree; each has read the records of its
table up to its own place, one level above the next, which is for the bridge at which it
stands.  `Complete`: a rom without activation holds all its records.  `Full`: out of stack, the
discovery stands at a bridge.  A lookup and the tables it is compared with then agree step by
step (`PathMeets`).  If no table leads back to itself the slots along the stack are all different,
so it is never longer than there are slots; if one does, it is read again on each of its
levels (`OnlyCyclesOverflow`).  For a board, each handle is what its lookup finds under the
shift chosen first, whatever the others are; a complete table and one without its first entry
are two cases of `LookupExact`.

### SPI and its chips

`SpiAssumption` and `ChipsAssumption`: chips are of one of the two kinds and have at least that
kind's registers, each holding a byte.

`IInv`: `Planned` says that the accesses still to make are the rest of the call's list, with
the copy's values; `Placed`, in which of the two transfers of an access the driver is, and which
byte the core is shifting; `Framed`, which chip is selected and what it has been sent of
this access, but for an access that went on with a frame which a killed program left open
(`Clean`); `Agreed`, that copy and chip agree on the registers the call is done with; and
`Kept`, that all others are as they were.  `UploadExact` is the last two when nothing is left to
do.  The lists of accesses of the calls, loops over ranges and groups of registers,
are proved ascending and without duplicates, so that no later access undoes an earlier one,
and a register 0 with its reset bit comes first.

### Si57x

`Si57xAssumption`: registers of the reference of up to 256 values, factory settings that fit
their fields, and something on the stack.  `CrystalAssumption`: the crystal that the factory
settings give is fast enough for the reference to fit its ten bits before the point (more
than 5670 / 1024 MHz; the parts have 114 MHz).

The search: the products tried are those that put the oscillator into its range
(`DivsInFdco`), 33 products reach every whole frequency of the parts (`ProductForAll`), the
inner loop finds the highest speed divider of a product, and the outer one stops at the least
product that has one.  A send: `Scripted` gives for each place in it what the chip must be
like, with a failed freeze as the only excuse, and leaves nothing to say of the
chip before it: that is why a send repairs what failed or was killed before.

`TunedAsAsked` needs a second invariant, `Tuned`.  What was read without a failure is the
part's crystal, or will be once the recalled registers are read (`CrystalRead`); what
was computed from it is in the registers a send takes (`Computed`).  The rest is
arithmetic: the reference that is computed fits its fields (`QuotientBelow`, by
`CrystalAssumption`), and its digits and the codes of the dividers, the one of `n1` split over
two registers, are read back as what they were written from (`ReadBack`).

### Register cores

`CardAssumption`: programs drive disjoint bits of the port, two bytes make half a parameter
word, words have room for the calibration and average fields, arguments have their types:
triggers and averages are any integers.

`PortKept` needs only where each port call is (`PortSteps`), because no step of another program
writes its bits.  `AsAsked` speaks of cores with no call under way; inside a call nothing in
it says what is already written or read.  `Promised` does, for cores where no calls have
overlapped: a call transfers only to and from registers of its own core (`AtHome`); a busy
core has one call, which is at one of its places, and what is there already and what it
has left to do make together what was asked (`OneCall`, `Place`); a core that is not busy
holds what was asked, and so does the JTAG shift under way (`Settled`); and a finished call
has brought what was promised (`Answered`).  A lemma for each core takes a call from place to
place, one for each call puts it at its first, and a transfer changes no other core
(`OtherCores`).  `OffsetRead` says that a negative offset survives its 16 bits;
`AvgChanged` and `TrigChanged` say that the fields of a parameter word do not run into
each other: one is what was written, cut to its width, and the other is what it was.

## What the models leave out

* Addresses are word aligned, as all offsets in the library are; the 64-bit addresses of
  SDB records are cut to 32 bits where the code cuts them, except `sdb_child`, whose upper
  half is taken as zero.  SDB byte order, names, versions and the dump's layout are left out.
* A failed `malloc` is not modelled (nor checked by the code).
* `PghalBus` moves whole words: the bytes of a partly read word in the caller's memory are
  not told apart.
* The serial terminal is used by one program at a time; its setup calls do not fail.  The
  bridge carries out every write: the driver drops the status of a reply, so that a
  refused write looks like any other, and `WritesLand` says nothing of it.
* What the I2C core shows as RxACK after a byte that the master itself refused is left open;
  status reads whose value is dropped are left out; one program at a time uses the core.  After
  a kill a chip that is holding the data wire can make the bus look lost: that is among the
  losses the model allows.
* SPI: no CPHA (no driver asks for it, and with it the control word starts from an
  uninitialized local); chip addresses are set before use; one byte of data per access;
  an access is taken to be selected alone.
* AD9510 and ISLA216P: the chips keep what is written and are zeroed by their reset bit;
  AD9510 buffering behind its update register is not told apart.
* Si57x: whole MHz; the rounding of doubles is left out (`TunedAsAsked` allows the last bit
  that truncation costs); searches come after a reload (after a failed one `TunedAsAsked`
  speaks again once another reload has read the part's own values); the freeze bit is the one
  the code writes.  Frequencies outside the part's range, which the code does not check against
  `freq_max`, can leave the dividers uninitialized: the model has that as a choice, and no
  property speaks of them.
* Boards: what an initialisation writes to its core is modelled with the core, not again in
  `FmcBoards`; that the DIO board's table has an enable core at entry 2 is all that is known
  of its layout.
* Lists: no two loops over one list at a time, and no loop whose body adds to its own list; no
  code of the library has either.
* Register cores: `xwb_scope_create_direct` has no `return`, so that the handle its caller
  gets is undefined by the language; the model takes it for the one that was
  made, as the callers do.  A scope that is written without the arm bit stops; its pointer, and
  getters of one word, are left out; programs drive disjoint bits of a port; one
  calibration channel.

## Not modelled

* The programs under `tests/`: they are the environment, and say in which order and with which
  arguments the library is called.  The one with logic of its own, the start of a BPM card in
  `tests/bpm_config.c`, polls a calibration word without a limit and prints.
* The vendor's DMA samples, which do not use the library, build files and notes.
* `chip_isla216p.c`: the calibration time is arithmetic on doubles, and `config0` copies memory
  nobody reads.
* Two programs on one I2C core: nothing in the code keeps them apart, so there is no property
  for a model to check.

## Plan

Done: all components as in the inventory, and proofs of every safety property of the runs.

Next: `Si57x` takes an I2C transfer for one step that may be cut short.  That a transfer of
`WbI2c` implements such a step is what links its theorems to those of the driver above
it, and is not stated yet.  (`SpiChips` needs no such link: it extends `WbSpi`.)
