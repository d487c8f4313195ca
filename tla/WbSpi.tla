------------------------------- MODULE WbSpi ------------------------------
(***************************************************************************)
(* wb_spi.c and pghal_spi.c: transfers through an OpenCores style SPI      *)
(* master.  A transfer loads a byte, starts the shift with the GO bit and  *)
(* polls until the core has cleared it; the select register stays as a     *)
(* transfer leaves it, so an access may be made of several transfers.      *)
(* Every step of the driver is one register access of the core.  The core  *)
(* and the chips on its select lines are not part of the repository.       *)
(***************************************************************************)
EXTENDS Integers, Sequences

CONSTANTS
  Lines,       \* the slave selects that have a chip, 0 .. 7 in the core
  ChipRegs     \* the register addresses of each chip

ASSUME SpiAssumption ==
  Lines \subseteq Nat /\ Lines # {} /\ ChipRegs \in [Lines -> SUBSET (0 .. 8191)]

VARIABLES
  \* wb_spi_write_read
  pc,          \* "idle", "ctrl", "select", "put", "go", "poll", "fetch", "deselect" or "dead"
  op,          \* struct pghal_op_rw and the slave select of the transfer
  then,        \* the transfers that follow in the same access
  i,           \* the loop variable
  \* the core
  go,          \* the GO bit of WB_SPI_CTRL
  selected,    \* the lines pulled in WB_SPI_SS
  rxtx,        \* WB_SPI_RXTX_0
  \* the chips
  frame,       \* the bytes a chip has been sent since it was selected
  regs         \* the registers of each chip

spi_vars == <<pc, op, then, i, go, selected, rxtx, frame, regs>>

Byte == 0 .. 255

Op == [ss : Lines, start : BOOLEAN, stop : BOOLEAN, wr : Seq(Byte),
       wr_offset : Nat, rd : Nat, rd_offset : Nat]

SpiTypeOK ==
  /\ pc \in {"idle", "ctrl", "select", "put", "go", "poll", "fetch", "deselect", "dead"}
  /\ op \in Op /\ then \in Seq(Op) /\ i \in Nat
  /\ go \in BOOLEAN /\ selected \subseteq Lines /\ rxtx \in Byte
  /\ frame \in [Lines -> Seq(Byte)]
  /\ \A l \in Lines : regs[l] \in [ChipRegs[l] -> Byte]

(***************************************************************************)
(* The chips and the core (external).                                      *)
(***************************************************************************)
IsRead(header) == header >= 128
AddressIn(f)   == ((f[1] % 32) * 256) + f[2]

(* The third byte of a frame is the register's value, one way or the other. *)
Answer(l) ==
  IF Len(frame[l]) = 2 /\ IsRead(frame[l][1]) /\ AddressIn(frame[l]) \in ChipRegs[l]
    THEN regs[l][AddressIn(frame[l])] ELSE 0

(* Bit 5 of register 0 resets both kinds of chip. *)
Resets(address, byte) == address = 0 /\ (byte \div 32) % 2 = 1

Taken(l, byte) ==
  LET a == AddressIn(frame[l])
  IN IF Len(frame[l]) = 2 /\ ~IsRead(frame[l][1]) /\ a \in ChipRegs[l]
       THEN IF Resets(a, byte) THEN [r \in ChipRegs[l] |-> IF r = 0 THEN byte ELSE 0]
            ELSE [regs[l] EXCEPT ![a] = byte]
       ELSE regs[l]

(* One byte is shifted out to the selected chip and its answer in. *)
Shift ==
  /\ go
  /\ go' = FALSE
  /\ frame' = [l \in Lines |-> IF l \in selected THEN Append(frame[l], rxtx) ELSE frame[l]]
  /\ regs' = [l \in Lines |-> IF l \in selected THEN Taken(l, rxtx) ELSE regs[l]]
  /\ \/ selected = {} /\ rxtx' = 255
     \/ \E l \in selected : rxtx' = Answer(l)
  /\ UNCHANGED <<pc, op, then, i, selected>>

(***************************************************************************)
(* pghal_spi.c: one register of a chip that takes 16-bit addresses.  The   *)
(* write is two transfers, the first of which leaves the chip selected.    *)
(***************************************************************************)
LengthBits(len) == CASE len = 2 -> 32 [] len = 3 -> 64 [] len > 3 -> 96 [] OTHER -> 0

Header(address, len) == <<((address \div 256) % 32) + LengthBits(len), address % 256>>

(* Mutant: the chip is released between the two transfers. *)
a16_write_released(ss, address, data) ==
  << [ss |-> ss, start |-> TRUE, stop |-> TRUE, wr |-> Header(address, Len(data)),
      wr_offset |-> 0, rd |-> 0, rd_offset |-> 0],
     [ss |-> ss, start |-> FALSE, stop |-> TRUE, wr |-> data,
      wr_offset |-> 0, rd |-> 0, rd_offset |-> 0] >>

(* Mutant: op.stop is not set for the second. *)
a16_write_held(ss, address, data) ==
  << [ss |-> ss, start |-> TRUE, stop |-> FALSE, wr |-> Header(address, Len(data)),
      wr_offset |-> 0, rd |-> 0, rd_offset |-> 0],
     [ss |-> ss, start |-> FALSE, stop |-> FALSE, wr |-> data,
      wr_offset |-> 0, rd |-> 0, rd_offset |-> 0] >>

pghal_spi_a16_write(ss, address, data) ==
  << [ss |-> ss, start |-> TRUE, stop |-> FALSE, wr |-> Header(address, Len(data)),
      wr_offset |-> 0, rd |-> 0, rd_offset |-> 0],
     [ss |-> ss, start |-> FALSE, stop |-> TRUE, wr |-> data,
      wr_offset |-> 0, rd |-> 0, rd_offset |-> 0] >>

pghal_spi_a16_read(ss, address, len) ==
  << [ss |-> ss, start |-> TRUE, stop |-> TRUE,
      wr |-> [Header(address, len) EXCEPT ![1] = @ + 128],
      wr_offset |-> 0, rd |-> len, rd_offset |-> 2] >>

(***************************************************************************)
(* wb_spi_write_read.                                                      *)
(***************************************************************************)
WrLength(o) == IF o.wr # <<>> THEN Len(o.wr) + o.wr_offset ELSE 0
RdLength(o) == IF o.rd > 0 THEN o.rd + o.rd_offset ELSE 0

(* Mutant: the bytes to read do not count. *)
WritesOnly(o) == WrLength(o)

TransferLen(o) == IF RdLength(o) > WrLength(o) THEN RdLength(o) ELSE WrLength(o)

(* What follows round n - 1 of the loop, or the select, in o.              *)
NextRound(o, n) == IF n < TransferLen(o) THEN "put" ELSE "deselect"

(* The control register is written first, without GO. *)
Ctrl ==
  /\ pc = "ctrl"
  /\ go' = FALSE
  /\ pc' = IF op.start THEN "select" ELSE NextRound(op, 0)
  /\ i' = 0
  /\ UNCHANGED <<op, then, selected, rxtx, frame, regs>>

(* A chip that is selected already notices nothing: its frame goes on. *)
Select ==
  /\ pc = "select"
  /\ selected' = {op.ss}
  /\ frame' = IF op.ss \in selected THEN frame ELSE [frame EXCEPT ![op.ss] = <<>>]
  /\ pc' = NextRound(op, 0)
  /\ UNCHANGED <<op, then, i, go, rxtx, regs>>

Put ==
  /\ pc = "put"
  /\ rxtx' = IF i >= op.wr_offset /\ i < WrLength(op) THEN op.wr[i - op.wr_offset + 1] ELSE 255
  /\ pc' = "go"
  /\ UNCHANGED <<op, then, i, go, selected, frame, regs>>

Go ==
  /\ pc = "go"
  /\ go' = TRUE
  /\ pc' = "poll"
  /\ UNCHANGED <<op, then, i, selected, rxtx, frame, regs>>

Wanted(o, n) == n >= o.rd_offset /\ n < RdLength(o)

AfterShift ==
  /\ pc = "poll"
  /\ IF Wanted(op, i)
       THEN pc' = "fetch" /\ i' = i
       ELSE i' = i + 1 /\ pc' = NextRound(op, i + 1)
  /\ UNCHANGED <<op, then, go, selected, rxtx, frame, regs>>

(* Mutant: the loop waits for GO to be set. *)
PollInverted == go /\ AfterShift

(* A poll that finds GO still set changes nothing. *)
Poll == ~go /\ AfterShift

(* The byte received goes through rd_ptr: see who calls. *)
Fetch ==
  /\ pc = "fetch"
  /\ i' = i + 1
  /\ pc' = NextRound(op, i + 1)
  /\ UNCHANGED <<op, then, go, selected, rxtx, frame, regs>>

(* The end of a transfer: with stop no chip stays selected.  The access    *)
(* goes on to its next transfer.                                           *)
Deselect ==
  /\ pc = "deselect"
  /\ selected' = IF op.stop THEN {} ELSE selected
  /\ IF then = <<>>
       THEN pc' = "idle" /\ UNCHANGED <<op, then>>
       ELSE pc' = "ctrl" /\ op' = Head(then) /\ then' = Tail(then)
  /\ UNCHANGED <<i, go, rxtx, frame, regs>>

Access(transfers) ==
  /\ pc = "idle"
  /\ pc' = "ctrl" /\ op' = Head(transfers) /\ then' = Tail(transfers)
  /\ UNCHANGED <<i, go, selected, rxtx, frame, regs>>

NoOp == [ss |-> CHOOSE l \in Lines : TRUE, start |-> FALSE, stop |-> FALSE, wr |-> <<>>,
         wr_offset |-> 0, rd |-> 0, rd_offset |-> 0]

(* The program is killed between two register accesses; the core goes on.  *)
Die ==
  /\ pc' = "dead" /\ op' = NoOp /\ then' = <<>> /\ i' = 0
  /\ UNCHANGED <<go, selected, rxtx, frame, regs>>

(* The next program: of the core it writes the clock divider only, so the  *)
(* select lines stay.  A program takes longer to start than a byte.        *)
wb_spi_init ==
  /\ pc = "dead" /\ ~go
  /\ pc' = "idle"
  /\ UNCHANGED <<op, then, i, go, selected, rxtx, frame, regs>>

TransferStep == Ctrl \/ Select \/ Put \/ Go \/ Poll \/ Deselect

=============================================================================
