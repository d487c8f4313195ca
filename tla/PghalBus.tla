----------------------------- MODULE PghalBus -----------------------------
(***************************************************************************)
(* The data every bus driver of pghal shares: Wishbone registers, and the  *)
(* arguments of pghal_bus_read / pghal_bus_write (pghal.c) as the word     *)
(* loops of sdb_xdma.c and sdb_uart.c carry them.                          *)
(*                                                                         *)
(* A register is named by the number of its 32-bit word: register r is the *)
(* byte address WordSize * r.  The addresses of the SDB ROM and the        *)
(* register offsets of the node drivers are all word aligned.              *)
(***************************************************************************)
EXTENDS Integers

CONSTANTS
  Vals,        \* the values of a register
  NumRegs,     \* size of the bus; 2^30 registers in the code (uint32_t byte addresses)
  WordSize,    \* sizeof(uint32_t)
  Lens,        \* the lengths, in bytes, that callers ask for
  MaxWords     \* the words that the longest of these transfers takes (bound)

ASSUME BusAssumption ==
  /\ NumRegs \in Nat \ {0}
  /\ WordSize \in Nat \ {0}
  /\ MaxWords \in Nat \ {0}
  /\ \A l \in Lens : l \in Nat /\ l <= WordSize * MaxWords
  /\ Vals # {}

Regs == 0 .. NumRegs - 1

(* The caller's memory from wr_ptr or rd_ptr on, as words. *)
Buffers == [0 .. MaxWords - 1 -> Vals]

(* The arguments of a transfer and the locals of its word loop: the        *)
(* register of the next word ("address"), the words done so far (the       *)
(* distance wr_ptr32 has moved) and the caller's buffer.                   *)
Calls == [kind : {"read", "write"},
          at   : Regs,
          len  : Lens,
          i    : 0 .. MaxWords,
          buf  : Buffers]

NewCall(k, r, l, b) == [kind |-> k, at |-> r, len |-> l, i |-> 0, buf |-> b]

(* Mutant: the loop stops before the word that holds the last odd bytes. *)
MoreWholeWords(c) == WordSize * (c.i + 1) <= c.len

(* while (wr_ptr32 < end_ptr): end_ptr is len BYTES after the start. *)
MoreWords(c) == WordSize * c.i < c.len

(* Mutant: the address does not wrap with its 32 bits. *)
AdvanceNoWrap(c) == [c EXCEPT !.at = @ + 1, !.i = @ + 1]

(* address += sizeof(uint32_t) in 32 bits; wr_ptr32++. *)
Advance(c) == [c EXCEPT !.at = (@ + 1) % NumRegs, !.i = @ + 1]

(* The call after its next word was moved to or from register r. *)
AfterWord(c, v) ==
  Advance(IF c.kind = "read" THEN [c EXCEPT !.buf[c.i] = v] ELSE c)

(* The registers after the next word of c was moved to or from r. *)
MemAfterWord(m, c, r) ==
  IF c.kind = "write" THEN [m EXCEPT ![r] = c.buf[c.i]] ELSE m

=============================================================================
