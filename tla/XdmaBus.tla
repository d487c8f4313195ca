----------------------------- MODULE XdmaBus ------------------------------
(***************************************************************************)
(* sdb_xdma.c: a Wishbone bus behind PCIe.  Every program that opens the   *)
(* card has an xdma_node of its own with one mmap'ed window of PageWords   *)
(* registers ("data", "page"), and xdma_remap moves that window when a     *)
(* register lies outside it.  The programs share the registers and nothing *)
(* else; the driver's lock and unlock operations are NULL.                 *)
(***************************************************************************)
EXTENDS PghalBus

CONSTANTS
  Procs,       \* the programs that have the same card open
  PageWords,   \* page_size in words: MAP_SIZE / sizeof(uint32_t)
  Bar          \* the first registers of the windows that the card lets us map

ASSUME XdmaAssumption == PageWords \in Nat \ {0}

VARIABLES
  mem,     \* the Wishbone registers
  pc,      \* "closed", "idle", "loop", "access" or "dead"
  call,    \* arguments and locals of xdma_op_read / xdma_op_write
  ret,     \* what the last transfer returned
  fd,      \* xdma_node.fd is an open descriptor
  data,    \* xdma_node.data: "null", "mapped" or "failed" (MAP_FAILED)
  page,    \* xdma_node.page
  base     \* the register behind the first word of the mapping

node == <<fd, data, page, base>>
vars == <<mem, pc, call, ret, fd, data, page, base>>

(* offset & ~page_mask *)
PageOf(r) == r - (r % PageWords)

(* Mutant: only the end of the window is looked at. *)
BelowWindowEnd(r, pg) == r < pg + PageWords

(* offset >= page && offset < page + page_size *)
InWindow(r, pg) == pg <= r /\ r < pg + PageWords

Pages == {PageOf(r) : r \in Regs}

TypeOK ==
  /\ mem \in [Regs -> Vals]
  /\ pc \in [Procs -> {"closed", "idle", "loop", "access", "dead"}]
  /\ call \in [Procs -> Calls]
  /\ ret \in [Procs -> Lens \cup {0}]
  /\ fd \in [Procs -> BOOLEAN]
  /\ data \in [Procs -> {"null", "mapped", "failed"}]
  /\ page \in [Procs -> Pages]
  /\ base \in [Procs -> Pages]

Init ==
  /\ mem \in [Regs -> Vals]
  /\ pc = [p \in Procs |-> "closed"]
  /\ \E l \in Lens, v \in Vals :
       call = [p \in Procs |-> NewCall("read", 0, l, [j \in 0 .. MaxWords - 1 |-> v])]
  /\ ret = [p \in Procs |-> 0]
  /\ fd = [p \in Procs |-> FALSE]
  /\ data = [p \in Procs |-> "null"]
  /\ page = [p \in Procs |-> 0]
  /\ base = [p \in Procs |-> 0]

(* Mutant: a window that failed to map is never replaced. *)
RemapUnlessFailed(p, r, open) ==
  IF data[p] = "failed" \/ (data[p] = "mapped" /\ InWindow(r, page[p]))
  THEN UNCHANGED <<data, page, base>>
  ELSE /\ page' = [page EXCEPT ![p] = PageOf(r)]
       /\ data' = [data EXCEPT ![p] = IF open /\ PageOf(r) \in Bar THEN "mapped" ELSE "failed"]
       /\ base' = [base EXCEPT ![p] = PageOf(r)]

(* Mutant: the window moves, the old mapping stays. *)
RemapKeepsMapping(p, r, open) ==
  IF data[p] # "null" /\ InWindow(r, page[p])
  THEN UNCHANGED <<data, page, base>>
  ELSE /\ page' = [page EXCEPT ![p] = PageOf(r)]
       /\ IF data[p] = "mapped"
          THEN UNCHANGED <<data, base>>
          ELSE /\ data' = [data EXCEPT ![p] = IF open /\ PageOf(r) \in Bar THEN "mapped" ELSE "failed"]
               /\ base' = [base EXCEPT ![p] = PageOf(r)]

(* xdma_remap: nothing while the register is inside the window; otherwise  *)
(* munmap, and mmap of the window of r.  mmap fails on a bad descriptor    *)
(* and outside the card's BAR, and MAP_FAILED is stored like a mapping.    *)
Remap(p, r, open) ==
  IF data[p] # "null" /\ InWindow(r, page[p])
  THEN UNCHANGED <<data, page, base>>
  ELSE /\ page' = [page EXCEPT ![p] = PageOf(r)]
       /\ IF open /\ PageOf(r) \in Bar
          THEN /\ data' = [data EXCEPT ![p] = "mapped"]
               /\ base' = [base EXCEPT ![p] = PageOf(r)]
          ELSE /\ data' = [data EXCEPT ![p] = "failed"]
               /\ base' = base

(* xdma_alloc and xdma_create_open: open(2) is not checked, and window 0   *)
(* is mapped at once.                                                      *)
Open(p) ==
  /\ pc[p] = "closed"
  /\ \E ok \in BOOLEAN :
       /\ fd' = [fd EXCEPT ![p] = ok]
       /\ Remap(p, 0, ok)
  /\ pc' = [pc EXCEPT ![p] = "idle"]
  /\ UNCHANGED <<mem, call, ret>>

(* pghal_bus_read / pghal_bus_write with no bus or no driver: 0. *)
NoBus(p) ==
  /\ pc[p] = "closed"
  /\ ret' = [ret EXCEPT ![p] = 0]
  /\ UNCHANGED <<mem, pc, call, node>>

(* pghal_bus_read / pghal_bus_write dispatch to xdma_op_read / _write; a   *)
(* read starts with whatever the caller's buffer holds.                    *)
Begin(p, k, r, l, b) ==
  /\ pc[p] = "idle"
  /\ call' = [call EXCEPT ![p] = NewCall(k, r, l, b)]
  /\ pc' = [pc EXCEPT ![p] = "loop"]
  /\ UNCHANGED <<mem, ret, node>>

(* The first half of xdma_read_direct / xdma_write_direct. *)
Map(p) ==
  /\ pc[p] = "loop"
  /\ MoreWords(call[p])
  /\ Remap(p, call[p].at, fd[p])
  /\ pc' = [pc EXCEPT ![p] = "access"]
  /\ UNCHANGED <<mem, call, ret, fd>>

(* The register that data + (addr - page) reaches through the mapping. *)
Reached(p) == base[p] + (call[p].at - page[p])

(* The registers behind the mapping whose first one is b. *)
Mapping(b) == Regs \cap (b .. b + PageWords - 1)

(* The second half: the load or the store, then the loop's increments. *)
Access(p) ==
  /\ pc[p] = "access"
  /\ data[p] = "mapped"
  /\ Reached(p) \in Mapping(base[p])
  /\ mem' = MemAfterWord(mem, call[p], Reached(p))
  /\ call' = [call EXCEPT ![p] = AfterWord(@, mem[Reached(p)])]
  /\ pc' = [pc EXCEPT ![p] = "loop"]
  /\ UNCHANGED <<ret, node>>

(* The access through MAP_FAILED (or outside the mapping) kills the        *)
(* program with SIGSEGV or SIGBUS.                                         *)
Fault(p) ==
  /\ pc[p] = "access"
  /\ data[p] # "mapped" \/ Reached(p) \notin Mapping(base[p])
  /\ pc' = [pc EXCEPT ![p] = "dead"]
  /\ UNCHANGED <<mem, call, ret, node>>

Return(p) ==
  /\ pc[p] = "loop"
  /\ ~ MoreWords(call[p])
  /\ ret' = [ret EXCEPT ![p] = call[p].len]
  /\ pc' = [pc EXCEPT ![p] = "idle"]
  /\ UNCHANGED <<mem, call, node>>

Step(p) == Map(p) \/ Access(p) \/ Fault(p) \/ Return(p)

Next ==
  \E p \in Procs :
    \/ Open(p)
    \/ NoBus(p)
    \/ \E r \in Regs, l \in Lens : Begin(p, "read", r, l, call[p].buf)
    \/ \E r \in Regs, l \in Lens, b \in Buffers : Begin(p, "write", r, l, b)
    \/ Step(p)

Spec == Init /\ [][Next]_vars

---------------------------------------------------------------------------
(* Safety.  The word a program loads or stores is the one its caller asked *)
(* for, wherever its window was before: xdma_remap leaves the window       *)
(* around the register and the mapping behind the window.                  *)
OnTarget ==
  \A p \in Procs :
    pc[p] = "access" /\ data[p] = "mapped" =>
      Reached(p) = call[p].at /\ Reached(p) \in Mapping(base[p])

(* Safety.  A program is killed by an access only if its card could not be *)
(* opened or does not map that register: a window that once failed to map  *)
(* (xdma_create_open maps window 0 unchecked) never stays in the way of a  *)
(* register outside it.                                                    *)
FaultsOnlyOffCard ==
  \A p \in Procs :
    pc[p] = "dead" => ~ fd[p] \/ PageOf(call[p].at) \notin Bar

(* Safety.  The word loop moves ceil(len / 4) words, so it never runs a    *)
(* whole word past the caller's buffer, and a transfer that returned has   *)
(* moved all of its bytes.                                                 *)
Whole(p) ==
  LET moved == WordSize * call[p].i IN
    /\ moved < call[p].len + WordSize
    /\ pc[p] = "idle" /\ call[p].i > 0 => moved >= ret[p] /\ ret[p] = call[p].len

WholeTransfer == \A p \in Procs : Whole(p)

(* What holds between any two steps of xdma_remap and the access after it: *)
(* the strengthening of OnTarget, FaultsOnlyOffCard and WholeTransfer that *)
(* every step preserves.                                                   *)
Window(p) ==
  /\ data[p] = "null" <=> pc[p] = "closed"
  /\ pc[p] = "closed" => call[p].i = 0
  /\ data[p] = "mapped" => base[p] = page[p]
  /\ data[p] = "failed" => ~ fd[p] \/ page[p] \notin Bar
  /\ pc[p] \in {"access", "dead"} => InWindow(call[p].at, page[p])
  /\ pc[p] = "access" => MoreWords(call[p])
  /\ pc[p] = "dead" => data[p] = "failed"

IInv ==
  /\ TypeOK
  /\ \A p \in Procs : Window(p)
  /\ WholeTransfer

(* The comment on the bus operations (pghal.h) says that they return the   *)
(* number of bytes written or read.                                        *)
ReturnsBytesMoved ==
  \A p \in Procs :
    pc[p] = "idle" /\ call[p].i > 0 => ret[p] = WordSize * call[p].i

(* What callers see of XdmaBus is the bus of module WbBus: windows and     *)
(* their moves are invisible but for the programs they kill.               *)
stOf == [p \in Procs |->
           CASE pc[p] \in {"closed", "idle"} -> "idle"
             [] pc[p] \in {"loop", "access"} -> "busy"
             [] pc[p] = "dead"               -> "dead"]

WB == INSTANCE WbBus WITH st <- stOf

Implements == WB!Spec

=============================================================================
