------------------------------ MODULE SdbRom ------------------------------
(***************************************************************************)
(* wb_sdb_rom.c: the self-describing bus.  A card carries tables of        *)
(* records that say which devices it has and where; a bridge record names  *)
(* another table.  wb_sdb_rom_create_direct reads the table at the root    *)
(* and every table below it, recursively, into a tree of wb_sdb_rom        *)
(* objects, and the lookups walk that tree by entry numbers ("4.1").       *)
(* The card's table memory is an array of record-sized slots, so a table   *)
(* is any run of slots and tables may overlap, as in the card's ROM.       *)
(***************************************************************************)
EXTENDS Integers, Sequences

CONSTANTS
  NumSlots,    \* record slots of the card's table memory
  Images,      \* the contents the memory may have
  Roots,       \* the arguments of wb_sdb_rom_create_direct
  AddrMod,     \* addresses are kept in 32 bits: 2^32 in the code
  IdMod,       \* lookups take a 16-bit entry number: 2^16 in the code
  MaxFrames,   \* activations of wb_sdb_rom_discovery the call stack can hold
  Paths        \* the lookups asked for: sequences of entry numbers

Types == {"inter", "device", "bridge", "other"}

Record ==
  [type : Types, magic : BOOLEAN, records : Nat, addr : Nat, child : Nat]

ASSUME SdbAssumption ==
  /\ NumSlots \in Nat \ {0} /\ AddrMod \in Nat \ {0} /\ IdMod \in Nat \ {0}
  /\ Images \subseteq [0 .. NumSlots - 1 -> Record]
  /\ Roots \subseteq [slot : Nat, bus : 0 .. AddrMod - 1]
  /\ MaxFrames \in Nat /\ MaxFrames > NumSlots
  /\ Paths \subseteq Seq(Nat)

VARIABLES
  image,       \* the card's table memory
  heap,        \* the struct wb_sdb_rom objects, in the order of allocation
  stack,       \* the activations of wb_sdb_rom_discovery, innermost last
  overflow     \* the recursion has run out of call stack

vars == <<image, heap, stack, overflow>>

NULL == 0

(* What lies beyond the tables reads as a record of no known type. *)
RecordAt(s) ==
  IF s < NumSlots THEN image[s]
  ELSE [type |-> "other", magic |-> FALSE, records |-> 0, addr |-> 0, child |-> 0]

Top  == stack[Len(stack)]
Self == heap[Top.rom]

Entry == [id : Nat, data : Record, parent : Nat]
Rom   == [parent : Nat, entry_id : Nat, sdb_address : Nat, bus_address : 0 .. AddrMod - 1,
          level : Nat, child_count : Nat, entries : Seq(Entry), roms : Seq(Nat)]
Frame == [rom : Nat, i : Nat, records_count : Nat, next : Nat]

(* Types, and the shape of the tree under construction: the loop stays in  *)
(* its table, and the activation at depth k is filling a rom of that level *)
(* below the one its caller is filling (300-361, 364-377).                 *)
TypeOK ==
  /\ image \in [0 .. NumSlots - 1 -> Record]
  /\ heap \in Seq(Rom) /\ stack \in Seq(Frame) /\ overflow \in BOOLEAN
  /\ Len(stack) <= MaxFrames
  /\ \A k \in 1 .. Len(stack) :
       /\ stack[k].rom \in 1 .. Len(heap)
       /\ stack[k].i <= stack[k].records_count \/ stack[k].i = 1
       /\ stack[k].next \in 1 .. Len(heap[stack[k].rom].entries) + 1
       /\ heap[stack[k].rom].level = k - 1
       /\ k > 1 => heap[stack[k].rom].parent = stack[k - 1].rom

Init ==
  /\ image \in Images
  /\ heap = <<>> /\ stack = <<>> /\ overflow = FALSE

(***************************************************************************)
(* Discovery.                                                              *)
(***************************************************************************)
Activation(rom) == [rom |-> rom, i |-> 0, records_count |-> 1, next |-> 1]

CreateDirect(root) ==
  /\ heap = <<>>
  /\ heap' = <<[parent |-> NULL, entry_id |-> 0, sdb_address |-> root.slot,
                bus_address |-> root.bus, level |-> 0, child_count |-> 1,
                entries |-> <<>>, roms |-> <<>>]>>
  /\ stack' = <<Activation(1)>>
  /\ UNCHANGED <<image, overflow>>

(* Mutant: the loop runs one record too far. *)
ScanningOver == Top.i <= Top.records_count

Scanning == Top.i < Top.records_count

(* An interconnect counts as the first record only, and with its magic. *)
Heads(r, i) == r.type = "inter" /\ i = 0 /\ r.magic

(* One round of the loop: read record i, and keep it if it is one of the   *)
(* three known types; entry numbers are positions, so gaps stay.           *)
ReadEntry ==
  /\ stack # <<>> /\ ~overflow /\ Scanning
  /\ LET r    == RecordAt(Self.sdb_address + Top.i)
         head == Heads(r, Top.i)
         kept == head \/ r.type \in {"bridge", "device"}
     IN /\ heap' = [heap EXCEPT
             ![Top.rom].entries = IF kept THEN Append(@, [id |-> Top.i, data |-> r,
                                                          parent |-> Top.rom])
                                          ELSE @,
             ![Top.rom].child_count = IF head THEN r.records ELSE @]
        /\ stack' = [stack EXCEPT
             ![Len(stack)].i = @ + 1,
             ![Len(stack)].records_count = IF head THEN r.records ELSE @]
  /\ UNCHANGED <<image, overflow>>

(* The second loop walks the entries kept. *)
Walking == stack # <<>> /\ ~overflow /\ ~Scanning

Cursor == Self.entries[Top.next]

(* Mutants: the child keeps its parent's table; the windows add up. *)
ChildSharesTable(e, rom) ==
  [parent |-> rom, entry_id |-> e.id, sdb_address |-> heap[rom].sdb_address,
   bus_address |-> e.data.addr % AddrMod, level |-> heap[rom].level + 1,
   child_count |-> 0, entries |-> <<>>, roms |-> <<>>]

ChildAccumulates(e, rom) ==
  [parent |-> rom, entry_id |-> e.id, sdb_address |-> e.data.child,
   bus_address |-> (e.data.addr + heap[rom].bus_address) % AddrMod,
   level |-> heap[rom].level + 1,
   child_count |-> 0, entries |-> <<>>, roms |-> <<>>]

(* The rom of a bridge: its table is where the bridge says, its addresses  *)
(* are in the bridge's own window, whatever windows the bridge is behind.  *)
Child(e, rom) ==
  [parent |-> rom, entry_id |-> e.id, sdb_address |-> e.data.child,
   bus_address |-> e.data.addr % AddrMod, level |-> heap[rom].level + 1,
   child_count |-> 0, entries |-> <<>>, roms |-> <<>>]

(* wb_sdb_rom_create_child calls wb_sdb_rom_discovery again. *)
Descend ==
  /\ Walking
  /\ Top.next <= Len(Self.entries) /\ Cursor.data.type = "bridge"
  /\ IF Len(stack) < MaxFrames
       THEN /\ heap' = Append(heap, Child(Cursor, Top.rom))
            /\ stack' = Append(stack, Activation(Len(heap) + 1))
            /\ UNCHANGED overflow
       ELSE overflow' = TRUE /\ UNCHANGED <<heap, stack>>
  /\ UNCHANGED image

(* Mutant: the loop does not go on. *)
PassAgain ==
  /\ Walking
  /\ Top.next <= Len(Self.entries) /\ Cursor.data.type # "bridge"
  /\ UNCHANGED vars

PassEntry ==
  /\ Walking
  /\ Top.next <= Len(Self.entries) /\ Cursor.data.type # "bridge"
  /\ stack' = [stack EXCEPT ![Len(stack)].next = @ + 1]
  /\ UNCHANGED <<image, heap, overflow>>

Pop == SubSeq(stack, 1, Len(stack) - 1)

(* Mutant: the finished rom is hung in no list. *)
ReturnUnhung ==
  /\ Walking
  /\ Top.next > Len(Self.entries)
  /\ heap' = heap
  /\ stack' = IF Len(stack) = 1 THEN <<>>
              ELSE [Pop EXCEPT ![Len(stack) - 1].next = @ + 1]
  /\ UNCHANGED <<image, overflow>>

(* Discovery returns; the caller hangs the finished rom in its list and    *)
(* goes on to its next entry.                                              *)
Return ==
  /\ Walking
  /\ Top.next > Len(Self.entries)
  /\ IF Len(stack) = 1
       THEN stack' = <<>> /\ UNCHANGED heap
       ELSE /\ heap' = [heap EXCEPT ![stack[Len(stack) - 1].rom].roms = Append(@, Top.rom)]
            /\ stack' = [Pop EXCEPT ![Len(stack) - 1].next = @ + 1]
  /\ UNCHANGED <<image, overflow>>

Next ==
  \/ \E root \in Roots : CreateDirect(root)
  \/ ReadEntry
  \/ Descend
  \/ PassEntry
  \/ Return

Spec == Init /\ [][Next]_vars

(* One thread runs the discovery to its end. *)
FairSpec == Spec /\ WF_vars(Next)

Done == heap # <<>> /\ stack = <<>>

(***************************************************************************)
(* Lookups.  They change nothing: each is a function of the tree.          *)
(***************************************************************************)
First(hits) ==
  IF hits = {} THEN NULL ELSE CHOOSE k \in hits : \A l \in hits : k <= l

(* The entry number is narrowed to 16 bits by the call. *)
get_sdb_rom_by_id(rom, id) ==
  LET roms == heap[rom].roms
      k    == First({n \in 1 .. Len(roms) : heap[roms[n]].entry_id = id % IdMod})
  IN IF k = NULL THEN NULL ELSE roms[k]

(* All tokens but the last descend into the rom of a bridge. *)
get_sdb_rom_by_ids(rom, path) ==
  LET level[k \in 0 .. Len(path)] ==
        IF k = 0 THEN rom
        ELSE IF level[k - 1] = NULL THEN NULL
        ELSE get_sdb_rom_by_id(level[k - 1], path[k])
  IN IF path = <<>> THEN rom ELSE level[Len(path) - 1]

(* The last token is looked up among the entries: none, or the one entry. *)
get_by_ids(rom, path) ==
  LET r       == get_sdb_rom_by_ids(rom, path)
      entries == heap[r].entries
      k       == First({n \in 1 .. Len(entries) : entries[n].id = path[Len(path)] % IdMod})
  IN IF r = NULL \/ path = <<>> \/ k = NULL THEN {} ELSE {entries[k]}

get_type_by_ids(rom, path) ==
  LET found == get_by_ids(rom, path)
  IN IF found = {} THEN "empty" ELSE (CHOOSE e \in found : TRUE).data.type

get_addr_by_ids(rom, path) ==
  LET found == get_by_ids(rom, path)
      e     == CHOOSE x \in found : TRUE
  IN IF found = {} THEN [ret |-> -1, addr |-> NULL]
     ELSE [ret |-> 0, addr |-> (e.data.addr + heap[e.parent].bus_address) % AddrMod]

(***************************************************************************)
(* What the card's tables say, read straight from its memory: the          *)
(* reference the tree is compared with.                                    *)
(***************************************************************************)
HasHead(t) == RecordAt(t).type = "inter" /\ RecordAt(t).magic

(* The entry numbers of table t: an interconnect comes first and counts    *)
(* the records, itself included; without one only the first is looked at.  *)
Listed(t) ==
  {k \in 0 .. NumSlots :
     \/ k = 0 /\ HasHead(t)
     \/ /\ RecordAt(t + k).type \in {"bridge", "device"}
        /\ k = 0 \/ (HasHead(t) /\ k < RecordAt(t).records)}

Bridges(t) == {k \in Listed(t) : RecordAt(t + k).type = "bridge"}

(* The table and the bus window a sequence of bridges leads to. *)
Below(root, path) ==
  LET at[k \in 0 .. Len(path)] ==
        IF k = 0 THEN [ok |-> TRUE, slot |-> root.slot, bus |-> root.bus]
        ELSE LET up == at[k - 1]
                 b  == RecordAt(up.slot + path[k])
             IN IF up.ok /\ path[k] \in Bridges(up.slot)
                  THEN [ok |-> TRUE, slot |-> b.child, bus |-> b.addr % AddrMod]
                  ELSE [up EXCEPT !.ok = FALSE]
  IN at[Len(path)]

(* The tables at depth d below t. *)
TablesAt(t, depth) ==
  LET layer[d \in 0 .. depth] ==
        IF d = 0 THEN {t}
        ELSE UNION {{RecordAt(u + k).child : k \in Bridges(u)} : u \in layer[d - 1]}
  IN layer[depth]

(* Bridges that lead back to a table they are below. *)
Cyclic(t) == TablesAt(t, NumSlots + 1) # {}

Narrow(path) == \A k \in 1 .. Len(path) : path[k] < IdMod

Root == [slot |-> heap[1].sdb_address, bus |-> heap[1].bus_address]

(***************************************************************************)
(* Properties.                                                             *)
(***************************************************************************)

(* Once discovered, a lookup by entry numbers finds exactly what the       *)
(* tables say is there: the record at that place, its type, or nothing.    *)
(* The tree, built by a recursive scan that skips records, and the walk    *)
(* of the tables must number entries alike (97-147, 300-347).              *)
LookupExact ==
  Done => \A path \in Paths : Narrow(path) /\ path # <<>> =>
    LET last  == path[Len(path)]
        table == Below(Root, SubSeq(path, 1, Len(path) - 1))
        found == get_by_ids(1, path)
    IN IF table.ok /\ last \in Listed(table.slot)
         THEN /\ \E e \in found : e.id = last /\ e.data = RecordAt(table.slot + last)
              /\ get_type_by_ids(1, path) = RecordAt(table.slot + last).type
         ELSE found = {} /\ get_type_by_ids(1, path) = "empty"

(* The address a lookup hands out is the record's, offset by the window of *)
(* the one bridge right above it, in 32 bits; a missing entry is -1 and    *)
(* never an address (180-225, 364-390).                                    *)
AddressInBridge ==
  Done => \A path \in Paths : Narrow(path) /\ path # <<>> =>
    LET last  == path[Len(path)]
        table == Below(Root, SubSeq(path, 1, Len(path) - 1))
        got   == get_addr_by_ids(1, path)
    IN IF table.ok /\ last \in Listed(table.slot)
         THEN got = [ret |-> 0, addr |-> (RecordAt(table.slot + last).addr + table.bus) % AddrMod]
         ELSE got.ret = -1

(* At every moment of the discovery each rom but the root hangs once, in   *)
(* the list of its parent, or is still being filled; and the bridge it was *)
(* made for is an entry of that parent (349-353, 364-390).                 *)
HungOnce ==
  \A r \in 2 .. Len(heap) :
    LET up     == heap[heap[r].parent]
        hooks  == {k \in 1 .. Len(up.roms) : up.roms[k] = r}
        active == \E k \in 1 .. Len(stack) : stack[k].rom = r
    IN /\ IF active THEN hooks = {} ELSE \E k \in hooks : hooks = {k}
       /\ \E k \in 1 .. Len(up.entries) :
            /\ up.entries[k].id = heap[r].entry_id
            /\ up.entries[k].data.type = "bridge"
            /\ up.entries[k].data.child = heap[r].sdb_address

(* The recursion has no check of its own: it runs out of stack exactly     *)
(* when bridges lead back to a table above them, and a stack that holds    *)
(* one activation per table is enough for every other card (349-387).      *)
OnlyCyclesOverflow ==
  /\ overflow => Cyclic(heap[1].sdb_address)
  /\ Done => ~Cyclic(heap[1].sdb_address)

(* Discovery of a card whose bridges do not lead back ends (300-411). *)
DiscoveryEnds ==
  [](heap # <<>> /\ ~Cyclic(heap[1].sdb_address) => <>Done)

=============================================================================
