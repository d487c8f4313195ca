--------------------------- MODULE SdbRomProofs ---------------------------
(***************************************************************************)
(* Proofs about SdbRom and FmcBoards, for any contents and size of the     *)
(* card's tables, any root, and a call stack of any depth that holds more  *)
(* activations than there are slots.                                       *)
(***************************************************************************)
EXTENDS FmcBoards, SequenceTheorems, FiniteSetTheorems, WellFoundedInduction, TLAPS

---------------------------------------------------------------------------
(* Induction over the naturals. *)

(* A set of naturals has a least element.                                  *)
LEMMA LeastElement ==
  ASSUME NEW S, S \subseteq Nat, S # {}
  PROVE  \E n \in S : \A m \in S : n <= m
  <1>. DEFINE R == {ss \in Nat \X Nat : ss[1] < ss[2]}
  <1>1. IsWellFoundedOn(R, Nat)
    BY NatLessThanWellFounded DEF OpToRel
  <1>. HIDE DEF R
  <1>2. PICK n \in S : \A y \in S : ~ (<<y, n>> \in R)
    BY <1>1, WFMin
  <1>3. \A x, y \in Nat : <<y, x>> \in R <=> y < x
    BY DEF R
  <1>4. ASSUME NEW m \in S PROVE n <= m
    <2>1. ~ (m < n)
      BY <1>2, <1>3
    <2>. QED
      BY <2>1
  <1>. QED
    BY <1>4

(* If some numbers fail a property, there is a first one that does: it is  *)
(* 0, or follows one that does not.                                        *)
LEMMA FirstFailure ==
  ASSUME NEW S, S \subseteq Nat, S # {}
  PROVE  \E n \in S : n \in Nat /\ (n # 0 => n - 1 \in Nat /\ n - 1 \notin S)
  <1>1. PICK n \in S : \A m \in S : n <= m
    BY LeastElement
  <1>. QED
    BY <1>1

---------------------------------------------------------------------------
(* The card's tables. *)

(* RecordAt, and what it decides, for a memory im.                         *)
At(im, s) ==
  IF s < NumSlots THEN im[s]
  ELSE [type |-> "other", magic |-> FALSE, records |-> 0, addr |-> 0, child |-> 0]

Headed(im, t)   == At(im, t).type = "inter" /\ At(im, t).magic

(* The records of table t that the first loop reads, and those it keeps.   *)
Count(im, t)    == IF Headed(im, t) THEN At(im, t).records ELSE 1
Total(im, t)    == IF Count(im, t) > 1 THEN Count(im, t) ELSE 1
Keeps(im, t, j) == Heads(At(im, t + j), j) \/ At(im, t + j).type \in {"bridge", "device"}

Memories == [0 .. NumSlots - 1 -> Record]

(* A record is read wherever the address points.                           *)
LEMMA RecordsRead ==
  ASSUME NEW im \in Memories, NEW s \in Nat
  PROVE  /\ At(im, s) \in Record
         /\ s >= NumSlots => At(im, s).type = "other"
  <1>1. NumSlots \in Nat
    BY SdbAssumption
  <1>2. CASE s < NumSlots
    <2>1. s \in 0 .. NumSlots - 1
      BY <1>1, <1>2
    <2>. QED
      BY <1>1, <1>2, <2>1 DEF At, Memories
  <1>3. CASE ~ (s < NumSlots)
    <2>1. At(im, s) = [type |-> "other", magic |-> FALSE, records |-> 0, addr |-> 0, child |-> 0]
      BY <1>3 DEF At
    <2>. QED
      BY <2>1, <1>1, <1>3 DEF Record, Types
  <1>. QED
    BY <1>2, <1>3

(* The entry numbers of a table are those of the records it keeps.         *)
LEMMA ListedKept ==
  ASSUME image \in Memories, NEW t \in Nat, NEW j \in Nat
  PROVE  /\ j \in Listed(t) <=> j < Total(image, t) /\ Keeps(image, t, j)
         /\ j \in Bridges(t) <=> j \in Listed(t) /\ At(image, t + j).type = "bridge"
  <1>. DEFINE N == At(image, t).records
  <1>1. \A s : RecordAt(s) = At(image, s)
    BY DEF RecordAt, At
  <1>2. HasHead(t) <=> Headed(image, t)
    BY <1>1 DEF HasHead, Headed
  <1>3. N \in Nat /\ NumSlots \in Nat
    BY RecordsRead, SdbAssumption DEF Record
  <1>4. t + j \in Nat /\ (j > NumSlots => At(image, t + j).type = "other")
    BY <1>3, RecordsRead
  <1>5. Heads(At(image, t + j), j) <=> j = 0 /\ Headed(image, t)
    BY DEF Heads, Headed
  <1>6. j \in Listed(t) <=>
          /\ j \in 0 .. NumSlots
          /\ \/ j = 0 /\ Headed(image, t)
             \/ /\ At(image, t + j).type \in {"bridge", "device"}
                /\ j = 0 \/ (Headed(image, t) /\ j < N)
    BY <1>1, <1>2 DEF Listed
  <1>7. j < Total(image, t) <=> j = 0 \/ (Headed(image, t) /\ j < N)
    BY <1>3 DEF Total, Count
  <1>8. j \in Listed(t) <=> j < Total(image, t) /\ Keeps(image, t, j)
    <2>. HIDE DEF N
    <2>1. Keeps(image, t, j) <=> \/ j = 0 /\ Headed(image, t)
                                 \/ At(image, t + j).type \in {"bridge", "device"}
      BY <1>5 DEF Keeps
    <2>2. j <= NumSlots \/ At(image, t + j).type = "other"
      BY <1>3, <1>4
    <2>. QED
      BY <1>3, <1>6, <1>7, <2>1, <2>2
  <1>9. j \in Bridges(t) <=> j \in Listed(t) /\ At(image, t + j).type = "bridge"
    BY <1>1 DEF Bridges
  <1>. QED
    BY <1>8, <1>9

---------------------------------------------------------------------------
(* The inductive invariant, of a memory im, a heap h and a call stack s. *)

Active(s, r) == \E k \in 1 .. Len(s) : s[k].rom = r

(* The entries of a rom r are those of the first n records of its table t. *)
IsFilled(im, t, entries, r, n) ==
  /\ \A k \in 1 .. Len(entries) :
       /\ entries[k].id \in 0 .. n - 1 /\ Keeps(im, t, entries[k].id)
       /\ entries[k].data = At(im, t + entries[k].id) /\ entries[k].parent = r
  /\ \A j \in 0 .. n - 1 :
       Keeps(im, t, j) => \E k \in 1 .. Len(entries) : entries[k].id = j

Filled(im, h, r, n) == IsFilled(im, h[r].sdb_address, h[r].entries, r, n)

(* The bridges among the first n entries of r have a rom in its list.      *)
Hung(h, r, n) ==
  \A k \in 1 .. n :
    h[r].entries[k].data.type = "bridge" =>
      \E m \in 1 .. Len(h[r].roms) : h[h[r].roms[m]].entry_id = h[r].entries[k].id

Finished(im, h, r) ==
  Filled(im, h, r, Total(im, h[r].sdb_address)) /\ Hung(h, r, Len(h[r].entries))

(* A rom is the one of an entry that is a bridge.                          *)
IsBridge(entries, id, slot, bus) ==
  \E k \in 1 .. Len(entries) :
    /\ entries[k].id = id /\ entries[k].data.type = "bridge"
    /\ entries[k].data.child = slot /\ entries[k].data.addr % AddrMod = bus

(* The first rom is the root of the tree, each other one is below an       *)
(* earlier one, behind a bridge of it.                                     *)
InTree(h, r) ==
  /\ h[r].level < MaxFrames
  /\ r = 1 => h[r].level = 0
  /\ r # 1 => /\ h[r].parent \in 1 .. r - 1
              /\ h[r].level = h[h[r].parent].level + 1
              /\ IsBridge(h[h[r].parent].entries, h[r].entry_id, h[r].sdb_address,
                          h[r].bus_address)

(* The lists of roms hold the children that are finished, each once.       *)
Listing(h, s, r) ==
  \A m \in 1 .. Len(h[r].roms) :
    /\ h[r].roms[m] \in 2 .. Len(h)
    /\ h[h[r].roms[m]].parent = r /\ ~ Active(s, h[r].roms[m])
    /\ \A n \in 1 .. Len(h[r].roms) : h[r].roms[n] = h[r].roms[m] => n = m

InList(h, c) == \E m \in 1 .. Len(h[h[c].parent].roms) : h[h[c].parent].roms[m] = c

(* Where an activation stands in the table of its rom.                     *)
Place(im, t, f) ==
  /\ \/ f.i = 0 /\ f.records_count = 1
     \/ f.i \in 1 .. Total(im, t) /\ f.records_count = Count(im, t)
  /\ f.i < f.records_count => f.next = 1

Reading(im, h, f) ==
  /\ Place(im, h[f.rom].sdb_address, f)
  /\ f.next \in 1 .. Len(h[f.rom].entries) + 1
  /\ Filled(im, h, f.rom, f.i) /\ Hung(h, f.rom, f.next - 1)

(* An activation stands at a bridge of its table.                          *)
AtBridge(h, f) ==
  /\ f.i >= f.records_count
  /\ f.next <= Len(h[f.rom].entries)
  /\ h[f.rom].entries[f.next].data.type = "bridge"

(* An activation g is for the bridge at which f, its caller, stands.       *)
Called(h, f, g) ==
  /\ h[g.rom].parent = f.rom /\ AtBridge(h, f)
  /\ h[g.rom].entry_id = h[f.rom].entries[f.next].id

Framed(im, h, s, k) ==
  /\ s[k].rom \in 1 .. Len(h) /\ h[s[k].rom].level = k - 1
  /\ Reading(im, h, s[k])
  /\ k # 1 => Called(h, s[k - 1], s[k])

Typed ==
  /\ image \in Memories
  /\ heap \in Seq(Rom) /\ stack \in Seq(Frame) /\ overflow \in BOOLEAN
  /\ Len(stack) <= MaxFrames

Tree == \A r \in 1 .. Len(heap) : InTree(heap, r)

Lists ==
  /\ \A r \in 1 .. Len(heap) : Listing(heap, stack, r)
  /\ \A c \in 2 .. Len(heap) : Active(stack, c) \/ InList(heap, c)

Frames == \A k \in 1 .. Len(stack) : Framed(image, heap, stack, k)

(* Only an activation leaves a rom unfinished.                             *)
Complete == \A r \in 1 .. Len(heap) : Active(stack, r) \/ Finished(image, heap, r)

(* Out of stack the discovery stands still, at a bridge.                   *)
Full == overflow => Len(stack) = MaxFrames /\ AtBridge(heap, stack[Len(stack)])

IInv == Typed /\ Tree /\ Lists /\ Frames /\ Complete /\ Full

---------------------------------------------------------------------------
(* Heaps. *)

(* What the proofs use of the assumptions on the constants.                *)
LEMMA Constants ==
  /\ NumSlots \in Nat \ {0} /\ AddrMod \in Nat \ {0} /\ IdMod \in Nat \ {0}
  /\ Images \subseteq Memories
  /\ \A root \in Roots : root.slot \in Nat /\ root.bus \in 0 .. AddrMod - 1
  /\ MaxFrames \in Nat /\ MaxFrames > NumSlots
  /\ Paths \subseteq Seq(Nat)
  BY SdbAssumption DEF Memories

(* The parts of a rom.                                                     *)
LEMMA RomParts ==
  ASSUME NEW r \in Rom
  PROVE  /\ r.entries \in Seq(Entry) /\ Len(r.entries) \in Nat
         /\ r.roms \in Seq(Nat) /\ Len(r.roms) \in Nat
         /\ r.parent \in Nat /\ r.entry_id \in Nat /\ r.sdb_address \in Nat
         /\ r.bus_address \in 0 .. AddrMod - 1 /\ r.level \in Nat /\ r.child_count \in Nat
         /\ \A k \in 1 .. Len(r.entries) : r.entries[k] \in Entry
  <1>1. /\ r.entries \in Seq(Entry) /\ r.roms \in Seq(Nat)
        /\ r.parent \in Nat /\ r.entry_id \in Nat /\ r.sdb_address \in Nat
        /\ r.bus_address \in 0 .. AddrMod - 1 /\ r.level \in Nat /\ r.child_count \in Nat
    BY DEF Rom
  <1>. QED
    BY <1>1, LenProperties

(* One element of a sequence is replaced.                                  *)
LEMMA Replaced ==
  ASSUME NEW S, NEW s \in Seq(S), NEW k \in 1 .. Len(s), NEW v \in S,
         NEW u, u = [s EXCEPT ![k] = v]
  PROVE  /\ u \in Seq(S) /\ Len(u) = Len(s) /\ u[k] = v
         /\ \A l \in 1 .. Len(s) : l # k => u[l] = s[l]
  BY ExceptSeq

(* A heap g is h with more in it: roms keep what they were made with, and  *)
(* entries, once there, stay.                                              *)
Grown(h, g) ==
  /\ h \in Seq(Rom) /\ g \in Seq(Rom) /\ Len(h) <= Len(g)
  /\ \A x \in 1 .. Len(h) :
       /\ g[x].parent = h[x].parent /\ g[x].entry_id = h[x].entry_id
       /\ g[x].sdb_address = h[x].sdb_address /\ g[x].bus_address = h[x].bus_address
       /\ g[x].level = h[x].level
       /\ Len(h[x].entries) <= Len(g[x].entries)
       /\ \A k \in 1 .. Len(h[x].entries) : g[x].entries[k] = h[x].entries[k]

(* The tree grows at its leaves.                                           *)
LEMMA TreeGrows ==
  ASSUME NEW h, NEW g, Grown(h, g), NEW r \in 1 .. Len(h), InTree(h, r)
  PROVE  InTree(g, r)
  <1>. Len(h) \in Nat
    BY DEF Grown
  <1>1. g[r].level = h[r].level /\ g[r].parent = h[r].parent
    BY DEF Grown
  <1>2. CASE r = 1
    BY <1>1, <1>2 DEF InTree
  <1>3. CASE r # 1
    <2>. DEFINE p == h[r].parent
    <2>1. p \in 1 .. r - 1 /\ p \in 1 .. Len(h)
      BY <1>3 DEF InTree
    <2>. HIDE DEF p
    <2>2. /\ g[p].level = h[p].level /\ g[r].entry_id = h[r].entry_id
          /\ g[r].sdb_address = h[r].sdb_address /\ g[r].bus_address = h[r].bus_address
          /\ Len(h[p].entries) <= Len(g[p].entries)
          /\ \A k \in 1 .. Len(h[p].entries) : g[p].entries[k] = h[p].entries[k]
      BY <2>1 DEF Grown
    <2>3. Len(h[p].entries) \in Nat /\ Len(g[p].entries) \in Nat
      <3>1. h[p] \in Rom /\ g[p] \in Rom
        BY <2>1 DEF Grown
      <3>. QED
        BY <3>1, RomParts
    <2>4. IsBridge(h[p].entries, h[r].entry_id, h[r].sdb_address, h[r].bus_address)
      BY <1>3 DEF InTree, p
    <2>5. IsBridge(g[p].entries, h[r].entry_id, h[r].sdb_address, h[r].bus_address)
      <3>1. PICK k \in 1 .. Len(h[p].entries) :
              /\ h[p].entries[k].id = h[r].entry_id /\ h[p].entries[k].data.type = "bridge"
              /\ h[p].entries[k].data.child = h[r].sdb_address
              /\ h[p].entries[k].data.addr % AddrMod = h[r].bus_address
        BY <2>4 DEF IsBridge
      <3>2. k \in 1 .. Len(g[p].entries) /\ g[p].entries[k] = h[p].entries[k]
        BY <2>2, <2>3
      <3>. QED
        BY <3>1, <3>2 DEF IsBridge
    <2>. QED
      BY <1>1, <1>3, <2>1, <2>2, <2>5 DEF InTree, p
  <1>. QED
    BY <1>2, <1>3

(* A rom to whose entries and list nothing is added stays as it is.        *)
LEMMA Untouched ==
  ASSUME NEW im, NEW h, NEW g, Grown(h, g), NEW x \in 1 .. Len(h),
         \A m \in 1 .. Len(h[x].roms) : h[x].roms[m] \in 1 .. Len(h),
         g[x].entries = h[x].entries, g[x].roms = h[x].roms
  PROVE  /\ \A n : Filled(im, h, x, n) => Filled(im, g, x, n)
         /\ \A n : Hung(h, x, n) => Hung(g, x, n)
         /\ Finished(im, h, x) => Finished(im, g, x)
         /\ \A f : f.rom = x /\ Reading(im, h, f) => Reading(im, g, f)
         /\ \A f : f.rom = x /\ AtBridge(h, f) => AtBridge(g, f)
  <1>1. g[x].sdb_address = h[x].sdb_address
    BY DEF Grown
  <1>2. ASSUME NEW n PROVE Filled(im, h, x, n) => Filled(im, g, x, n)
    BY <1>1 DEF Filled
  <1>3. ASSUME NEW n, Hung(h, x, n) PROVE Hung(g, x, n)
    <2>1. \A m \in 1 .. Len(h[x].roms) : g[h[x].roms[m]].entry_id = h[h[x].roms[m]].entry_id
      BY DEF Grown
    <2>. QED
      BY <1>3, <2>1 DEF Hung
  <1>4. Finished(im, h, x) => Finished(im, g, x)
    BY <1>1, <1>2, <1>3 DEF Finished
  <1>5. ASSUME NEW f, f.rom = x, Reading(im, h, f) PROVE Reading(im, g, f)
    BY <1>1, <1>2, <1>3, <1>5 DEF Reading
  <1>6. ASSUME NEW f, f.rom = x, AtBridge(h, f) PROVE AtBridge(g, f)
    BY <1>6 DEF AtBridge
  <1>. QED
    BY <1>2, <1>3, <1>4, <1>5, <1>6

(* A call keeps its bridge, if nothing touches the caller's entries.       *)
LEMMA CallKept ==
  ASSUME NEW h, NEW g, Grown(h, g), NEW e, NEW f, e.rom \in 1 .. Len(h), f.rom \in 1 .. Len(h),
         g[e.rom].entries = h[e.rom].entries, Called(h, e, f)
  PROVE  Called(g, e, f)
  <1>1. g[f.rom].parent = h[f.rom].parent /\ g[f.rom].entry_id = h[f.rom].entry_id
    BY DEF Grown
  <1>. QED
    BY <1>1 DEF Called, AtBridge

(* The lists, when no list changes and the roms in them are still finished.*)
LEMMA ListingKept ==
  ASSUME NEW h, NEW g, Grown(h, g), NEW s, NEW u, NEW r \in 1 .. Len(h), Listing(h, s, r),
         g[r].roms = h[r].roms, \A x \in 1 .. Len(h) : Active(u, x) => Active(s, x)
  PROVE  Listing(g, u, r)
  <1>1. Len(h) \in Nat /\ Len(g) \in Nat /\ Len(h) <= Len(g)
    BY DEF Grown
  <1>2. ASSUME NEW m \in 1 .. Len(g[r].roms)
        PROVE  /\ g[r].roms[m] \in 2 .. Len(g) /\ g[g[r].roms[m]].parent = r
               /\ ~ Active(u, g[r].roms[m])
               /\ \A n \in 1 .. Len(g[r].roms) : g[r].roms[n] = g[r].roms[m] => n = m
    <2>. DEFINE c == h[r].roms[m]
    <2>1. /\ c \in 2 .. Len(h) /\ h[c].parent = r /\ ~ Active(s, c) /\ g[r].roms[m] = c
          /\ \A n \in 1 .. Len(g[r].roms) : g[r].roms[n] = c => n = m
      BY DEF Listing
    <2>. HIDE DEF c
    <2>2. c \in 1 .. Len(h) /\ c \in 2 .. Len(g)
      BY <1>1, <2>1
    <2>3. g[c].parent = h[c].parent
      BY <2>2 DEF Grown
    <2>. QED
      BY <2>1, <2>2, <2>3
  <1>. QED
    BY <1>2 DEF Listing

---------------------------------------------------------------------------
(* The discovery, record by record. *)

(* The running activation: what it is doing to which rom.                  *)
LEMMA Running ==
  ASSUME IInv, stack # <<>>
  PROVE  /\ Len(stack) \in 1 .. MaxFrames /\ Top = stack[Len(stack)] /\ Self = heap[Top.rom]
         /\ Top \in Frame /\ Top.rom \in 1 .. Len(heap) /\ Self \in Rom
         /\ Self.level = Len(stack) - 1 /\ Reading(image, heap, Top)
         /\ \A k \in 1 .. Len(stack) : /\ stack[k] \in Frame /\ stack[k].rom \in 1 .. Len(heap)
                                       /\ heap[stack[k].rom].level = k - 1
         /\ \A k, l \in 1 .. Len(stack) : stack[k].rom = stack[l].rom => k = l
  <1>1. Len(stack) \in 1 .. MaxFrames /\ stack \in Seq(Frame) /\ heap \in Seq(Rom)
    BY Constants DEF IInv, Typed
  <1>2. \A k \in 1 .. Len(stack) : /\ stack[k] \in Frame /\ stack[k].rom \in 1 .. Len(heap)
                                   /\ heap[stack[k].rom].level = k - 1
    BY <1>1 DEF IInv, Frames, Framed
  <1>3. Len(stack) \in 1 .. Len(stack) /\ Top = stack[Len(stack)] /\ Reading(image, heap, Top)
    BY <1>1 DEF Top, IInv, Frames, Framed
  <1>4. Self \in Rom /\ Self = heap[Top.rom] /\ Self.level = Len(stack) - 1
    BY <1>1, <1>2, <1>3 DEF Self
  <1>5. \A k, l \in 1 .. Len(stack) : stack[k].rom = stack[l].rom => k = l
    BY <1>1, <1>2
  <1>. QED
    BY <1>1, <1>2, <1>3, <1>4, <1>5

(* The rom that fits the call stack's bottom is the root.                  *)
LEMMA BottomIsRoot ==
  ASSUME IInv, stack # <<>>
  PROVE  stack[1].rom = 1
  <1>1. Len(stack) \in Nat \ {0} /\ stack[1].rom \in 1 .. Len(heap)
        /\ heap[stack[1].rom].level = 0
    BY Running
  <1>2. SUFFICES ASSUME stack[1].rom # 1 PROVE FALSE
    OBVIOUS
  <1>. DEFINE r == stack[1].rom
              p == heap[r].parent
  <1>3. heap \in Seq(Rom) /\ Len(heap) \in Nat
    BY DEF IInv, Typed
  <1>4. p \in 1 .. r - 1 /\ heap[r].level = heap[p].level + 1
    BY <1>1, <1>2 DEF IInv, Tree, InTree
  <1>5. p \in 1 .. Len(heap)
    BY <1>1, <1>3, <1>4
  <1>6. heap[p].level \in Nat
    BY <1>3, <1>5, RomParts
  <1>. QED
    BY <1>1, <1>4, <1>6

(* What a list of roms holds are roms.                                     *)
LEMMA ListsHoldRoms ==
  ASSUME IInv, NEW x \in 1 .. Len(heap)
  PROVE  \A m \in 1 .. Len(heap[x].roms) : heap[x].roms[m] \in 1 .. Len(heap)
  BY DEF IInv, Lists, Listing

(* The first rom is the root's.                                            *)
LEMMA Creating ==
  ASSUME IInv, NEW root \in Roots, CreateDirect(root)
  PROVE  IInv'
  <1>. DEFINE rom == [parent |-> NULL, entry_id |-> 0, sdb_address |-> root.slot,
                      bus_address |-> root.bus, level |-> 0, child_count |-> 1,
                      entries |-> <<>>, roms |-> <<>>]
              act == [rom |-> 1, i |-> 0, records_count |-> 1, next |-> 1]
  <1>1. /\ heap = <<>> /\ heap' = <<rom>> /\ stack' = <<act>> /\ UNCHANGED <<image, overflow>>
    BY DEF CreateDirect, Activation
  <1>2. /\ rom \in Rom /\ rom.level = 0 /\ rom.entries = <<>> /\ rom.roms = <<>>
        /\ rom.sdb_address = root.slot
    BY Constants DEF Rom, NULL
  <1>3. act \in Frame /\ act.rom = 1 /\ act.i = 0 /\ act.records_count = 1 /\ act.next = 1
    BY DEF Frame
  <1>. HIDE DEF rom, act
  <1>4. /\ heap' \in Seq(Rom) /\ Len(heap') = 1 /\ heap'[1] = rom
        /\ stack' \in Seq(Frame) /\ Len(stack') = 1 /\ stack'[1] = act
    BY <1>1, <1>2, <1>3
  <1>5. ~ overflow
    <2>1. SUFFICES ASSUME overflow PROVE FALSE
      OBVIOUS
    <2>2. Len(stack) = MaxFrames /\ stack \in Seq(Frame)
      BY <2>1 DEF IInv, Full, Typed
    <2>3. stack # <<>>
      BY <2>2, Constants
    <2>4. Top.rom \in 1 .. Len(heap)
      BY <2>3, Running
    <2>. QED
      BY <1>1, <2>4
  <1>6. Typed'
    BY <1>1, <1>4, Constants DEF IInv, Typed
  <1>7. Active(stack', 1)
    BY <1>3, <1>4 DEF Active
  <1>8. \A r \in 1 .. Len(heap') : r = 1
    BY <1>4
  <1>9. Tree'
    <2>1. InTree(heap', 1)
      BY <1>2, <1>4, Constants DEF InTree
    <2>. QED
      BY <1>8, <2>1 DEF Tree
  <1>10. Lists'
    <2>1. Listing(heap', stack', 1)
      BY <1>2, <1>4 DEF Listing
    <2>. QED
      BY <1>4, <1>8, <2>1 DEF Lists
  <1>11. Frames'
    <2>1. Place(image', rom.sdb_address, act)
      BY <1>3 DEF Place
    <2>2. Filled(image', heap', 1, 0)
      BY <1>2, <1>4 DEF Filled, IsFilled
    <2>3. Hung(heap', 1, 0)
      BY DEF Hung
    <2>4. Reading(image', heap', act)
      BY <1>2, <1>3, <1>4, <2>1, <2>2, <2>3 DEF Reading
    <2>5. Framed(image', heap', stack', 1)
      BY <1>2, <1>3, <1>4, <2>4 DEF Framed
    <2>. QED
      BY <1>4, <2>5 DEF Frames
  <1>12. Complete'
    BY <1>7, <1>8 DEF Complete
  <1>13. Full'
    BY <1>1, <1>5 DEF Full
  <1>. QED
    BY <1>6, <1>9, <1>10, <1>11, <1>12, <1>13 DEF IInv

(* One round of the first loop: the entries are those of one record more.  *)
LEMMA EntryRead ==
  ASSUME NEW im \in Memories, NEW t \in Nat, NEW entries \in Seq(Entry), NEW r, NEW i \in Nat,
         IsFilled(im, t, entries, r, i), NEW e, e.id = i, e.data = At(im, t + i), e.parent = r,
         e \in Entry, NEW new,
         Keeps(im, t, i) => new = Append(entries, e), ~ Keeps(im, t, i) => new = entries
  PROVE  /\ new \in Seq(Entry) /\ Len(entries) <= Len(new)
         /\ \A k \in 1 .. Len(entries) : new[k] = entries[k]
         /\ IsFilled(im, t, new, r, i + 1)
  <1>1. Len(entries) \in Nat
    OBVIOUS
  <1>2. \A j \in 0 .. i - 1 : j \in 0 .. (i + 1) - 1
    OBVIOUS
  <1>3. \A j \in 0 .. (i + 1) - 1 : j \in 0 .. i - 1 \/ j = i
    OBVIOUS
  <1>4. CASE Keeps(im, t, i)
    <2>1. /\ new \in Seq(Entry) /\ Len(new) = Len(entries) + 1
          /\ \A k \in 1 .. Len(entries) : new[k] = entries[k]
          /\ new[Len(entries) + 1] = e
      BY <1>4, AppendProperties
    <2>2. ASSUME NEW k \in 1 .. Len(new)
          PROVE  /\ new[k].id \in 0 .. (i + 1) - 1 /\ Keeps(im, t, new[k].id)
                 /\ new[k].data = At(im, t + new[k].id) /\ new[k].parent = r
      <3>1. CASE k \in 1 .. Len(entries)
        BY <1>2, <2>1, <3>1 DEF IsFilled
      <3>2. CASE k = Len(entries) + 1
        BY <1>4, <2>1, <3>2
      <3>. QED
        BY <1>1, <2>1, <3>1, <3>2
    <2>3. ASSUME NEW j \in 0 .. (i + 1) - 1, Keeps(im, t, j)
          PROVE  \E k \in 1 .. Len(new) : new[k].id = j
      <3>1. CASE j \in 0 .. i - 1
        <4>1. PICK k \in 1 .. Len(entries) : entries[k].id = j
          BY <2>3, <3>1 DEF IsFilled
        <4>. QED
          BY <1>1, <2>1, <4>1
      <3>2. CASE j = i
        BY <1>1, <2>1, <3>2
      <3>. QED
        BY <1>3, <3>1, <3>2
    <2>. QED
      BY <1>1, <2>1, <2>2, <2>3 DEF IsFilled
  <1>5. CASE ~ Keeps(im, t, i)
    <2>1. new = entries
      BY <1>5
    <2>2. ASSUME NEW j \in 0 .. (i + 1) - 1, Keeps(im, t, j)
          PROVE  \E k \in 1 .. Len(new) : new[k].id = j
      BY <1>3, <1>5, <2>1, <2>2 DEF IsFilled
    <2>3. ASSUME NEW k \in 1 .. Len(new)
          PROVE  /\ new[k].id \in 0 .. (i + 1) - 1 /\ Keeps(im, t, new[k].id)
                 /\ new[k].data = At(im, t + new[k].id) /\ new[k].parent = r
      BY <1>2, <2>1 DEF IsFilled
    <2>. QED
      BY <1>1, <2>1, <2>2, <2>3 DEF IsFilled
  <1>. QED
    BY <1>4, <1>5

(* A record is read: its rom has it among its entries.                     *)
LEMMA ReadingOn ==
  ASSUME IInv, ReadEntry
  PROVE  IInv'
  <1>. DEFINE n    == Len(stack)
              r    == Top.rom
              f    == Top
              t    == heap[r].sdb_address
              rec  == At(image, t + f.i)
              head == Heads(rec, f.i)
              e    == [id |-> f.i, data |-> rec, parent |-> r]
              new  == IF Keeps(image, t, f.i) THEN Append(heap[r].entries, e)
                      ELSE heap[r].entries
              v    == [heap[r] EXCEPT !.entries = new,
                                      !.child_count = IF head THEN rec.records ELSE @]
              g    == [f EXCEPT !.i = @ + 1,
                                !.records_count = IF head THEN rec.records ELSE @]
  <1>1. stack # <<>> /\ ~ overflow /\ f.i < f.records_count /\ UNCHANGED <<image, overflow>>
    BY DEF ReadEntry, Scanning
  <1>2. /\ n \in 1 .. MaxFrames /\ f = stack[n] /\ r \in 1 .. Len(heap) /\ heap[r] \in Rom
        /\ f \in Frame /\ heap[r].level = n - 1 /\ Reading(image, heap, f)
        /\ \A k \in 1 .. n : stack[k] \in Frame /\ stack[k].rom \in 1 .. Len(heap)
        /\ \A k, l \in 1 .. n : stack[k].rom = stack[l].rom => k = l
    BY <1>1, Running
  <1>3. /\ heap \in Seq(Rom) /\ Len(heap) \in Nat /\ stack \in Seq(Frame)
        /\ image \in Memories /\ n \in Nat /\ n \in 1 .. n
    BY <1>2 DEF IInv, Typed
  <1>4. /\ t \in Nat /\ f.i \in Nat /\ f.records_count \in Nat /\ f.next = 1
        /\ heap[r].entries \in Seq(Entry)
    BY <1>1, <1>2, RomParts DEF Frame, Reading, Place
  <1>5. rec \in Record /\ e \in Entry
    <2>1. rec \in Record
      BY <1>3, <1>4, RecordsRead
    <2>2. r \in Nat
      BY <1>2, <1>3
    <2>. HIDE DEF rec
    <2>. QED
      BY <1>4, <2>1, <2>2 DEF Entry
  <1>6. Keeps(image, t, f.i) <=> head \/ rec.type \in {"bridge", "device"}
    BY DEF Keeps
  <1>7. /\ heap' = [heap EXCEPT
             ![r].entries = IF Keeps(image, t, f.i) THEN Append(@, e) ELSE @,
             ![r].child_count = IF head THEN rec.records ELSE @]
        /\ stack' = [stack EXCEPT
             ![n].i = @ + 1,
             ![n].records_count = IF head THEN rec.records ELSE @]
    <2>1. RecordAt(Self.sdb_address + Top.i) = rec
      BY DEF RecordAt, At, Self
    <2>. HIDE DEF rec
    <2>. QED
      BY <1>6, <2>1 DEF ReadEntry
  <1>8. heap' = [heap EXCEPT ![r] = v]
    <2>. HIDE DEF rec, head, e, t, r
    <2>. QED
      BY <1>2, <1>3, <1>7
  <1>9. stack' = [stack EXCEPT ![n] = g]
    <2>. HIDE DEF rec, head, n, r
    <2>. QED
      BY <1>2, <1>3, <1>7
  <1>10. /\ new \in Seq(Entry) /\ Len(heap[r].entries) <= Len(new)
         /\ \A k \in 1 .. Len(heap[r].entries) : new[k] = heap[r].entries[k]
         /\ IsFilled(image, t, new, r, f.i + 1)
    <2>1. IsFilled(image, t, heap[r].entries, r, f.i)
      BY <1>2 DEF Reading, Filled
    <2>2. e.id = f.i /\ e.data = At(image, t + f.i) /\ e.parent = r
      OBVIOUS
    <2>3. new = IF Keeps(image, t, f.i) THEN Append(heap[r].entries, e) ELSE heap[r].entries
      OBVIOUS
    <2>. DEFINE i == f.i
                es == heap[r].entries
    <2>4. image \in Memories /\ t \in Nat /\ es \in Seq(Entry) /\ i \in Nat
      BY <1>3, <1>4
    <2>5. e.id = i /\ e.data = At(image, t + i) /\ e.parent = r /\ e \in Entry
      BY <1>5, <2>2
    <2>6. IsFilled(image, t, es, r, i)
      BY <2>1
    <2>7. Keeps(image, t, i) => new = Append(es, e)
      BY <2>3
    <2>8. ~ Keeps(image, t, i) => new = es
      BY <2>3
    <2>. HIDE DEF e, t, f, r, new, i, es
    <2>9. /\ new \in Seq(Entry) /\ Len(es) <= Len(new)
          /\ \A k \in 1 .. Len(es) : new[k] = es[k]
          /\ IsFilled(image, t, new, r, i + 1)
      BY <2>4, <2>5, <2>6, <2>7, <2>8, EntryRead
    <2>. QED
      BY <2>9 DEF i, es
  <1>. HIDE DEF new
  <1>11. /\ v \in Rom /\ v.entries = new /\ v.roms = heap[r].roms /\ v.parent = heap[r].parent
         /\ v.entry_id = heap[r].entry_id /\ v.sdb_address = t
         /\ v.bus_address = heap[r].bus_address /\ v.level = heap[r].level
    <2>1. (IF head THEN rec.records ELSE heap[r].child_count) \in Nat
      BY <1>2, <1>5, RomParts DEF Record
    <2>. HIDE DEF head, rec, r
    <2>. QED
      BY <1>2, <1>10, <2>1 DEF Rom
  <1>12. /\ g \in Frame /\ g.i = f.i + 1 /\ g.rom = r /\ g.next = 1
         /\ g.records_count = IF head THEN rec.records ELSE f.records_count
    <2>1. (IF head THEN rec.records ELSE f.records_count) \in Nat
      BY <1>4, <1>5 DEF Record
    <2>2. r \in Nat /\ f.i + 1 \in Nat /\ f.rom = r
      BY <1>2, <1>3, <1>4
    <2>. HIDE DEF head, rec, r, f
    <2>3. /\ f \in [rom : Nat, i : Nat, records_count : Nat, next : Nat]
      BY <1>2 DEF Frame
    <2>. QED
      BY <1>4, <2>1, <2>2, <2>3 DEF Frame
  <1>13. Place(image, t, g)
    <2>1. Total(image, t) \in Nat \ {0} /\ Count(image, t) \in Nat
      <3>1. At(image, t) \in Record
        BY <1>3, <1>4, RecordsRead
      <3>2. At(image, t).records \in Nat
        BY <3>1 DEF Record
      <3>3. Count(image, t) \in Nat
        BY <3>2 DEF Count
      <3>. QED
        BY <3>3 DEF Total
    <2>2. \/ f.i = 0 /\ f.records_count = 1
          \/ f.i \in 1 .. Total(image, t) /\ f.records_count = Count(image, t)
      BY <1>2 DEF Reading, Place
    <2>3. CASE f.i = 0
      <3>1. head <=> Headed(image, t)
        BY <1>4, <2>3 DEF Heads, Headed
      <3>2. Headed(image, t) => rec = At(image, t)
        BY <1>4, <2>3
      <3>3. f.records_count = 1
        BY <2>1, <2>2, <2>3
      <3>4. g.records_count = Count(image, t)
        <4>. HIDE DEF head, rec, g
        <4>. QED
          BY <1>12, <3>1, <3>2, <3>3 DEF Count
      <3>. HIDE DEF head, rec, g
      <3>. QED
        BY <1>12, <2>1, <2>3, <3>4 DEF Place
    <2>4. CASE f.i # 0
      <3>1. ~ head /\ f.records_count = Count(image, t) /\ f.i \in 1 .. Total(image, t)
        BY <1>4, <2>2, <2>4 DEF Heads
      <3>2. f.i + 1 \in 1 .. Total(image, t)
        BY <1>1, <1>4, <2>1, <3>1 DEF Total
      <3>. HIDE DEF head, rec, g
      <3>. QED
        BY <1>12, <3>1, <3>2 DEF Place
    <2>. QED
      BY <2>3, <2>4
  <1>. HIDE DEF v, g
  <1>14. /\ heap' \in Seq(Rom) /\ Len(heap') = Len(heap) /\ heap'[r] = v
         /\ \A x \in 1 .. Len(heap) : x # r => heap'[x] = heap[x]
    BY <1>2, <1>3, <1>8, <1>11, Replaced
  <1>15. /\ stack' \in Seq(Frame) /\ Len(stack') = n /\ stack'[n] = g
         /\ \A k \in 1 .. n : k # n => stack'[k] = stack[k]
    <2>. HIDE DEF n, f, r
    <2>. QED
      BY <1>3, <1>9, <1>12, Replaced DEF n
  <1>. HIDE DEF t, rec, head, e
  <1>16. Grown(heap, heap')
    <2>. HIDE DEF r
    <2>1. ASSUME NEW x \in 1 .. Len(heap)
          PROVE  /\ heap'[x].parent = heap[x].parent /\ heap'[x].entry_id = heap[x].entry_id
                 /\ heap'[x].sdb_address = heap[x].sdb_address
                 /\ heap'[x].bus_address = heap[x].bus_address
                 /\ heap'[x].level = heap[x].level
                 /\ Len(heap[x].entries) <= Len(heap'[x].entries)
                 /\ \A k \in 1 .. Len(heap[x].entries) : heap'[x].entries[k] = heap[x].entries[k]
      <3>1. CASE x = r
        BY <1>10, <1>11, <1>14, <3>1 DEF t
      <3>2. CASE x # r
        <4>1. heap'[x] = heap[x] /\ heap[x] \in Rom
          BY <1>3, <1>14, <3>2
        <4>. QED
          BY <4>1, RomParts
      <3>. QED
        BY <3>1, <3>2
    <2>. QED
      BY <1>3, <1>14, <2>1 DEF Grown
  <1>17. \A x \in 1 .. Len(heap) : heap'[x].roms = heap[x].roms
    BY <1>11, <1>14
  <1>18. \A x : Active(stack', x) <=> Active(stack, x)
    <2>1. \A k \in 1 .. n : stack'[k].rom = stack[k].rom
      BY <1>2, <1>12, <1>15
    <2>. QED
      BY <1>15, <2>1 DEF Active
  <1>19. Typed'
    BY <1>1, <1>14, <1>15 DEF IInv, Typed
  <1>20. Tree'
    BY <1>14, <1>16, TreeGrows DEF IInv, Tree
  <1>21. Lists'
    <2>1. \A x \in 1 .. Len(heap) : Listing(heap', stack', x)
      BY <1>16, <1>17, <1>18, ListingKept DEF IInv, Lists
    <2>2. ASSUME NEW c \in 2 .. Len(heap), ~ Active(stack, c) PROVE InList(heap', c)
      <3>1. InList(heap, c) /\ c \in 1 .. Len(heap)
        BY <2>2 DEF IInv, Lists
      <3>2. heap[c].parent \in 1 .. Len(heap)
        BY <1>3, <2>2 DEF IInv, Tree, InTree
      <3>3. heap'[c].parent = heap[c].parent
        BY <1>16, <3>1 DEF Grown
      <3>. QED
        BY <1>17, <3>1, <3>2, <3>3 DEF InList
    <2>. QED
      BY <1>14, <1>18, <2>1, <2>2 DEF Lists
  <1>22. Frames'
    <2>1. ASSUME NEW k \in 1 .. n, k # n PROVE Framed(image', heap', stack', k)
      <3>1. Framed(image, heap, stack, k) /\ stack'[k] = stack[k]
        BY <1>15, <2>1 DEF IInv, Frames
      <3>2. stack[k].rom \in 1 .. Len(heap) /\ stack[k].rom # r
        BY <1>2, <1>3, <2>1
      <3>3. heap'[stack[k].rom] = heap[stack[k].rom]
        BY <1>14, <3>2
      <3>4. Reading(image, heap', stack[k])
        <4>1. \A m \in 1 .. Len(heap[stack[k].rom].roms) :
                heap[stack[k].rom].roms[m] \in 1 .. Len(heap)
          BY <3>2, ListsHoldRoms
        <4>. QED
          BY <1>16, <3>1, <3>2, <3>3, <4>1, Untouched DEF Framed
      <3>5. k # 1 => Called(heap', stack'[k - 1], stack'[k])
        <4>. SUFFICES ASSUME k # 1 PROVE Called(heap', stack'[k - 1], stack'[k])
          OBVIOUS
        <4>1. k - 1 \in 1 .. n /\ k - 1 # n
          BY <1>3, <2>1
        <4>2. stack'[k - 1] = stack[k - 1] /\ stack[k - 1].rom \in 1 .. Len(heap)
              /\ stack[k - 1].rom # r
          BY <1>2, <1>3, <1>15, <4>1
        <4>3. heap'[stack[k - 1].rom] = heap[stack[k - 1].rom]
          BY <1>14, <4>2
        <4>4. Called(heap, stack[k - 1], stack[k])
          BY <3>1 DEF Framed
        <4>5. Called(heap', stack[k - 1], stack[k])
          BY <1>16, <3>2, <4>2, <4>3, <4>4, CallKept
        <4>. QED
          BY <3>1, <4>2, <4>5
      <3>. QED
        BY <1>1, <1>14, <3>1, <3>2, <3>3, <3>4, <3>5 DEF Framed
    <2>2. Framed(image', heap', stack', n)
      <3>1. Framed(image, heap, stack, n)
        BY <1>3 DEF IInv, Frames
      <3>2. Filled(image, heap', r, g.i)
        BY <1>10, <1>11, <1>12, <1>14 DEF Filled
      <3>3. Hung(heap', r, g.next - 1)
        BY <1>12 DEF Hung
      <3>4. g.next \in 1 .. Len(heap'[r].entries) + 1
        BY <1>10, <1>11, <1>12, <1>14
      <3>5. Reading(image, heap', g)
        BY <1>11, <1>12, <1>13, <1>14, <3>2, <3>3, <3>4 DEF Reading
      <3>6. n # 1 => Called(heap', stack'[n - 1], stack'[n])
        <4>. SUFFICES ASSUME n # 1 PROVE Called(heap', stack'[n - 1], stack'[n])
          OBVIOUS
        <4>1. n - 1 \in 1 .. n /\ n - 1 # n
          <5>. HIDE DEF n
          <5>. QED
            BY <1>2, <1>3
        <4>2. stack'[n - 1] = stack[n - 1] /\ stack[n - 1].rom \in 1 .. Len(heap)
              /\ stack[n - 1].rom # r
          BY <1>2, <1>3, <1>15, <4>1
        <4>3. heap'[stack[n - 1].rom] = heap[stack[n - 1].rom]
          BY <1>14, <4>2
        <4>4. Called(heap, stack[n - 1], f)
          BY <1>2, <3>1 DEF Framed
        <4>5. Called(heap, stack[n - 1], g)
          BY <1>12, <4>4 DEF Called
        <4>6. Called(heap', stack[n - 1], g)
          <5>. HIDE DEF f
          <5>. QED
            BY <1>2, <1>12, <1>16, <4>2, <4>3, <4>5, CallKept
        <4>. QED
          BY <1>15, <4>2, <4>6
      <3>. QED
        BY <1>1, <1>2, <1>11, <1>12, <1>14, <1>15, <3>5, <3>6 DEF Framed
    <2>. QED
      BY <1>15, <2>1, <2>2 DEF Frames
  <1>23. Complete'
    <2>1. ASSUME NEW x \in 1 .. Len(heap), ~ Active(stack, x) PROVE Finished(image, heap', x)
      <3>1. x # r
        BY <1>2, <1>3, <2>1 DEF Active
      <3>2. heap'[x] = heap[x] /\ Finished(image, heap, x)
        BY <1>14, <2>1, <3>1 DEF IInv, Complete
      <3>. QED
        BY <1>16, <3>2, ListsHoldRoms, Untouched
    <2>. QED
      BY <1>1, <1>14, <1>18, <2>1 DEF Complete
  <1>24. Full'
    BY <1>1 DEF Full
  <1>. QED
    BY <1>19, <1>20, <1>21, <1>22, <1>23, <1>24 DEF IInv

(* An activation below the running one stands where it stood.              *)
LEMMA FramedKept ==
  ASSUME NEW im, NEW h, NEW g, Grown(h, g), NEW s, NEW u, NEW k \in Nat, Framed(im, h, s, k),
         u[k] = s[k], g[s[k].rom].entries = h[s[k].rom].entries,
         g[s[k].rom].roms = h[s[k].rom].roms,
         \A m \in 1 .. Len(h[s[k].rom].roms) : h[s[k].rom].roms[m] \in 1 .. Len(h),
         k # 1 => /\ u[k - 1] = s[k - 1] /\ s[k - 1].rom \in 1 .. Len(h)
                  /\ g[s[k - 1].rom].entries = h[s[k - 1].rom].entries
  PROVE  Framed(im, g, u, k)
  <1>1. /\ s[k].rom \in 1 .. Len(h) /\ h[s[k].rom].level = k - 1 /\ Reading(im, h, s[k])
        /\ k # 1 => Called(h, s[k - 1], s[k])
    BY DEF Framed
  <1>2. s[k].rom \in 1 .. Len(g) /\ g[s[k].rom].level = k - 1
    BY <1>1 DEF Grown
  <1>3. Reading(im, g, s[k])
    BY <1>1, Untouched
  <1>4. k # 1 => Called(g, s[k - 1], s[k])
    BY <1>1, CallKept
  <1>. QED
    BY <1>2, <1>3, <1>4 DEF Framed

(* A heap that stays is a heap that grows.                                 *)
LEMMA GrownSame ==
  ASSUME NEW h \in Seq(Rom)
  PROVE  Grown(h, h)
  <1>1. Len(h) \in Nat /\ \A x \in 1 .. Len(h) : h[x] \in Rom
    BY LenProperties
  <1>2. \A x \in 1 .. Len(h) : Len(h[x].entries) \in Nat
    BY <1>1, RomParts
  <1>. QED
    BY <1>1, <1>2 DEF Grown

(* An entry that is no bridge is passed.                                   *)
LEMMA PassingOn ==
  ASSUME IInv, PassEntry
  PROVE  IInv'
  <1>. DEFINE n == Len(stack)
              f == Top
              r == Top.rom
              g == [f EXCEPT !.next = @ + 1]
  <1>1. /\ stack # <<>> /\ ~ overflow /\ f.i >= f.records_count
        /\ f.next <= Len(heap[r].entries) /\ heap[r].entries[f.next].data.type # "bridge"
        /\ stack' = [stack EXCEPT ![n].next = @ + 1]
        /\ UNCHANGED <<image, heap, overflow>>
    <2>1. /\ stack # <<>> /\ f \in Frame
      BY Running DEF PassEntry, Walking
    <2>2. f.i \in Nat /\ f.records_count \in Nat
      BY <2>1 DEF Frame
    <2>. QED
      BY <2>1, <2>2 DEF PassEntry, Walking, Scanning, Self, Cursor
  <1>2. /\ n \in 1 .. MaxFrames /\ f = stack[n] /\ r \in 1 .. Len(heap) /\ heap[r] \in Rom
        /\ f \in Frame /\ heap[r].level = n - 1 /\ Reading(image, heap, f)
        /\ \A k \in 1 .. n : stack[k] \in Frame /\ stack[k].rom \in 1 .. Len(heap)
        /\ \A k, l \in 1 .. n : stack[k].rom = stack[l].rom => k = l
    BY <1>1, Running
  <1>3. /\ heap \in Seq(Rom) /\ Len(heap) \in Nat /\ stack \in Seq(Frame)
        /\ image \in Memories /\ n \in Nat /\ n \in 1 .. n
    BY <1>2 DEF IInv, Typed
  <1>4. f.i \in Nat /\ f.records_count \in Nat /\ f.next \in Nat /\ Len(heap[r].entries) \in Nat
    BY <1>2, RomParts DEF Frame
  <1>5. stack' = [stack EXCEPT ![n] = g]
    <2>. HIDE DEF n, r
    <2>. QED
      BY <1>1, <1>2, <1>3
  <1>6. /\ g \in Frame /\ g.rom = r /\ g.i = f.i /\ g.records_count = f.records_count
        /\ g.next = f.next + 1
    <2>1. f \in [rom : Nat, i : Nat, records_count : Nat, next : Nat] /\ f.next + 1 \in Nat
      BY <1>2, <1>4 DEF Frame
    <2>. HIDE DEF f
    <2>2. /\ g \in Frame /\ g.rom = f.rom /\ g.i = f.i /\ g.records_count = f.records_count
          /\ g.next = f.next + 1
      BY <2>1 DEF Frame
    <2>. QED
      BY <2>2 DEF f
  <1>. HIDE DEF g
  <1>7. /\ stack' \in Seq(Frame) /\ Len(stack') = n /\ stack'[n] = g
        /\ \A k \in 1 .. n : k # n => stack'[k] = stack[k]
    <2>. HIDE DEF n, f, r
    <2>. QED
      BY <1>3, <1>5, <1>6, Replaced DEF n
  <1>8. Grown(heap, heap)
    BY <1>3, GrownSame
  <1>9. \A x : Active(stack', x) <=> Active(stack, x)
    <2>1. \A k \in 1 .. n : stack'[k].rom = stack[k].rom
      BY <1>2, <1>6, <1>7
    <2>. QED
      BY <1>7, <2>1 DEF Active
  <1>10. Typed'
    BY <1>1, <1>7 DEF IInv, Typed
  <1>11. Tree'
    BY <1>1 DEF IInv, Tree
  <1>12. Lists'
    <2>1. \A x \in 1 .. Len(heap) : Listing(heap, stack', x)
      BY <1>8, <1>9, ListingKept DEF IInv, Lists
    <2>. QED
      BY <1>1, <1>9, <2>1 DEF IInv, Lists
  <1>13. Frames'
    <2>. HIDE DEF n, f, r
    <2>1. ASSUME NEW k \in 1 .. n, k # n PROVE Framed(image', heap', stack', k)
      <3>1. Framed(image, heap, stack, k) /\ stack'[k] = stack[k] /\ k \in Nat
        BY <1>3, <1>7, <2>1 DEF IInv, Frames, n
      <3>2. stack[k].rom \in 1 .. Len(heap)
        BY <1>2, <2>1
      <3>3. k # 1 => stack'[k - 1] = stack[k - 1] /\ stack[k - 1].rom \in 1 .. Len(heap)
        <4>1. k # 1 => k - 1 \in 1 .. n /\ k - 1 # n
          BY <1>3, <2>1
        <4>. QED
          BY <1>2, <1>7, <4>1
      <3>4. Framed(image, heap, stack', k)
        BY <1>8, <3>1, <3>2, <3>3, ListsHoldRoms, FramedKept
      <3>. QED
        BY <1>1, <3>4
    <2>2. Framed(image', heap', stack', n)
      <3>1. Framed(image, heap, stack, n)
        BY <1>3 DEF IInv, Frames, n
      <3>2. Hung(heap, r, g.next - 1)
        <4>1. Hung(heap, r, f.next - 1)
          BY <1>2 DEF Reading, r, f
        <4>2. \A k \in 1 .. g.next - 1 : k \in 1 .. f.next - 1 \/ k = f.next
          BY <1>4, <1>6
        <4>. QED
          BY <1>1, <4>1, <4>2 DEF Hung
      <3>3. g.next \in 1 .. Len(heap[r].entries) + 1
        BY <1>1, <1>4, <1>6
      <3>4. Filled(image, heap, r, g.i)
        BY <1>2, <1>6 DEF Reading, r, f
      <3>5. Place(image, heap[r].sdb_address, g)
        <4>1. Place(image, heap[r].sdb_address, f)
          BY <1>2 DEF Reading, r, f
        <4>. QED
          BY <1>1, <1>4, <1>6, <4>1 DEF Place
      <3>6. Reading(image, heap, g)
        BY <1>6, <3>2, <3>3, <3>4, <3>5 DEF Reading
      <3>7. n # 1 => Called(heap, stack'[n - 1], stack'[n])
        <4>1. n # 1 => n - 1 \in 1 .. n /\ n - 1 # n
          BY <1>2, <1>3
        <4>2. n # 1 => Called(heap, stack[n - 1], f) /\ stack'[n - 1] = stack[n - 1]
          BY <1>2, <1>7, <3>1, <4>1 DEF Framed
        <4>. QED
          BY <1>6, <1>7, <4>2 DEF Called, r, f
      <3>. QED
        BY <1>1, <1>2, <1>6, <1>7, <3>6, <3>7 DEF Framed
    <2>. QED
      BY <1>7, <2>1, <2>2 DEF Frames
  <1>14. Complete'
    BY <1>1, <1>9 DEF IInv, Complete
  <1>15. Full'
    BY <1>1 DEF Full
  <1>. QED
    BY <1>10, <1>11, <1>12, <1>13, <1>14, <1>15 DEF IInv

(* An activation starts with nothing read.                                 *)
LEMMA ReadingStarts ==
  ASSUME NEW im, NEW h, NEW f, h[f.rom].entries = <<>>, f.i = 0, f.records_count = 1, f.next = 1
  PROVE  Reading(im, h, f)
  <1>1. Place(im, h[f.rom].sdb_address, f)
    BY DEF Place
  <1>2. Filled(im, h, f.rom, 0)
    BY DEF Filled, IsFilled
  <1>3. Hung(h, f.rom, 0)
    BY DEF Hung
  <1>. QED
    BY <1>1, <1>2, <1>3 DEF Reading

(* A bridge is met: a rom for it joins the tree, or the stack is full.     *)
LEMMA DescendingOn ==
  ASSUME IInv, Descend
  PROVE  IInv'
  <1>. DEFINE n   == Len(stack)
              f   == Top
              r   == Top.rom
              e   == heap[r].entries[f.next]
              c   == Len(heap) + 1
              rom == [parent |-> r, entry_id |-> e.id, sdb_address |-> e.data.child,
                      bus_address |-> e.data.addr % AddrMod, level |-> heap[r].level + 1,
                      child_count |-> 0, entries |-> <<>>, roms |-> <<>>]
              act == [rom |-> c, i |-> 0, records_count |-> 1, next |-> 1]
  <1>1. /\ stack # <<>> /\ ~ overflow /\ f.i >= f.records_count
        /\ f.next <= Len(heap[r].entries) /\ e.data.type = "bridge"
        /\ UNCHANGED image
    <2>1. /\ stack # <<>> /\ f \in Frame
      BY Running DEF Descend, Walking
    <2>2. f.i \in Nat /\ f.records_count \in Nat
      BY <2>1 DEF Frame
    <2>. QED
      BY <2>1, <2>2 DEF Descend, Walking, Scanning, Self, Cursor
  <1>2. /\ n \in 1 .. MaxFrames /\ f = stack[n] /\ r \in 1 .. Len(heap) /\ heap[r] \in Rom
        /\ f \in Frame /\ heap[r].level = n - 1 /\ Reading(image, heap, f)
        /\ \A k \in 1 .. n : stack[k] \in Frame /\ stack[k].rom \in 1 .. Len(heap)
    BY <1>1, Running
  <1>3. /\ heap \in Seq(Rom) /\ Len(heap) \in Nat /\ stack \in Seq(Frame)
        /\ image \in Memories /\ n \in Nat /\ n \in 1 .. n
    BY <1>2 DEF IInv, Typed
  <1>4. f.i \in Nat /\ f.records_count \in Nat /\ f.next \in Nat /\ Len(heap[r].entries) \in Nat
    BY <1>2, RomParts DEF Frame
  <1>5. AtBridge(heap, f)
    BY <1>1 DEF AtBridge
  <1>6. f.next \in 1 .. Len(heap[r].entries)
    BY <1>1, <1>2, <1>4 DEF Reading
  <1>7. e \in Entry
    BY <1>2, <1>6, RomParts
  <1>8. CASE n = MaxFrames
    <2>1. ~ (n < MaxFrames) /\ Len(stack) = MaxFrames
      BY <1>8, Constants
    <2>2. overflow' = TRUE /\ UNCHANGED <<image, heap, stack>>
      BY <1>1, <2>1 DEF Descend
    <2>3. Full'
      BY <1>2, <1>5, <2>1, <2>2 DEF Full, f
    <2>4. Typed'
      BY <2>2 DEF IInv, Typed
    <2>. QED
      BY <2>2, <2>3, <2>4 DEF IInv, Tree, Lists, Frames, Complete
  <1>9. CASE n # MaxFrames
    <2>1. n < MaxFrames /\ n + 1 \in 1 .. MaxFrames
      BY <1>2, <1>9, Constants
    <2>2. heap' = Append(heap, rom) /\ stack' = Append(stack, act) /\ UNCHANGED overflow
      BY <1>1, <2>1 DEF Descend, Child, Cursor, Self, Activation
    <2>3. /\ rom \in Rom /\ rom.entries = <<>> /\ rom.roms = <<>> /\ rom.parent = r
          /\ rom.level = n /\ rom.entry_id = e.id /\ rom.sdb_address = e.data.child
          /\ rom.bus_address = e.data.addr % AddrMod
      <3>1. e.id \in Nat /\ e.data \in Record
        BY <1>7 DEF Entry
      <3>2. e.data.child \in Nat /\ e.data.addr \in Nat
        BY <3>1 DEF Record
      <3>3. e.data.addr % AddrMod \in 0 .. AddrMod - 1
        BY <3>2, Constants
      <3>4. r \in Nat /\ heap[r].level + 1 = n
        BY <1>2, <1>3
      <3>. DEFINE b == e.data.addr % AddrMod
                  l == heap[r].level + 1
      <3>5. /\ b \in 0 .. AddrMod - 1 /\ l \in Nat /\ l = n
            /\ rom = [parent |-> r, entry_id |-> e.id, sdb_address |-> e.data.child,
                      bus_address |-> b, level |-> l,
                      child_count |-> 0, entries |-> <<>>, roms |-> <<>>]
        BY <1>3, <3>3, <3>4
      <3>6. /\ rom \in Rom /\ rom.entries = <<>> /\ rom.roms = <<>> /\ rom.parent = r
            /\ rom.level = l /\ rom.entry_id = e.id /\ rom.sdb_address = e.data.child
            /\ rom.bus_address = b
        <4>. HIDE DEF rom, e, r, n, b, l
        <4>. QED
          BY <3>1, <3>2, <3>4, <3>5 DEF Rom
      <3>. HIDE DEF rom
      <3>. QED
        BY <3>5, <3>6
    <2>4. /\ act \in Frame /\ act.rom = c /\ act.i = 0 /\ act.records_count = 1 /\ act.next = 1
      BY <1>3 DEF Frame
    <2>. HIDE DEF rom, act
    <2>5. /\ heap' \in Seq(Rom) /\ Len(heap') = c /\ heap'[c] = rom
          /\ \A x \in 1 .. Len(heap) : heap'[x] = heap[x]
      BY <1>3, <2>2, <2>3, AppendProperties
    <2>6. /\ stack' \in Seq(Frame) /\ Len(stack') = n + 1 /\ stack'[n + 1] = act
          /\ \A k \in 1 .. n : stack'[k] = stack[k]
      <3>. HIDE DEF n, c
      <3>. QED
        BY <1>3, <2>2, <2>4, AppendProperties DEF n
    <2>. HIDE DEF e
    <2>7. c \in Nat /\ c \notin 1 .. Len(heap) /\ \A x \in 1 .. c : x \in 1 .. Len(heap) \/ x = c
      BY <1>3
    <2>8. Grown(heap, heap')
      <3>1. Grown(heap, heap) /\ Len(heap) <= Len(heap')
        BY <1>3, <2>5, GrownSame
      <3>. HIDE DEF c
      <3>. QED
        BY <2>5, <3>1 DEF Grown
    <2>9. Active(stack', c) /\ \A x : Active(stack, x) => Active(stack', x)
      <3>1. n + 1 \in 1 .. Len(stack') /\ \A k \in 1 .. n : k \in 1 .. Len(stack')
        BY <1>3, <2>6
      <3>. HIDE DEF c
      <3>. QED
        BY <2>4, <2>6, <3>1 DEF Active, n
    <2>10. \A x \in 1 .. Len(heap) : Active(stack', x) => Active(stack, x)
      <3>1. \A k \in 1 .. n + 1 : k \in 1 .. n \/ k = n + 1
        BY <1>3
      <3>. HIDE DEF c, n
      <3>. QED
        BY <2>4, <2>6, <2>7, <3>1 DEF Active, n
    <2>11. Typed'
      <3>. HIDE DEF c, n
      <3>. QED
        BY <1>1, <1>3, <2>1, <2>2, <2>5, <2>6, Constants DEF Typed, IInv
    <2>12. Tree'
      <3>1. \A x \in 1 .. Len(heap) : InTree(heap', x)
        BY <2>8, TreeGrows DEF IInv, Tree
      <3>2. InTree(heap', c)
        <4>1. r \in 1 .. c - 1 /\ c # 1 /\ heap'[r] = heap[r]
          BY <1>2, <1>3, <2>5
        <4>2. IsBridge(heap[r].entries, e.id, e.data.child, e.data.addr % AddrMod)
          BY <1>1, <1>6 DEF IsBridge, e
        <4>. HIDE DEF c, r, n
        <4>. QED
          BY <1>2, <1>3, <2>1, <2>3, <2>5, <4>1, <4>2 DEF InTree
      <3>. HIDE DEF c
      <3>. QED
        BY <2>5, <2>7, <3>1, <3>2 DEF Tree
    <2>13. Lists'
      <3>. HIDE DEF c
      <3>1. \A x \in 1 .. Len(heap) : Listing(heap', stack', x)
        BY <2>5, <2>8, <2>10, ListingKept DEF IInv, Lists
      <3>2. Listing(heap', stack', c)
        BY <2>3, <2>5 DEF Listing
      <3>3. ASSUME NEW x \in 2 .. Len(heap), ~ Active(stack, x) PROVE InList(heap', x)
        <4>1. InList(heap, x) /\ x \in 1 .. Len(heap)
          BY <1>3, <3>3 DEF IInv, Lists
        <4>2. heap[x].parent \in 1 .. Len(heap)
          BY <1>3, <3>3 DEF IInv, Tree, InTree
        <4>. QED
          BY <2>5, <4>1, <4>2 DEF InList
      <3>4. \A x \in 2 .. c : x \in 2 .. Len(heap) \/ x = c
        BY <1>3 DEF c
      <3>. QED
        BY <2>5, <2>7, <2>9, <3>1, <3>2, <3>3, <3>4 DEF Lists
    <2>14. Frames'
      <3>. HIDE DEF n, f, r, c
      <3>1. ASSUME NEW k \in 1 .. n PROVE Framed(image', heap', stack', k)
        <4>1. Framed(image, heap, stack, k) /\ stack'[k] = stack[k] /\ k \in Nat
          BY <1>3, <2>6 DEF IInv, Frames, n
        <4>2. stack[k].rom \in 1 .. Len(heap)
          BY <1>2
        <4>3. k # 1 => stack'[k - 1] = stack[k - 1] /\ stack[k - 1].rom \in 1 .. Len(heap)
          <5>1. k # 1 => k - 1 \in 1 .. n
            BY <1>3
          <5>. QED
            BY <1>2, <2>6, <5>1
        <4>4. heap'[stack[k].rom] = heap[stack[k].rom]
          BY <2>5, <4>2
        <4>5. k # 1 => heap'[stack[k - 1].rom] = heap[stack[k - 1].rom]
          BY <2>5, <4>3
        <4>6. Framed(image, heap', stack', k)
          BY <2>8, <4>1, <4>2, <4>3, <4>4, <4>5, ListsHoldRoms, FramedKept
        <4>. QED
          BY <1>1, <4>6
      <3>2. Framed(image', heap', stack', n + 1)
        <4>1. Reading(image, heap', act)
          BY <2>3, <2>4, <2>5, ReadingStarts
        <4>2. Called(heap', f, act)
          <5>1. heap'[r] = heap[r]
            BY <1>2, <2>5
          <5>. QED
            BY <1>5, <2>3, <2>4, <2>5, <5>1 DEF Called, AtBridge, e, r, f
        <4>3. (n + 1) - 1 = n /\ stack'[(n + 1) - 1] = f
          BY <1>2, <1>3, <2>6
        <4>4. c \in 1 .. Len(heap')
          BY <1>3, <2>5 DEF c
        <4>. QED
          BY <1>1, <2>3, <2>4, <2>5, <2>6, <4>1, <4>2, <4>3, <4>4 DEF Framed
      <3>3. \A k \in 1 .. n + 1 : k \in 1 .. n \/ k = n + 1
        BY <1>3
      <3>. QED
        BY <2>6, <3>1, <3>2, <3>3 DEF Frames
    <2>15. Complete'
      <3>. HIDE DEF c
      <3>1. ASSUME NEW x \in 1 .. Len(heap), ~ Active(stack, x) PROVE Finished(image, heap', x)
        BY <2>5, <2>8, <3>1, ListsHoldRoms, Untouched DEF IInv, Complete
      <3>. QED
        BY <1>1, <2>5, <2>7, <2>9, <3>1 DEF Complete
    <2>16. Full'
      BY <1>1, <2>2 DEF Full
    <2>. QED
      BY <2>11, <2>12, <2>13, <2>14, <2>15, <2>16 DEF IInv
  <1>. QED
    BY <1>8, <1>9

(* An activation that has walked all entries has finished its rom.         *)
LEMMA WalkedAll ==
  ASSUME NEW im \in Memories, NEW h, NEW f \in Frame, h[f.rom] \in Rom,
         Reading(im, h, f), f.i >= f.records_count, f.next > Len(h[f.rom].entries)
  PROVE  Finished(im, h, f.rom)
  <1>. DEFINE t == h[f.rom].sdb_address
              E == Len(h[f.rom].entries)
  <1>1. f.i \in Nat /\ f.records_count \in Nat /\ f.next \in Nat /\ E \in Nat /\ t \in Nat
    BY RomParts DEF Frame
  <1>2. Count(im, t) \in Nat
    <2>1. At(im, t) \in Record
      BY <1>1, RecordsRead
    <2>2. At(im, t).records \in Nat
      BY <2>1 DEF Record
    <2>. QED
      BY <2>2 DEF Count
  <1>3. /\ Place(im, t, f) /\ f.next \in 1 .. E + 1
        /\ Filled(im, h, f.rom, f.i) /\ Hung(h, f.rom, f.next - 1)
    BY DEF Reading
  <1>. HIDE DEF t, E
  <1>4. f.i = Total(im, t)
    <2>1. f.i \in 1 .. Total(im, t) /\ f.records_count = Count(im, t)
      BY <1>1, <1>3 DEF Place
    <2>. QED
      BY <1>1, <1>2, <2>1 DEF Total
  <1>5. f.next - 1 = E
    BY <1>1, <1>3 DEF E
  <1>. QED
    BY <1>3, <1>4, <1>5 DEF Finished, t, E

(* The discovery of the root returns.                                      *)
LEMMA RootReturns ==
  ASSUME IInv, Return, Len(stack) = 1
  PROVE  IInv'
  <1>1. /\ stack # <<>> /\ ~ overflow /\ Top.i >= Top.records_count
        /\ Top.next > Len(heap[Top.rom].entries)
        /\ stack' = <<>> /\ UNCHANGED <<image, heap, overflow>>
    <2>1. /\ stack # <<>> /\ Top \in Frame /\ heap[Top.rom] \in Rom
      BY Running DEF Return, Walking
    <2>2. /\ Top.i \in Nat /\ Top.records_count \in Nat /\ Top.next \in Nat
          /\ Len(heap[Top.rom].entries) \in Nat
      BY <2>1, RomParts DEF Frame
    <2>. QED
      BY <2>1, <2>2 DEF Return, Walking, Scanning, Self
  <1>2. /\ stack[1].rom = 1 /\ heap \in Seq(Rom) /\ image \in Memories /\ Len(heap) \in Nat
    BY <1>1, BottomIsRoot DEF IInv, Typed
  <1>3. \A x : Active(stack, x) <=> x = 1
    BY <1>2 DEF Active
  <1>4. Finished(image, heap, 1)
    <2>1. /\ Top \in Frame /\ Top.rom = 1 /\ heap[Top.rom] \in Rom /\ Reading(image, heap, Top)
      BY <1>1, <1>2, Running
    <2>2. Finished(image, heap, Top.rom)
      BY <1>1, <1>2, <2>1, WalkedAll
    <2>. QED
      BY <2>1, <2>2
  <1>5. \A x : ~ Active(stack', x)
    BY <1>1 DEF Active
  <1>6. Typed'
    BY <1>1, Constants DEF IInv, Typed
  <1>7. Lists'
    <2>1. \A x \in 1 .. Len(heap) : Listing(heap, stack', x)
      BY <1>2, <1>5, GrownSame, ListingKept DEF IInv, Lists
    <2>2. \A x \in 2 .. Len(heap) : InList(heap, x)
      BY <1>3 DEF IInv, Lists
    <2>. QED
      BY <1>1, <2>1, <2>2 DEF Lists
  <1>8. Complete'
    BY <1>1, <1>3, <1>4 DEF IInv, Complete
  <1>9. Tree' /\ Frames' /\ Full'
    BY <1>1 DEF IInv, Tree, Frames, Full
  <1>. QED
    BY <1>6, <1>7, <1>8, <1>9 DEF IInv

(* A rom is finished and hung in the list of the rom above.                *)
LEMMA ChildReturns ==
  ASSUME IInv, Return, Len(stack) # 1
  PROVE  IInv'
  <1>. DEFINE n == Len(stack)
              f == stack[n]
              r == f.rom
              d == stack[n - 1]
              p == d.rom
              v == [heap[p] EXCEPT !.roms = Append(@, r)]
              g == [d EXCEPT !.next = @ + 1]
  <1>1. /\ stack # <<>> /\ ~ overflow /\ f.i >= f.records_count
        /\ f.next > Len(heap[r].entries)
        /\ heap' = [heap EXCEPT ![p].roms = Append(@, r)]
        /\ stack' = [Pop EXCEPT ![n - 1].next = @ + 1]
        /\ UNCHANGED <<image, overflow>>
    <2>1. /\ stack # <<>> /\ Top \in Frame /\ heap[Top.rom] \in Rom
      BY Running DEF Return, Walking
    <2>2. /\ Top.i \in Nat /\ Top.records_count \in Nat /\ Top.next \in Nat
          /\ Len(heap[Top.rom].entries) \in Nat
      BY <2>1, RomParts DEF Frame
    <2>. QED
      BY <2>1, <2>2 DEF Return, Walking, Scanning, Self, Top
  <1>2. /\ n \in 1 .. MaxFrames /\ Top = f /\ r \in 1 .. Len(heap) /\ heap[r] \in Rom
        /\ f \in Frame /\ heap[r].level = n - 1 /\ Reading(image, heap, f)
        /\ \A k \in 1 .. n : /\ stack[k] \in Frame /\ stack[k].rom \in 1 .. Len(heap)
                             /\ heap[stack[k].rom].level = k - 1
        /\ \A k, l \in 1 .. n : stack[k].rom = stack[l].rom => k = l
    BY <1>1, Running
  <1>3. /\ heap \in Seq(Rom) /\ Len(heap) \in Nat /\ stack \in Seq(Frame)
        /\ image \in Memories /\ n \in Nat /\ n \in 1 .. n /\ n - 1 \in 1 .. n /\ n - 1 \in Nat
        /\ n - 1 # n /\ n <= MaxFrames /\ MaxFrames \in Nat
    <2>1. n # 1
      OBVIOUS
    <2>2. /\ heap \in Seq(Rom) /\ Len(heap) \in Nat /\ stack \in Seq(Frame)
          /\ image \in Memories /\ n <= MaxFrames /\ MaxFrames \in Nat
      BY Constants DEF IInv, Typed
    <2>. HIDE DEF n
    <2>3. n \in Nat /\ n >= 1
      BY <1>2, <2>2
    <2>. QED
      BY <2>1, <2>2, <2>3
  <1>4. d \in Frame /\ p \in 1 .. Len(heap) /\ heap[p] \in Rom /\ heap[p].level = (n - 1) - 1
        /\ p # r
    <2>. HIDE DEF n
    <2>. QED
      BY <1>2, <1>3
  <1>5. /\ d.i \in Nat /\ d.records_count \in Nat /\ d.next \in Nat
        /\ Len(heap[p].entries) \in Nat /\ Len(heap[p].roms) \in Nat /\ r \in Nat
    BY <1>3, <1>2, <1>4, RomParts DEF Frame
  <1>6. heap[r].parent = p /\ AtBridge(heap, d) /\ heap[r].entry_id = heap[p].entries[d.next].id
    <2>. HIDE DEF n
    <2>1. Framed(image, heap, stack, n) /\ n # 1
      BY <1>3 DEF IInv, Frames, n
    <2>. QED
      BY <2>1 DEF Framed, Called
  <1>7. Finished(image, heap, r)
    BY <1>1, <1>2, <1>3, WalkedAll
  <1>8. Pop \in Seq(Frame) /\ Len(Pop) = n - 1 /\ \A k \in 1 .. n - 1 : Pop[k] = stack[k]
    <2>. HIDE DEF n
    <2>. QED
      BY <1>3 DEF Pop, n
  <1>9. heap' = [heap EXCEPT ![p] = v]
    <2>. HIDE DEF n, r, p
    <2>. QED
      BY <1>1, <1>3, <1>4
  <1>10. stack' = [Pop EXCEPT ![n - 1] = g]
    <2>1. Pop[n - 1] = d
      <3>. HIDE DEF n
      <3>. QED
        BY <1>3, <1>8
    <2>. HIDE DEF n
    <2>. QED
      BY <1>1, <1>3, <1>8, <2>1
  <1>11. /\ v \in Rom /\ v.entries = heap[p].entries /\ v.roms = Append(heap[p].roms, r)
         /\ v.parent = heap[p].parent /\ v.entry_id = heap[p].entry_id
         /\ v.sdb_address = heap[p].sdb_address /\ v.bus_address = heap[p].bus_address
         /\ v.level = heap[p].level
    <2>1. heap[p].roms \in Seq(Nat) /\ Append(heap[p].roms, r) \in Seq(Nat)
      <3>. HIDE DEF r, p
      <3>. QED
        BY <1>4, <1>5, RomParts, AppendProperties
    <2>. HIDE DEF r, p
    <2>. QED
      BY <1>4, <2>1 DEF Rom
  <1>12. /\ g \in Frame /\ g.rom = p /\ g.i = d.i /\ g.records_count = d.records_count
         /\ g.next = d.next + 1
    <2>1. d \in [rom : Nat, i : Nat, records_count : Nat, next : Nat] /\ d.next + 1 \in Nat
      BY <1>4, <1>5 DEF Frame
    <2>. HIDE DEF d
    <2>2. /\ g \in Frame /\ g.rom = d.rom /\ g.i = d.i /\ g.records_count = d.records_count
          /\ g.next = d.next + 1
      BY <2>1 DEF Frame
    <2>. QED
      BY <2>2 DEF d
  <1>. HIDE DEF v, g
  <1>13. /\ heap' \in Seq(Rom) /\ Len(heap') = Len(heap) /\ heap'[p] = v
         /\ \A x \in 1 .. Len(heap) : x # p => heap'[x] = heap[x]
    <2>. HIDE DEF p
    <2>. QED
      BY <1>3, <1>4, <1>9, <1>11, Replaced
  <1>14. /\ stack' \in Seq(Frame) /\ Len(stack') = n - 1 /\ stack'[n - 1] = g
         /\ \A k \in 1 .. n - 1 : k # n - 1 => stack'[k] = stack[k]
    <2>. HIDE DEF n
    <2>1. n - 1 \in 1 .. Len(Pop)
      BY <1>3, <1>8
    <2>. QED
      BY <1>8, <1>10, <1>12, <2>1, Replaced
  <1>. HIDE DEF n, f, r, d, p
  <1>15. Len(v.roms) = Len(heap[p].roms) + 1 /\ v.roms[Len(heap[p].roms) + 1] = r
         /\ \A m \in 1 .. Len(heap[p].roms) : v.roms[m] = heap[p].roms[m]
    <2>1. heap[p].roms \in Seq(Nat)
      BY <1>4, RomParts
    <2>. QED
      BY <1>5, <1>11, <2>1, AppendProperties
  <1>16. \A x \in 1 .. Len(heap) : heap'[x].entries = heap[x].entries
    BY <1>11, <1>13
  <1>17. Grown(heap, heap')
    <2>1. \A x \in 1 .. Len(heap) : Len(heap[x].entries) <= Len(heap'[x].entries)
      BY <1>3, <1>16, RomParts
    <2>2. ASSUME NEW x \in 1 .. Len(heap)
          PROVE  /\ heap'[x].parent = heap[x].parent /\ heap'[x].entry_id = heap[x].entry_id
                 /\ heap'[x].sdb_address = heap[x].sdb_address
                 /\ heap'[x].bus_address = heap[x].bus_address
                 /\ heap'[x].level = heap[x].level
      BY <1>11, <1>13
    <2>. QED
      BY <1>3, <1>13, <1>16, <2>1, <2>2 DEF Grown
  <1>18. \A k \in 1 .. n - 1 : stack'[k].rom = stack[k].rom
    BY <1>12, <1>14 DEF p, d
  <1>19. \A x : Active(stack, x) <=> Active(stack', x) \/ x = r
    <2>1. \A k \in 1 .. n : k \in 1 .. n - 1 \/ k = n
      BY <1>3
    <2>2. \A k \in 1 .. n - 1 : k \in 1 .. n
      BY <1>3
    <2>3. \A x : Active(stack, x) <=> \E k \in 1 .. n : stack[k].rom = x
      BY DEF Active, n
    <2>4. \A x : Active(stack', x) <=> \E k \in 1 .. n - 1 : stack[k].rom = x
      BY <1>14, <1>18 DEF Active
    <2>5. stack[n].rom = r
      BY DEF r, f
    <2>. QED
      BY <1>3, <2>1, <2>2, <2>3, <2>4, <2>5
  <1>20. ~ Active(stack', r) /\ Active(stack', p)
    <2>1. \A k \in 1 .. n - 1 : k \in 1 .. n /\ k # n
      BY <1>3
    <2>2. \A k \in 1 .. n - 1 : stack[k].rom # r
      BY <1>2, <1>3, <2>1 DEF r, f
    <2>3. n - 1 \in 1 .. n - 1
      BY <1>3
    <2>. QED
      BY <1>14, <1>18, <2>2, <2>3 DEF Active, p, d
  <1>21. r # 1 /\ r \in 2 .. Len(heap)
    <2>1. r # 1
      BY <1>2, <1>3 DEF IInv, Tree, InTree
    <2>. QED
      BY <1>2, <1>3, <2>1
  <1>22. Typed'
    BY <1>1, <1>3, <1>13, <1>14 DEF IInv, Typed
  <1>23. Tree'
    BY <1>13, <1>17, TreeGrows DEF IInv, Tree
  <1>24. Lists'
    <2>1. ASSUME NEW x \in 1 .. Len(heap), x # p PROVE Listing(heap', stack', x)
      <3>1. Listing(heap, stack, x) /\ heap'[x].roms = heap[x].roms
        BY <1>13, <2>1 DEF IInv, Lists
      <3>. QED
        BY <1>17, <1>19, <3>1, ListingKept
    <2>2. Listing(heap', stack', p)
      <3>1. Listing(heap, stack, p)
        BY <1>4 DEF IInv, Lists
      <3>2. \A m \in 1 .. Len(heap[p].roms) :
              /\ heap[p].roms[m] \in 2 .. Len(heap) /\ heap[p].roms[m] \in 1 .. Len(heap)
              /\ heap'[heap[p].roms[m]].parent = p
              /\ ~ Active(stack', heap[p].roms[m]) /\ heap[p].roms[m] # r
              /\ \A l \in 1 .. Len(heap[p].roms) : heap[p].roms[l] = heap[p].roms[m] => l = m
        <4>1. \A m \in 1 .. Len(heap[p].roms) : heap[p].roms[m] \in 1 .. Len(heap)
          BY <1>4, ListsHoldRoms
        <4>2. \A m \in 1 .. Len(heap[p].roms) :
                heap'[heap[p].roms[m]].parent = heap[heap[p].roms[m]].parent
          BY <1>17, <4>1 DEF Grown
        <4>. QED
          BY <1>19, <3>1, <4>1, <4>2 DEF Listing
      <3>3. heap'[r].parent = p
        BY <1>2, <1>6, <1>17 DEF Grown
      <3>4. \A m \in 1 .. Len(v.roms) : m \in 1 .. Len(heap[p].roms) \/ m = Len(heap[p].roms) + 1
        BY <1>5, <1>15
      <3>5. ASSUME NEW m \in 1 .. Len(v.roms)
            PROVE  /\ v.roms[m] \in 2 .. Len(heap) /\ heap'[v.roms[m]].parent = p
                   /\ ~ Active(stack', v.roms[m])
                   /\ \A l \in 1 .. Len(v.roms) : v.roms[l] = v.roms[m] => l = m
        <4>1. CASE m = Len(heap[p].roms) + 1
          <5>1. v.roms[m] = r
            BY <1>15, <4>1
          <5>2. \A l \in 1 .. Len(v.roms) : v.roms[l] = r => l = m
            BY <1>15, <3>2, <3>4, <4>1
          <5>. QED
            BY <1>20, <1>21, <3>3, <5>1, <5>2
        <4>2. CASE m \in 1 .. Len(heap[p].roms)
          <5>1. v.roms[m] = heap[p].roms[m]
            BY <1>15, <4>2
          <5>2. \A l \in 1 .. Len(v.roms) : v.roms[l] = v.roms[m] => l = m
            BY <1>15, <3>2, <3>4, <4>2, <5>1
          <5>. QED
            BY <3>2, <4>2, <5>1, <5>2
        <4>. QED
          BY <3>4, <4>1, <4>2
      <3>. QED
        BY <1>13, <3>5 DEF Listing
    <2>3. ASSUME NEW x \in 2 .. Len(heap), ~ Active(stack', x) PROVE InList(heap', x)
      <3>1. x \in 1 .. Len(heap)
        BY <1>3
      <3>2. heap'[x].parent = heap[x].parent
        BY <1>17, <3>1 DEF Grown
      <3>3. CASE x = r
        <4>1. Len(heap[p].roms) + 1 \in 1 .. Len(v.roms)
          BY <1>5, <1>15
        <4>. QED
          BY <1>6, <1>13, <1>15, <3>2, <3>3, <4>1 DEF InList
      <3>4. CASE x # r
        <4>1. InList(heap, x)
          BY <1>19, <2>3, <3>4 DEF IInv, Lists
        <4>2. heap[x].parent \in 1 .. Len(heap)
          BY <1>3, <2>3, <3>1 DEF IInv, Tree, InTree
        <4>3. CASE heap[x].parent = p
          <5>1. PICK m \in 1 .. Len(heap[p].roms) : heap[p].roms[m] = x
            BY <4>1, <4>3 DEF InList
          <5>2. m \in 1 .. Len(v.roms) /\ v.roms[m] = x
            BY <1>5, <1>15, <5>1
          <5>. QED
            BY <1>13, <3>2, <4>3, <5>2 DEF InList
        <4>4. CASE heap[x].parent # p
          BY <1>13, <3>2, <4>1, <4>2, <4>4 DEF InList
        <4>. QED
          BY <4>3, <4>4
      <3>. QED
        BY <3>3, <3>4
    <2>. QED
      BY <1>13, <2>1, <2>2, <2>3 DEF Lists
  <1>25. Frames'
    <2>1. ASSUME NEW k \in 1 .. n - 1, k # n - 1 PROVE Framed(image', heap', stack', k)
      <3>1. k \in 1 .. n /\ k \in Nat /\ (k # 1 => k - 1 \in 1 .. n /\ k - 1 \in 1 .. n - 1 /\ k - 1 # n - 1)
        BY <1>3, <2>1
      <3>2. Framed(image, heap, stack, k) /\ stack'[k] = stack[k]
        BY <1>14, <2>1, <3>1 DEF IInv, Frames, n
      <3>3. stack[k].rom \in 1 .. Len(heap) /\ stack[k].rom # p
        BY <1>2, <1>3, <2>1, <3>1 DEF p, d
      <3>4. k # 1 => stack'[k - 1] = stack[k - 1] /\ stack[k - 1].rom \in 1 .. Len(heap)
        BY <1>2, <1>14, <3>1
      <3>5. heap'[stack[k].rom] = heap[stack[k].rom]
        BY <1>13, <3>3
      <3>6. k # 1 => heap'[stack[k - 1].rom].entries = heap[stack[k - 1].rom].entries
        BY <1>16, <3>4
      <3>7. Framed(image, heap', stack', k)
        BY <1>17, <3>1, <3>2, <3>3, <3>4, <3>5, <3>6, ListsHoldRoms, FramedKept
      <3>. QED
        BY <1>1, <3>7
    <2>2. Framed(image', heap', stack', n - 1)
      <3>1. Framed(image, heap, stack, n - 1)
        BY <1>3 DEF IInv, Frames, n
      <3>2. Reading(image, heap, d) /\ (n - 1 # 1 => Called(heap, stack[(n - 1) - 1], d))
        BY <3>1 DEF Framed, d
      <3>3. d.i >= d.records_count /\ d.next <= Len(heap[p].entries)
        BY <1>6 DEF AtBridge, p
      <3>4. Hung(heap', p, g.next - 1)
        <4>1. Hung(heap, p, d.next - 1)
          BY <3>2 DEF Reading, p
        <4>2. \A k \in 1 .. g.next - 1 : k \in 1 .. d.next - 1 \/ k = d.next
          BY <1>5, <1>12
        <4>3. \A m \in 1 .. Len(heap[p].roms) :
                /\ m \in 1 .. Len(v.roms) /\ v.roms[m] = heap[p].roms[m]
                /\ heap'[v.roms[m]].entry_id = heap[heap[p].roms[m]].entry_id
          <5>1. \A m \in 1 .. Len(heap[p].roms) : heap[p].roms[m] \in 1 .. Len(heap)
            BY <1>4, ListsHoldRoms
          <5>2. \A m \in 1 .. Len(heap[p].roms) :
                  heap'[heap[p].roms[m]].entry_id = heap[heap[p].roms[m]].entry_id
            BY <1>17, <5>1 DEF Grown
          <5>3. \A m \in 1 .. Len(heap[p].roms) : m \in 1 .. Len(v.roms)
            BY <1>5, <1>15
          <5>. QED
            BY <1>15, <5>2, <5>3
        <4>4. heap'[r].entry_id = heap[p].entries[d.next].id
          BY <1>2, <1>6, <1>17 DEF Grown
        <4>5. Len(heap[p].roms) + 1 \in 1 .. Len(v.roms)
          BY <1>5, <1>15
        <4>6. ASSUME NEW k \in 1 .. g.next - 1, heap[p].entries[k].data.type = "bridge"
              PROVE  \E m \in 1 .. Len(v.roms) : heap'[v.roms[m]].entry_id = heap[p].entries[k].id
          <5>1. CASE k = d.next
            BY <1>15, <4>4, <4>5, <5>1
          <5>2. CASE k \in 1 .. d.next - 1
            BY <4>1, <4>3, <4>6, <5>2 DEF Hung
          <5>. QED
            BY <4>2, <5>1, <5>2
        <4>. QED
          BY <1>11, <1>13, <4>6 DEF Hung
      <3>5. g.next \in 1 .. Len(heap[p].entries) + 1
        BY <1>5, <1>12, <3>3
      <3>6. Filled(image, heap', p, g.i)
        <4>1. Filled(image, heap, p, d.i)
          BY <3>2 DEF Reading, p
        <4>. QED
          BY <1>11, <1>12, <1>13, <4>1 DEF Filled
      <3>7. Place(image, heap[p].sdb_address, g)
        <4>1. Place(image, heap[p].sdb_address, d)
          BY <3>2 DEF Reading, p
        <4>. QED
          BY <1>5, <1>12, <3>3, <4>1 DEF Place
      <3>8. Reading(image, heap', g)
        BY <1>11, <1>12, <1>13, <3>4, <3>5, <3>6, <3>7 DEF Reading
      <3>9. n - 1 # 1 => Called(heap', stack'[(n - 1) - 1], stack'[n - 1])
        <4>. SUFFICES ASSUME n - 1 # 1 PROVE Called(heap', stack'[(n - 1) - 1], stack'[n - 1])
          OBVIOUS
        <4>. DEFINE q == (n - 1) - 1
        <4>1. q \in 1 .. n /\ q \in 1 .. n - 1 /\ q # n - 1
          <5>1. n - 1 >= 1
            BY <1>3
          <5>. QED
            BY <1>3, <5>1
        <4>. HIDE DEF q
        <4>2. stack'[q] = stack[q] /\ stack[q].rom \in 1 .. Len(heap)
          BY <1>2, <1>14, <4>1
        <4>3. Called(heap, stack[q], g)
          <5>1. Called(heap, stack[q], d)
            BY <3>2 DEF q
          <5>. QED
            BY <1>12, <5>1 DEF Called, p
        <4>4. g.rom \in 1 .. Len(heap) /\ heap'[stack[q].rom].entries = heap[stack[q].rom].entries
          BY <1>4, <1>12, <1>16, <4>2
        <4>5. Called(heap', stack[q], g)
          BY <1>17, <4>2, <4>3, <4>4, CallKept
        <4>. QED
          BY <1>14, <4>2, <4>5 DEF q
      <3>10. heap'[p].level = (n - 1) - 1 /\ p \in 1 .. Len(heap')
        BY <1>4, <1>11, <1>13
      <3>. QED
        BY <1>1, <1>12, <1>14, <3>8, <3>9, <3>10 DEF Framed
    <2>. QED
      BY <1>14, <2>1, <2>2 DEF Frames
  <1>26. Complete'
    <2>1. ASSUME NEW x \in 1 .. Len(heap), ~ Active(stack', x) PROVE Finished(image, heap', x)
      <3>1. x # p
        BY <1>20, <2>1
      <3>2. Finished(image, heap, x) /\ heap'[x] = heap[x]
        BY <1>7, <1>13, <1>19, <2>1, <3>1 DEF IInv, Complete
      <3>. QED
        BY <1>17, <3>2, ListsHoldRoms, Untouched
    <2>. QED
      BY <1>1, <1>13, <2>1 DEF Complete
  <1>27. Full'
    BY <1>1 DEF Full
  <1>. QED
    BY <1>22, <1>23, <1>24, <1>25, <1>26, <1>27 DEF IInv

(* IInv reads only the variables of the discovery.                         *)
LEMMA Standing ==
  ASSUME IInv, UNCHANGED vars
  PROVE  IInv'
  BY DEF vars, IInv, Typed, Tree, Lists, Frames, Complete, Full

(* Before the discovery there is nothing to be wrong.                      *)
LEMMA Starting ==
  ASSUME Init
  PROVE  IInv
  <1>1. image \in Memories /\ heap = <<>> /\ stack = <<>> /\ overflow = FALSE
    BY Constants DEF Init
  <1>2. Len(heap) = 0 /\ Len(stack) = 0 /\ heap \in Seq(Rom) /\ stack \in Seq(Frame)
    BY <1>1
  <1>3. Typed
    <2>1. overflow \in BOOLEAN
      BY <1>1
    <2>2. Len(stack) <= MaxFrames
      BY <1>2, Constants
    <2>. QED
      BY <1>1, <1>2, <2>1, <2>2 DEF Typed
  <1>4. Tree /\ Lists /\ Frames /\ Complete
    BY <1>2 DEF Tree, Lists, Frames, Complete
  <1>. QED
    BY <1>1, <1>3, <1>4 DEF IInv, Full

(* Every step of the discovery keeps the invariant.                        *)
LEMMA Stepping ==
  ASSUME IInv, [Next]_vars
  PROVE  IInv'
  <1>1. ASSUME NEW root \in Roots, CreateDirect(root) PROVE IInv'
    BY <1>1, Creating
  <1>2. CASE ReadEntry
    BY <1>2, ReadingOn
  <1>3. CASE Descend
    BY <1>3, DescendingOn
  <1>4. CASE PassEntry
    BY <1>4, PassingOn
  <1>5. CASE Return
    BY <1>5, RootReturns, ChildReturns
  <1>6. CASE UNCHANGED vars
    BY <1>6, Standing
  <1>. QED
    BY <1>1, <1>2, <1>3, <1>4, <1>5, <1>6 DEF Next

(* Discovery keeps the invariant: a tree of roms, each finished or filled  *)
(* by the one activation for it, that agrees with the card's tables        *)
(* (300-411).                                                              *)
THEOREM Invariance == Spec => []IInv
  <1>1. Init => IInv
    BY Starting
  <1>2. IInv /\ [Next]_vars => IInv'
    BY Stepping
  <1>. QED
    BY <1>1, <1>2, PTL DEF Spec

(* Types, and each activation one level and one table below its caller     *)
(* (300-377).                                                              *)
THEOREM TypeCorrect == Spec => []TypeOK
  <1>1. IInv => TypeOK
    <2>. SUFFICES ASSUME IInv PROVE TypeOK
      OBVIOUS
    <2>1. /\ image \in [0 .. NumSlots - 1 -> Record]
          /\ heap \in Seq(Rom) /\ stack \in Seq(Frame) /\ overflow \in BOOLEAN
          /\ Len(stack) <= MaxFrames
      BY DEF IInv, Typed, Memories
    <2>2. ASSUME NEW k \in 1 .. Len(stack)
          PROVE  /\ stack[k].rom \in 1 .. Len(heap)
                 /\ stack[k].i <= stack[k].records_count \/ stack[k].i = 1
                 /\ stack[k].next \in 1 .. Len(heap[stack[k].rom].entries) + 1
                 /\ heap[stack[k].rom].level = k - 1
                 /\ k > 1 => heap[stack[k].rom].parent = stack[k - 1].rom
      <3>. DEFINE f == stack[k]
                  t == heap[f.rom].sdb_address
      <3>1. Framed(image, heap, stack, k) /\ f \in Frame /\ image \in Memories
        BY <2>1 DEF IInv, Frames, Memories
      <3>2. f.rom \in 1 .. Len(heap) /\ heap[f.rom] \in Rom /\ Reading(image, heap, f)
        BY <2>1, <3>1 DEF Framed
      <3>3. t \in Nat /\ f.i \in Nat /\ f.records_count \in Nat /\ Place(image, t, f)
        BY <3>1, <3>2, RomParts DEF Frame, Reading
      <3>4. Count(image, t) \in Nat
        <4>1. At(image, t) \in Record
          BY <3>1, <3>3, RecordsRead
        <4>2. At(image, t).records \in Nat
          BY <4>1 DEF Record
        <4>. QED
          BY <4>2 DEF Count
      <3>5. f.i <= f.records_count \/ f.i = 1
        <4>. HIDE DEF f, t
        <4>. QED
          BY <3>3, <3>4 DEF Place, Total
      <3>6. f.next \in 1 .. Len(heap[f.rom].entries) + 1
        BY <3>2 DEF Reading
      <3>7. k > 1 => heap[f.rom].parent = stack[k - 1].rom
        BY <3>1 DEF Framed, Called
      <3>8. heap[f.rom].level = k - 1
        BY <3>1 DEF Framed
      <3>. QED
        BY <3>2, <3>5, <3>6, <3>7, <3>8
    <2>. QED
      BY <2>1, <2>2 DEF TypeOK
  <1>. QED
    BY <1>1, Invariance, PTL

(* HungOnce, from the lists of the invariant.                              *)
LEMMA HungIfBuilt ==
  ASSUME IInv
  PROVE  HungOnce
  <1>. DEFINE up(r)     == heap[heap[r].parent]
              hooks(r)  == {k \in 1 .. Len(up(r).roms) : up(r).roms[k] = r}
  <1>1. ASSUME NEW r \in 2 .. Len(heap)
        PROVE  /\ IF \E k \in 1 .. Len(stack) : stack[k].rom = r
                    THEN hooks(r) = {} ELSE \E k \in hooks(r) : hooks(r) = {k}
               /\ \E k \in 1 .. Len(up(r).entries) :
                    /\ up(r).entries[k].id = heap[r].entry_id
                    /\ up(r).entries[k].data.type = "bridge"
                    /\ up(r).entries[k].data.child = heap[r].sdb_address
    <2>1. heap \in Seq(Rom) /\ Len(heap) \in Nat
      BY DEF IInv, Typed
    <2>2. r \in 1 .. Len(heap) /\ r # 1
      BY <2>1
    <2>3. /\ heap[r].parent \in 1 .. r - 1
          /\ IsBridge(up(r).entries, heap[r].entry_id, heap[r].sdb_address, heap[r].bus_address)
      BY <2>2 DEF IInv, Tree, InTree
    <2>4. heap[r].parent \in 1 .. Len(heap)
      BY <2>1, <2>3
    <2>5. Listing(heap, stack, heap[r].parent)
      BY <2>4 DEF IInv, Lists
    <2>6. CASE Active(stack, r)
      <3>1. hooks(r) = {}
        BY <2>5, <2>6 DEF Listing
      <3>. QED
        BY <2>3, <2>6, <3>1 DEF Active, IsBridge
    <2>7. CASE ~ Active(stack, r)
      <3>1. PICK m \in 1 .. Len(up(r).roms) : up(r).roms[m] = r
        BY <2>7 DEF IInv, Lists, InList
      <3>2. hooks(r) = {m}
        BY <2>5, <3>1 DEF Listing
      <3>3. \E k \in hooks(r) : hooks(r) = {k}
        BY <3>2
      <3>. HIDE DEF hooks
      <3>. QED
        BY <2>3, <2>7, <3>3 DEF Active, IsBridge
    <2>. QED
      BY <2>6, <2>7
  <1>. QED
    BY <1>1 DEF HungOnce

(* At every moment each rom but the root hangs once, in the list of its    *)
(* parent, or is still being filled; the bridge it was made for is an      *)
(* entry of that parent (349-353, 364-390).                                *)
THEOREM AlwaysHungOnce == Spec => []HungOnce
  <1>1. IInv => HungOnce
    BY HungIfBuilt
  <1>. QED
    BY <1>1, Invariance, PTL

---------------------------------------------------------------------------
(* Lookups. *)

(* First is the least of the hits, if there is one.                        *)
LEMMA FirstHit ==
  ASSUME NEW hits, hits \subseteq Nat \ {0}
  PROVE  /\ hits = {} => First(hits) = NULL
         /\ hits # {} => First(hits) \in hits /\ First(hits) # NULL
  <1>1. CASE hits = {}
    BY <1>1 DEF First
  <1>2. CASE hits # {}
    <2>1. hits \subseteq Nat
      OBVIOUS
    <2>2. PICK n \in hits : \A m \in hits : n <= m
      BY <1>2, <2>1, LeastElement
    <2>3. First(hits) \in hits
      BY <1>2, <2>2 DEF First
    <2>. QED
      BY <1>2, <2>3 DEF NULL
  <1>. QED
    BY <1>1, <1>2

(* Once the discovery has ended every rom is finished.                     *)
LEMMA AllFinished ==
  ASSUME IInv, Done, NEW x \in 1 .. Len(heap)
  PROVE  /\ heap[x] \in Rom /\ Filled(image, heap, x, Total(image, heap[x].sdb_address))
         /\ Hung(heap, x, Len(heap[x].entries))
         /\ \A m \in 1 .. Len(heap[x].roms) : /\ heap[x].roms[m] \in 1 .. Len(heap)
                                              /\ heap[x].roms[m] # 1
                                              /\ heap[heap[x].roms[m]].parent = x
  <1>1. ~ Active(stack, x) /\ heap \in Seq(Rom)
    BY DEF IInv, Typed, Done, Active
  <1>2. Finished(image, heap, x)
    BY <1>1 DEF IInv, Complete
  <1>3. Listing(heap, stack, x) /\ Len(heap) \in Nat
    BY <1>1 DEF IInv, Lists
  <1>. QED
    BY <1>1, <1>2, <1>3 DEF Finished, Listing

(* Where the entries have the number id.                                   *)
Places(entries, id) == {n \in 1 .. Len(entries) : entries[n].id = id}

(* The entries of a finished rom are those its table lists.                *)
LEMMA EntryFound ==
  ASSUME IInv, Done, NEW x \in 1 .. Len(heap), NEW id \in Nat
  PROVE  /\ Places(heap[x].entries, id) = {} <=> id \notin Listed(heap[x].sdb_address)
         /\ \A k \in Places(heap[x].entries, id) :
                            /\ heap[x].entries[k].data = RecordAt(heap[x].sdb_address + id)
                            /\ heap[x].entries[k].parent = x
  <1>. DEFINE t    == heap[x].sdb_address
              es   == heap[x].entries
              hits == Places(es, id)
  <1>1. t \in Nat /\ image \in Memories /\ Len(es) \in Nat
    BY AllFinished, RomParts DEF IInv, Typed
  <1>2. IsFilled(image, t, es, x, Total(image, t))
    BY AllFinished DEF Filled
  <1>3. id \in Listed(t) <=> id < Total(image, t) /\ Keeps(image, t, id)
    BY <1>1, ListedKept
  <1>4. Total(image, t) \in Nat
    <2>1. At(image, t) \in Record
      BY <1>1, RecordsRead
    <2>2. At(image, t).records \in Nat
      BY <2>1 DEF Record
    <2>3. Count(image, t) \in Nat
      BY <2>2 DEF Count
    <2>. QED
      BY <2>3 DEF Total
  <1>5. RecordAt(t + id) = At(image, t + id)
    BY DEF RecordAt, At
  <1>6. hits = {n \in 1 .. Len(es) : es[n].id = id}
    BY DEF Places
  <1>. HIDE DEF t, es, hits
  <1>7. ASSUME NEW k \in hits
        PROVE  es[k].data = At(image, t + id) /\ es[k].parent = x /\ id \in Listed(t)
    <2>1. k \in 1 .. Len(es) /\ es[k].id = id
      BY <1>6
    <2>2. /\ id \in 0 .. Total(image, t) - 1 /\ Keeps(image, t, id)
          /\ es[k].data = At(image, t + id) /\ es[k].parent = x
      BY <1>2, <2>1 DEF IsFilled
    <2>3. id < Total(image, t)
      BY <1>4, <2>2
    <2>. QED
      BY <1>3, <2>2, <2>3
  <1>8. ASSUME id \in Listed(t) PROVE hits # {}
    <2>1. id \in 0 .. Total(image, t) - 1 /\ Keeps(image, t, id)
      BY <1>3, <1>4, <1>8
    <2>2. PICK k \in 1 .. Len(es) : es[k].id = id
      BY <1>2, <2>1 DEF IsFilled
    <2>. QED
      BY <1>6, <2>2
  <1>9. \A k \in hits : es[k].data = RecordAt(t + id) /\ es[k].parent = x /\ id \in Listed(t)
    BY <1>5, <1>7
  <1>. QED
    BY <1>8, <1>9 DEF t, es, hits

(* The rom found below x is the one of the bridge with that entry number.  *)
LEMMA ChildFound ==
  ASSUME IInv, Done, NEW x \in 1 .. Len(heap), NEW id \in Nat, id < IdMod
  PROVE  LET t == heap[x].sdb_address
             c == get_sdb_rom_by_id(x, id)
         IN  /\ id \in Bridges(t) =>
                  /\ c \in 1 .. Len(heap) /\ c # NULL
                  /\ heap[c].sdb_address = RecordAt(t + id).child
                  /\ heap[c].bus_address = RecordAt(t + id).addr % AddrMod
             /\ id \notin Bridges(t) => c = NULL
  <1>. DEFINE t    == heap[x].sdb_address
              c    == get_sdb_rom_by_id(x, id)
              es   == heap[x].entries
              roms == heap[x].roms
              hits == {n \in 1 .. Len(roms) : heap[roms[n]].entry_id = id}
              ents == Places(es, id)
              k    == First(hits)
  <1>1. id % IdMod = id
    BY Constants
  <1>2. /\ heap[x] \in Rom /\ Len(es) \in Nat /\ Len(roms) \in Nat /\ t \in Nat
        /\ image \in Memories /\ Hung(heap, x, Len(es))
        /\ \A m \in 1 .. Len(roms) : /\ roms[m] \in 1 .. Len(heap) /\ roms[m] # 1
                                     /\ heap[roms[m]].parent = x
    BY AllFinished, RomParts DEF IInv, Typed
  <1>3. c = IF k = NULL THEN NULL ELSE roms[k]
    BY <1>1 DEF get_sdb_rom_by_id
  <1>4. /\ ents = {} <=> id \notin Listed(t)
        /\ \A n \in ents : es[n].data = RecordAt(t + id)
    BY EntryFound
  <1>5. id \in Bridges(t) <=> id \in Listed(t) /\ RecordAt(t + id).type = "bridge"
    <2>1. RecordAt(t + id) = At(image, t + id)
      BY DEF RecordAt, At
    <2>. QED
      BY <1>2, <2>1, ListedKept
  <1>6. ASSUME NEW m \in hits
        PROVE  /\ roms[m] \in 1 .. Len(heap) /\ id \in Bridges(t)
               /\ heap[roms[m]].sdb_address = RecordAt(t + id).child
               /\ heap[roms[m]].bus_address = RecordAt(t + id).addr % AddrMod
    <2>. DEFINE b == roms[m]
    <2>1. /\ b \in 1 .. Len(heap) /\ b # 1 /\ heap[b].parent = x /\ heap[b].entry_id = id
      BY <1>2
    <2>. HIDE DEF b
    <2>2. IsBridge(es, id, heap[b].sdb_address, heap[b].bus_address)
      BY <2>1 DEF IInv, Tree, InTree
    <2>3. PICK n \in 1 .. Len(es) :
            /\ es[n].id = id /\ es[n].data.type = "bridge"
            /\ es[n].data.child = heap[b].sdb_address
            /\ es[n].data.addr % AddrMod = heap[b].bus_address
      BY <2>2 DEF IsBridge
    <2>4. n \in ents
      BY <2>3 DEF Places
    <2>5. es[n].data = RecordAt(t + id) /\ id \in Listed(t)
      BY <1>4, <2>4
    <2>. QED
      BY <1>5, <2>1, <2>3, <2>5 DEF b
  <1>7. ASSUME id \in Bridges(t) PROVE hits # {}
    <2>1. PICK n \in ents : TRUE
      BY <1>4, <1>5, <1>7
    <2>2. n \in 1 .. Len(es) /\ es[n].id = id /\ es[n].data.type = "bridge"
      BY <1>4, <1>5, <1>7, <2>1 DEF Places
    <2>3. PICK m \in 1 .. Len(roms) : heap[roms[m]].entry_id = id
      BY <1>2, <2>2 DEF Hung
    <2>. QED
      BY <2>3
  <1>8. hits \subseteq Nat \ {0}
    BY <1>2
  <1>. HIDE DEF hits, c, roms, t, ents
  <1>9. /\ hits = {} => k = NULL
        /\ hits # {} => k \in hits /\ k # NULL
    BY <1>8, FirstHit
  <1>10. ASSUME id \in Bridges(t)
         PROVE  /\ c \in 1 .. Len(heap) /\ c # NULL
                /\ heap[c].sdb_address = RecordAt(t + id).child
                /\ heap[c].bus_address = RecordAt(t + id).addr % AddrMod
    <2>1. k \in hits /\ c = roms[k]
      BY <1>3, <1>7, <1>9, <1>10
    <2>2. c \in 1 .. Len(heap)
      BY <1>6, <2>1
    <2>. QED
      BY <1>6, <2>1, <2>2 DEF NULL
  <1>11. ASSUME id \notin Bridges(t) PROVE c = NULL
    BY <1>3, <1>6, <1>9, <1>11
  <1>. QED
    BY <1>10, <1>11 DEF c, t

(* The functions that the lookups and the reference count along a path     *)
(* with are the ones their recursive definitions describe.                 *)
LEMMA LevelDef ==
  ASSUME NEW rom, NEW path, Len(path) \in Nat
  PROVE  \E f : /\ f = [k \in 0 .. Len(path) |->
                          IF k = 0 THEN rom
                          ELSE IF f[k - 1] = NULL THEN NULL
                          ELSE get_sdb_rom_by_id(f[k - 1], path[k])]
                /\ get_sdb_rom_by_ids(rom, path) = IF path = <<>> THEN rom ELSE f[Len(path) - 1]
  <1>. DEFINE Rec(f, n) == f = [k \in 0 .. n |->
                                  IF k = 0 THEN rom
                                  ELSE IF f[k - 1] = NULL THEN NULL
                                  ELSE get_sdb_rom_by_id(f[k - 1], path[k])]
              S == {n \in Nat : ~ \E f : Rec(f, n)}
  <1>1. S = {}
    <2>1. SUFFICES ASSUME S # {} PROVE FALSE
      OBVIOUS
    <2>2. PICK n \in S : n \in Nat /\ (n # 0 => n - 1 \in Nat /\ n - 1 \notin S)
      <3>1. S \subseteq Nat
        OBVIOUS
      <3>. HIDE DEF S
      <3>. QED
        BY <2>1, <3>1, FirstFailure
    <2>3. CASE n = 0
      <3>1. Rec([k \in 0 .. 0 |-> rom], 0)
        OBVIOUS
      <3>. QED
        BY <2>2, <2>3, <3>1
    <2>4. CASE n # 0
      <3>1. n - 1 \in Nat /\ n - 1 \notin S
        BY <2>2, <2>4
      <3>2. PICK g : Rec(g, n - 1)
        BY <3>1
      <3>. DEFINE last == IF g[n - 1] = NULL THEN NULL
                          ELSE get_sdb_rom_by_id(g[n - 1], path[n])
      <3>3. Rec([k \in 0 .. n |-> IF k = n THEN last ELSE g[k]], n)
        BY <2>4, <3>1, <3>2
      <3>. QED
        BY <2>2, <3>3
    <2>. QED
      BY <2>3, <2>4
  <1>2. \E f : Rec(f, Len(path))
    BY <1>1
  <1>. QED
    BY <1>2 DEF get_sdb_rom_by_ids

(* One bridge further along a path.                                        *)
Downward(up, j) ==
  LET b == RecordAt(up.slot + j)
  IN IF up.ok /\ j \in Bridges(up.slot)
       THEN [ok |-> TRUE, slot |-> b.child, bus |-> b.addr % AddrMod]
       ELSE [up EXCEPT !.ok = FALSE]

(* That of Below is the one its recursive definition describes, too.       *)
LEMMA BelowDef ==
  ASSUME NEW root, NEW path, Len(path) \in Nat
  PROVE  \E f : /\ f = [k \in 0 .. Len(path) |->
                          IF k = 0 THEN [ok |-> TRUE, slot |-> root.slot, bus |-> root.bus]
                          ELSE Downward(f[k - 1], path[k])]
                /\ Below(root, path) = f[Len(path)]
  <1>. DEFINE start == [ok |-> TRUE, slot |-> root.slot, bus |-> root.bus]
              Rec(f, n) == f = [k \in 0 .. n |->
                                  IF k = 0 THEN start ELSE Downward(f[k - 1], path[k])]
              S == {n \in Nat : ~ \E f : Rec(f, n)}
  <1>1. S = {}
    <2>. HIDE DEF start
    <2>1. SUFFICES ASSUME S # {} PROVE FALSE
      OBVIOUS
    <2>2. PICK n \in S : n \in Nat /\ (n # 0 => n - 1 \in Nat /\ n - 1 \notin S)
      <3>1. S \subseteq Nat
        OBVIOUS
      <3>. HIDE DEF S
      <3>. QED
        BY <2>1, <3>1, FirstFailure
    <2>3. CASE n = 0
      <3>1. Rec([k \in 0 .. 0 |-> start], 0)
        OBVIOUS
      <3>. QED
        BY <2>2, <2>3, <3>1
    <2>4. CASE n # 0
      <3>1. n - 1 \in Nat /\ n - 1 \notin S
        BY <2>2, <2>4
      <3>2. PICK g : Rec(g, n - 1)
        BY <3>1
      <3>. DEFINE last == Downward(g[n - 1], path[n])
                  h    == [k \in 0 .. n |-> IF k = n THEN last ELSE g[k]]
      <3>3. \A k \in 0 .. n : k # 0 => h[k] = Downward(h[k - 1], path[k])
        <4>1. \A k \in 1 .. n - 1 : h[k] = g[k] /\ h[k - 1] = g[k - 1]
          BY <2>4, <3>1
        <4>2. \A k \in 1 .. n - 1 : g[k] = Downward(g[k - 1], path[k])
          BY <3>1, <3>2
        <4>3. h[n] = last /\ h[n - 1] = g[n - 1]
          BY <2>4, <3>1
        <4>4. \A k \in 0 .. n : k # 0 => k \in 1 .. n - 1 \/ k = n
          BY <3>1
        <4>. HIDE DEF h
        <4>. QED
          BY <4>1, <4>2, <4>3, <4>4
      <3>4. h[0] = start
        BY <2>4, <3>1, <3>2
      <3>5. Rec(h, n)
        <4>1. h = [k \in 0 .. n |-> h[k]]
          OBVIOUS
        <4>. HIDE DEF h
        <4>. QED
          BY <3>3, <3>4, <4>1
      <3>. QED
        BY <2>2, <3>5
    <2>. QED
      BY <2>3, <2>4
  <1>2. \E f : Rec(f, Len(path))
    BY <1>1
  <1>. QED
    BY <1>2 DEF Below, Downward

Spot == [ok : BOOLEAN, slot : Nat, bus : 0 .. AddrMod - 1]

(* Where x is the rom for the table and window at, or none if at is none.  *)
Meets(x, at) ==
  /\ at \in Spot
  /\ at.ok => /\ x \in 1 .. Len(heap) /\ x # NULL
              /\ heap[x].sdb_address = at.slot /\ heap[x].bus_address = at.bus
  /\ ~ at.ok => x = NULL

(* One step down the tree is one step down the tables.                     *)
LEMMA MeetsBelow ==
  ASSUME IInv, Done, NEW x, NEW at, Meets(x, at), NEW j \in Nat, j < IdMod
  PROVE  Meets(IF x = NULL THEN NULL ELSE get_sdb_rom_by_id(x, j), Downward(at, j))
  <1>. DEFINE y == get_sdb_rom_by_id(x, j)
              b == RecordAt(at.slot + j)
  <1>1. at \in Spot /\ at.ok \in BOOLEAN /\ at.slot \in Nat /\ image \in Memories
    BY DEF Meets, Spot, IInv, Typed
  <1>2. CASE at.ok /\ j \in Bridges(at.slot)
    <2>1. x \in 1 .. Len(heap) /\ x # NULL /\ heap[x].sdb_address = at.slot
      BY <1>2 DEF Meets
    <2>2. /\ y \in 1 .. Len(heap) /\ y # NULL
          /\ heap[y].sdb_address = b.child /\ heap[y].bus_address = b.addr % AddrMod
      BY <1>2, <2>1, ChildFound
    <2>3. b \in Record
      <3>1. b = At(image, at.slot + j) /\ at.slot + j \in Nat
        BY <1>1 DEF RecordAt, At
      <3>. QED
        BY <1>1, <3>1, RecordsRead
    <2>4. b.child \in Nat /\ b.addr % AddrMod \in 0 .. AddrMod - 1
      BY <2>3, Constants DEF Record
    <2>5. Downward(at, j) = [ok |-> TRUE, slot |-> b.child, bus |-> b.addr % AddrMod]
      BY <1>2 DEF Downward
    <2>. DEFINE a == b.addr % AddrMod
    <2>. HIDE DEF b, y, a
    <2>6. Downward(at, j) = [ok |-> TRUE, slot |-> b.child, bus |-> a] /\ b.child \in Nat
          /\ a \in 0 .. AddrMod - 1 /\ heap[y].bus_address = a
      BY <2>2, <2>4, <2>5 DEF a
    <2>7. Meets(y, Downward(at, j))
      BY <2>2, <2>6 DEF Meets, Spot
    <2>. QED
      BY <2>1, <2>7 DEF y
  <1>3. CASE ~ (at.ok /\ j \in Bridges(at.slot))
    <2>1. Downward(at, j) = [at EXCEPT !.ok = FALSE]
      BY <1>3 DEF Downward
    <2>2. Downward(at, j) \in Spot /\ ~ Downward(at, j).ok
      BY <1>1, <2>1 DEF Spot
    <2>3. (IF x = NULL THEN NULL ELSE y) = NULL
      <3>1. CASE ~ at.ok
        BY <3>1 DEF Meets
      <3>2. CASE at.ok
        <4>1. x \in 1 .. Len(heap) /\ heap[x].sdb_address = at.slot /\ j \notin Bridges(at.slot)
          BY <1>3, <3>2 DEF Meets
        <4>. QED
          BY <4>1, ChildFound
      <3>. QED
        BY <3>1, <3>2
    <2>. QED
      BY <2>2, <2>3 DEF Meets
  <1>. QED
    BY <1>2, <1>3

(* A path of entry numbers leads to the rom of the table that it leads to. *)
LEMMA PathMeets ==
  ASSUME IInv, Done, NEW path \in Seq(Nat), path # <<>>, Narrow(path)
  PROVE  Meets(get_sdb_rom_by_ids(1, path), Below(Root, SubSeq(path, 1, Len(path) - 1)))
  <1>. DEFINE L   == Len(path)
              pre == SubSeq(path, 1, L - 1)
  <1>1. /\ L \in Nat \ {0} /\ Len(pre) = L - 1 /\ Len(pre) \in Nat
        /\ \A k \in 1 .. L - 1 : pre[k] = path[k] /\ path[k] \in Nat /\ path[k] < IdMod
    <2>1. L \in Nat \ {0} /\ \A k \in 1 .. L : path[k] \in Nat /\ path[k] < IdMod
      BY DEF Narrow
    <2>2. Len(pre) = L - 1 /\ \A k \in 1 .. L - 1 : pre[k] = path[k]
      <3>. HIDE DEF L
      <3>1. \A k \in 1 .. L - 1 : path[k] \in Nat
        BY <2>1
      <3>2. /\ Len(pre) = IF 1 <= L - 1 THEN (L - 1) - 1 + 1 ELSE 0
            /\ \A k \in 1 .. (L - 1) - 1 + 1 : pre[k] = path[1 + k - 1]
        BY <2>1, <3>1, SubSeqProperties
      <3>3. \A k \in 1 .. L - 1 : k \in 1 .. (L - 1) - 1 + 1 /\ 1 + k - 1 = k
        BY <2>1
      <3>. HIDE DEF pre
      <3>. QED
        BY <2>1, <3>2, <3>3
    <2>. HIDE DEF pre, L
    <2>. QED
      BY <2>1, <2>2
  <1>2. PICK lv : /\ lv = [k \in 0 .. L |-> IF k = 0 THEN 1
                                            ELSE IF lv[k - 1] = NULL THEN NULL
                                            ELSE get_sdb_rom_by_id(lv[k - 1], path[k])]
                  /\ get_sdb_rom_by_ids(1, path) = IF path = <<>> THEN 1 ELSE lv[L - 1]
    BY <1>1, LevelDef
  <1>3. PICK at : /\ at = [k \in 0 .. Len(pre) |->
                             IF k = 0 THEN [ok |-> TRUE, slot |-> Root.slot, bus |-> Root.bus]
                             ELSE Downward(at[k - 1], pre[k])]
                  /\ Below(Root, pre) = at[Len(pre)]
    BY <1>1, BelowDef
  <1>. HIDE DEF pre, L
  <1>4. Meets(lv[0], at[0])
    <2>1. 1 \in 1 .. Len(heap) /\ heap[1] \in Rom
      BY DEF Done, IInv, Typed
    <2>2. heap[1].sdb_address \in Nat /\ heap[1].bus_address \in 0 .. AddrMod - 1
      BY <2>1, RomParts
    <2>3. /\ lv[0] = 1
          /\ at[0] = [ok |-> TRUE, slot |-> heap[1].sdb_address, bus |-> heap[1].bus_address]
      BY <1>1, <1>2, <1>3 DEF Root
    <2>. QED
      BY <2>1, <2>2, <2>3 DEF Meets, Spot, NULL
  <1>5. ASSUME NEW k \in 1 .. L - 1, Meets(lv[k - 1], at[k - 1]) PROVE Meets(lv[k], at[k])
    <2>1. lv[k] = IF lv[k - 1] = NULL THEN NULL ELSE get_sdb_rom_by_id(lv[k - 1], path[k])
      BY <1>1, <1>2
    <2>2. at[k] = Downward(at[k - 1], path[k])
      <3>1. k \in 0 .. Len(pre) /\ k # 0 /\ pre[k] = path[k]
        BY <1>1
      <3>2. at[k] = Downward(at[k - 1], pre[k])
        BY <1>3, <3>1
      <3>. QED
        BY <3>1, <3>2
    <2>3. Meets(IF lv[k - 1] = NULL THEN NULL ELSE get_sdb_rom_by_id(lv[k - 1], path[k]),
                Downward(at[k - 1], path[k]))
      BY <1>1, <1>5, MeetsBelow
    <2>. QED
      BY <2>1, <2>2, <2>3
  <1>. DEFINE S == {k \in 0 .. L - 1 : ~ Meets(lv[k], at[k])}
  <1>6. S = {}
    <2>1. SUFFICES ASSUME S # {} PROVE FALSE
      OBVIOUS
    <2>2. PICK n \in S : n \in Nat /\ (n # 0 => n - 1 \in Nat /\ n - 1 \notin S)
      <3>1. S \subseteq Nat
        BY <1>1
      <3>. HIDE DEF S
      <3>. QED
        BY <2>1, <3>1, FirstFailure
    <2>3. n # 0 /\ n \in 1 .. L - 1 /\ n - 1 \in 0 .. L - 1
      BY <1>1, <1>4, <2>2
    <2>4. Meets(lv[n - 1], at[n - 1])
      BY <2>2, <2>3
    <2>. QED
      BY <1>5, <2>2, <2>3, <2>4
  <1>7. L - 1 \in 0 .. L - 1
    BY <1>1
  <1>8. Meets(lv[L - 1], at[L - 1])
    BY <1>6, <1>7
  <1>. QED
    BY <1>1, <1>2, <1>3, <1>8 DEF L, pre

(* What a lookup finds is the record that the tables have at that place.   *)
LEMMA LookedUp ==
  ASSUME IInv, Done, NEW path \in Seq(Nat), path # <<>>, Narrow(path)
  PROVE  LET last  == path[Len(path)]
             table == Below(Root, SubSeq(path, 1, Len(path) - 1))
         IN  /\ table.ok /\ last \in Listed(table.slot) =>
                  \E e : /\ get_by_ids(1, path) = {e} /\ e.id = last
                         /\ e.data = RecordAt(table.slot + last)
                         /\ heap[e.parent].bus_address = table.bus
             /\ ~ (table.ok /\ last \in Listed(table.slot)) => get_by_ids(1, path) = {}
  <1>. DEFINE last  == path[Len(path)]
              table == Below(Root, SubSeq(path, 1, Len(path) - 1))
              r     == get_sdb_rom_by_ids(1, path)
              es    == heap[r].entries
              hits  == Places(es, last)
              k     == First(hits)
  <1>1. Len(path) \in 1 .. Len(path) /\ last \in Nat /\ last < IdMod
    <2>1. Len(path) \in Nat \ {0}
      OBVIOUS
    <2>. QED
      BY <2>1 DEF Narrow
  <1>2. last % IdMod = last
    <2>. HIDE DEF last
    <2>. QED
      BY <1>1, Constants
  <1>3. Meets(r, table)
    BY PathMeets
  <1>4. get_by_ids(1, path) = IF r = NULL \/ path = <<>> \/ k = NULL THEN {} ELSE {es[k]}
    <2>1. {n \in 1 .. Len(es) : es[n].id = last % IdMod} = hits
      BY <1>2 DEF Places
    <2>2. get_by_ids(1, path) =
            LET j == First({n \in 1 .. Len(es) : es[n].id = last % IdMod})
            IN IF r = NULL \/ path = <<>> \/ j = NULL THEN {} ELSE {es[j]}
      BY DEF get_by_ids
    <2>. QED
      BY <2>1, <2>2
  <1>5. CASE ~ table.ok
    BY <1>3, <1>4, <1>5 DEF Meets
  <1>6. CASE table.ok
    <2>1. /\ r \in 1 .. Len(heap) /\ r # NULL
          /\ heap[r].sdb_address = table.slot /\ heap[r].bus_address = table.bus
      BY <1>3, <1>6 DEF Meets
    <2>2. /\ hits = {} <=> last \notin Listed(table.slot)
          /\ \A n \in hits : es[n].data = RecordAt(table.slot + last) /\ es[n].parent = r
      <3>. HIDE DEF r, last, table
      <3>1. /\ hits = {} <=> last \notin Listed(heap[r].sdb_address)
            /\ \A n \in hits : /\ es[n].data = RecordAt(heap[r].sdb_address + last)
                               /\ es[n].parent = r
        BY <1>1, <2>1, EntryFound
      <3>. HIDE DEF es, hits
      <3>. QED
        BY <2>1, <3>1
    <2>3. hits \subseteq Nat \ {0} /\ \A n \in hits : es[n].id = last
      <3>. HIDE DEF r, last, es
      <3>. QED
        BY DEF Places
    <2>. HIDE DEF hits
    <2>4. /\ hits = {} => k = NULL
          /\ hits # {} => k \in hits /\ k # NULL
      BY <2>3, FirstHit
    <2>. HIDE DEF k, r, last, table, es
    <2>5. CASE hits = {}
      BY <1>4, <2>2, <2>4, <2>5 DEF last, table
    <2>6. CASE hits # {}
      <3>1. /\ get_by_ids(1, path) = {es[k]} /\ es[k].id = last
            /\ es[k].data = RecordAt(table.slot + last)
            /\ heap[es[k].parent].bus_address = table.bus /\ last \in Listed(table.slot)
        BY <1>4, <2>1, <2>2, <2>3, <2>4, <2>6
      <3>. QED
        BY <1>6, <3>1 DEF last, table
    <2>. QED
      BY <2>5, <2>6
  <1>. QED
    BY <1>5, <1>6

(* LookupExact and AddressInBridge, from the records that lookups find.    *)
LEMMA LookupsIfBuilt ==
  ASSUME IInv
  PROVE  LookupExact /\ AddressInBridge
  <1>. SUFFICES ASSUME Done, NEW path \in Paths, Narrow(path), path # <<>>
       PROVE  LET last  == path[Len(path)]
                  table == Below(Root, SubSeq(path, 1, Len(path) - 1))
                  found == get_by_ids(1, path)
                  got   == get_addr_by_ids(1, path)
              IN IF table.ok /\ last \in Listed(table.slot)
                   THEN /\ \E e \in found : e.id = last /\ e.data = RecordAt(table.slot + last)
                        /\ get_type_by_ids(1, path) = RecordAt(table.slot + last).type
                        /\ got = [ret |-> 0,
                                  addr |-> (RecordAt(table.slot + last).addr + table.bus) % AddrMod]
                   ELSE /\ found = {} /\ get_type_by_ids(1, path) = "empty" /\ got.ret = -1
    BY DEF LookupExact, AddressInBridge
  <1>. DEFINE last  == path[Len(path)]
              table == Below(Root, SubSeq(path, 1, Len(path) - 1))
              found == get_by_ids(1, path)
  <1>1. path \in Seq(Nat)
    BY Constants
  <1>2. /\ table.ok /\ last \in Listed(table.slot) =>
             \E e : /\ found = {e} /\ e.id = last /\ e.data = RecordAt(table.slot + last)
                    /\ heap[e.parent].bus_address = table.bus
        /\ ~ (table.ok /\ last \in Listed(table.slot)) => found = {}
    BY <1>1, LookedUp
  <1>3. CASE ~ (table.ok /\ last \in Listed(table.slot))
    <2>1. found = {}
      BY <1>2, <1>3
    <2>. QED
      BY <1>3, <2>1 DEF get_type_by_ids, get_addr_by_ids
  <1>4. CASE table.ok /\ last \in Listed(table.slot)
    <2>1. PICK e : /\ found = {e} /\ e.id = last /\ e.data = RecordAt(table.slot + last)
                   /\ heap[e.parent].bus_address = table.bus
      BY <1>2, <1>4
    <2>2. (CHOOSE x \in found : TRUE) = e /\ found # {}
      BY <2>1
    <2>3. get_type_by_ids(1, path) = e.data.type
      BY <2>2 DEF get_type_by_ids
    <2>4. get_addr_by_ids(1, path) =
            [ret |-> 0, addr |-> (e.data.addr + heap[e.parent].bus_address) % AddrMod]
      BY <2>2 DEF get_addr_by_ids
    <2>. HIDE DEF last, table, found
    <2>5. \E x \in found : x.id = last /\ x.data = RecordAt(table.slot + last)
      BY <2>1
    <2>. QED
      BY <1>4, <2>1, <2>3, <2>4, <2>5 DEF last, table, found
  <1>. QED
    BY <1>3, <1>4

(* Once discovered, a lookup by any sequence of entry numbers finds        *)
(* exactly the record that the card's tables have at that place, or        *)
(* nothing (97-147, 300-347).                                              *)
THEOREM AlwaysLookupExact == Spec => []LookupExact
  <1>1. IInv => LookupExact
    BY LookupsIfBuilt
  <1>. QED
    BY <1>1, Invariance, PTL

(* The address a lookup hands out is the record's in the window of the     *)
(* bridge right above it; there is none for a missing entry                *)
(* (180-225, 364-390).                                                     *)
THEOREM AlwaysAddressInBridge == Spec => []AddressInBridge
  <1>1. IInv => AddressInBridge
    BY LookupsIfBuilt
  <1>. QED
    BY <1>1, Invariance, PTL

---------------------------------------------------------------------------
(* Bridges that lead back. *)

(* The tables one bridge below those of Z.                                 *)
Onward(Z) == UNION {{RecordAt(u + k).child : k \in Bridges(u)} : u \in Z}

Layered(f, t, n) == f = [d \in 0 .. n |-> IF d = 0 THEN {t} ELSE Onward(f[d - 1])]

(* There are layers to any depth, and two of them agree where both go.     *)
LEMMA LayersExist ==
  ASSUME NEW t, NEW n \in Nat
  PROVE  \E f : Layered(f, t, n)
  <1>. DEFINE S == {m \in Nat : ~ \E f : Layered(f, t, m)}
  <1>1. SUFFICES ASSUME S # {} PROVE FALSE
    OBVIOUS
  <1>2. PICK m \in S : m \in Nat /\ (m # 0 => m - 1 \in Nat /\ m - 1 \notin S)
    <2>1. S \subseteq Nat
      OBVIOUS
    <2>. HIDE DEF S
    <2>. QED
      BY <1>1, <2>1, FirstFailure
  <1>3. CASE m = 0
    <2>1. Layered([d \in 0 .. 0 |-> {t}], t, 0)
      BY DEF Layered
    <2>. QED
      BY <1>2, <1>3, <2>1
  <1>4. CASE m # 0
    <2>1. m - 1 \in Nat /\ m - 1 \notin S
      BY <1>2, <1>4
    <2>2. PICK g : Layered(g, t, m - 1)
      BY <2>1
    <2>. DEFINE h == [d \in 0 .. m |-> IF d = m THEN Onward(g[m - 1]) ELSE g[d]]
    <2>3. \A d \in 0 .. m : d # 0 => h[d] = Onward(h[d - 1])
      <3>1. \A d \in 1 .. m - 1 : h[d] = g[d] /\ h[d - 1] = g[d - 1]
        BY <1>4, <2>1
      <3>2. \A d \in 1 .. m - 1 : g[d] = Onward(g[d - 1])
        <4>1. g = [d \in 0 .. m - 1 |-> IF d = 0 THEN {t} ELSE Onward(g[d - 1])]
          BY <2>2 DEF Layered
        <4>2. \A d \in 1 .. m - 1 : d \in 0 .. m - 1 /\ d # 0
          BY <2>1
        <4>. QED
          BY <4>1, <4>2
      <3>3. h[m] = Onward(g[m - 1]) /\ h[m - 1] = g[m - 1]
        BY <1>4, <2>1
      <3>4. \A d \in 0 .. m : d # 0 => d \in 1 .. m - 1 \/ d = m
        BY <2>1
      <3>. HIDE DEF h
      <3>. QED
        BY <3>1, <3>2, <3>3, <3>4
    <2>4. h[0] = {t}
      BY <1>4, <2>1, <2>2 DEF Layered
    <2>5. Layered(h, t, m)
      <3>1. h = [d \in 0 .. m |-> h[d]]
        OBVIOUS
      <3>. HIDE DEF h
      <3>. QED
        BY <2>3, <2>4, <3>1 DEF Layered
    <2>. QED
      BY <1>2, <2>5
  <1>. QED
    BY <1>3, <1>4

(* The layer at depth d does not depend on how deep one counts.            *)
LEMMA LayersAgree ==
  ASSUME NEW t, NEW n \in Nat, NEW f, NEW g, Layered(f, t, n), Layered(g, t, n + 1)
  PROVE  f[n] = g[n]
  <1>. DEFINE S == {d \in 0 .. n : f[d] # g[d]}
  <1>1. SUFFICES ASSUME S # {} PROVE FALSE
    OBVIOUS
  <1>2. PICK m \in S : m \in Nat /\ (m # 0 => m - 1 \in Nat /\ m - 1 \notin S)
    <2>1. S \subseteq Nat
      OBVIOUS
    <2>. HIDE DEF S
    <2>. QED
      BY <1>1, <2>1, FirstFailure
  <1>3. m \in 0 .. n /\ m \in 0 .. n + 1 /\ f[m] # g[m]
    BY <1>2
  <1>4. m # 0
    <2>1. f[0] = {t} /\ g[0] = {t}
      BY DEF Layered
    <2>. QED
      BY <1>3, <2>1
  <1>5. f[m - 1] = g[m - 1]
    BY <1>2, <1>3, <1>4
  <1>6. f[m] = Onward(f[m - 1]) /\ g[m] = Onward(g[m - 1])
    BY <1>3, <1>4 DEF Layered
  <1>. QED
    BY <1>3, <1>5, <1>6

(* The tables at a depth are those one bridge below those a level higher.  *)
LEMMA TablesBelow ==
  ASSUME NEW t, NEW n \in Nat
  PROVE  TablesAt(t, 0) = {t} /\ TablesAt(t, n + 1) = Onward(TablesAt(t, n))
  <1>. DEFINE L(d) == CHOOSE f : Layered(f, t, d)
  <1>1. \A d \in Nat : Layered(L(d), t, d) /\ TablesAt(t, d) = L(d)[d]
    <2>1. ASSUME NEW d \in Nat PROVE Layered(L(d), t, d)
      BY LayersExist
    <2>2. ASSUME NEW d \in Nat PROVE TablesAt(t, d) = L(d)[d]
      BY DEF TablesAt, Layered, Onward
    <2>. QED
      BY <2>1, <2>2
  <1>. HIDE DEF L
  <1>2. TablesAt(t, 0) = {t}
    BY <1>1 DEF Layered
  <1>3. L(n)[n] = L(n + 1)[n]
    BY <1>1, LayersAgree
  <1>4. L(n + 1)[n + 1] = Onward(L(n + 1)[n])
    <2>1. Layered(L(n + 1), t, n + 1)
      BY <1>1
    <2>2. n + 1 \in 0 .. n + 1 /\ n + 1 # 0 /\ (n + 1) - 1 = n
      OBVIOUS
    <2>. QED
      BY <2>1, <2>2 DEF Layered
  <1>. QED
    BY <1>1, <1>2, <1>3, <1>4

(* A table with bridges lies in the card's memory, and so do the numbers   *)
(* and the tables of its bridges in the naturals.                          *)
LEMMA BridgeTables ==
  ASSUME image \in Memories, NEW u \in Nat, NEW k \in Bridges(u)
  PROVE  u < NumSlots /\ k \in Nat /\ RecordAt(u + k).child \in Nat
  <1>1. NumSlots \in Nat /\ \A s : RecordAt(s) = At(image, s)
    BY Constants DEF RecordAt, At
  <1>2. k \in Nat /\ k \in Listed(u) /\ RecordAt(u + k).type = "bridge"
    BY <1>1 DEF Bridges, Listed
  <1>3. HasHead(u) \/ k = 0
    BY <1>2 DEF Listed
  <1>4. HasHead(u) => At(image, u).type = "inter"
    BY <1>1 DEF HasHead
  <1>5. k = 0 => At(image, u).type = "bridge"
    BY <1>1, <1>2
  <1>6. u >= NumSlots => At(image, u).type = "other"
    BY RecordsRead
  <1>7. u < NumSlots
    BY <1>1, <1>3, <1>4, <1>5, <1>6
  <1>8. At(image, u + k) \in Record
    BY <1>2, RecordsRead
  <1>. QED
    BY <1>1, <1>2, <1>7, <1>8 DEF Record

(* The tables at a depth are below those one bridge below the first.       *)
LEMMA TablesBehind ==
  ASSUME NEW u, NEW n \in Nat
  PROVE  \A x \in TablesAt(u, n + 1) :
           \E k \in Bridges(u) : x \in TablesAt(RecordAt(u + k).child, n)
  <1>. DEFINE Behind(m) == \A x \in TablesAt(u, m + 1) :
                             \E k \in Bridges(u) : x \in TablesAt(RecordAt(u + k).child, m)
              S == {m \in Nat : ~ Behind(m)}
  <1>1. SUFFICES ASSUME S # {} PROVE FALSE
    OBVIOUS
  <1>2. PICK m \in S : m \in Nat /\ (m # 0 => m - 1 \in Nat /\ m - 1 \notin S)
    <2>1. S \subseteq Nat
      OBVIOUS
    <2>. HIDE DEF S
    <2>. QED
      BY <1>1, <2>1, FirstFailure
  <1>3. PICK x \in TablesAt(u, m + 1) :
          ~ \E k \in Bridges(u) : x \in TablesAt(RecordAt(u + k).child, m)
    BY <1>2
  <1>4. PICK y \in TablesAt(u, m) : \E j \in Bridges(y) : x = RecordAt(y + j).child
    BY <1>2, <1>3, TablesBelow DEF Onward
  <1>5. CASE m = 0
    <2>1. y = u
      BY <1>4, <1>5, TablesBelow
    <2>2. PICK j \in Bridges(u) : x = RecordAt(u + j).child
      BY <1>4, <2>1
    <2>3. x \in TablesAt(RecordAt(u + j).child, 0)
      BY <2>2, TablesBelow
    <2>. QED
      BY <1>3, <1>5, <2>3
  <1>6. CASE m # 0
    <2>1. m - 1 \in Nat /\ (m - 1) + 1 = m /\ Behind(m - 1)
      BY <1>2, <1>6
    <2>2. PICK k \in Bridges(u) : y \in TablesAt(RecordAt(u + k).child, m - 1)
      BY <1>4, <2>1
    <2>. DEFINE c == RecordAt(u + k).child
    <2>. HIDE DEF c
    <2>3. x \in Onward(TablesAt(c, m - 1))
      BY <1>4, <2>2 DEF Onward, c
    <2>4. TablesAt(c, m) = Onward(TablesAt(c, m - 1))
      <3>. DEFINE l == m - 1
      <3>1. l \in Nat /\ l + 1 = m
        BY <2>1
      <3>. HIDE DEF l
      <3>2. TablesAt(c, l + 1) = Onward(TablesAt(c, l))
        BY <3>1, TablesBelow
      <3>. QED
        BY <3>1, <3>2 DEF l
    <2>. QED
      BY <1>3, <2>2, <2>3, <2>4 DEF c
  <1>. QED
    BY <1>5, <1>6

(* The tables with others n bridges below them.                            *)
Deep(n) == {u \in Nat : TablesAt(u, n) # {}}

(* There are ever fewer of them, and none but those in the memory; each    *)
(* has a bridge to one that is only one bridge less deep.                  *)
LEMMA DeepTables ==
  ASSUME image \in Memories, NEW n \in Nat
  PROVE  /\ Deep(n + 1) \subseteq Deep(n) /\ Deep(n + 1) \subseteq 0 .. NumSlots - 1
         /\ \A u \in Deep(n + 1) : \E k \in Bridges(u) : RecordAt(u + k).child \in Deep(n)
  <1>1. ASSUME NEW u \in Deep(n + 1)
        PROVE  /\ u \in Deep(n) /\ u \in 0 .. NumSlots - 1
               /\ \E k \in Bridges(u) : RecordAt(u + k).child \in Deep(n)
    <2>1. u \in Nat /\ TablesAt(u, n + 1) # {}
      BY DEF Deep
    <2>2. TablesAt(u, n + 1) = Onward(TablesAt(u, n))
      BY TablesBelow
    <2>3. TablesAt(u, n) # {}
      BY <2>1, <2>2 DEF Onward
    <2>4. PICK x \in TablesAt(u, n + 1) : TRUE
      BY <2>1
    <2>5. PICK k \in Bridges(u) : x \in TablesAt(RecordAt(u + k).child, n)
      BY <2>4, TablesBehind
    <2>6. u < NumSlots /\ RecordAt(u + k).child \in Nat /\ NumSlots \in Nat
      BY <2>1, BridgeTables, Constants
    <2>. QED
      BY <2>1, <2>3, <2>5, <2>6 DEF Deep
  <1>. QED
    BY <1>1

(* Bridges that lead further than there are slots lead around: there is a  *)
(* set of tables each of which has a bridge to one of them.                *)
LEMMA LeadingBack ==
  ASSUME image \in Memories, NEW t \in Nat, Cyclic(t)
  PROVE  \E W \in SUBSET Nat : /\ t \in W
                               /\ \A u \in W : \E k \in Bridges(u) : RecordAt(u + k).child \in W
  <1>1. NumSlots \in Nat \ {0}
    BY Constants
  <1>2. ASSUME NEW n \in Nat
        PROVE  /\ IsFiniteSet(Deep(n + 1)) /\ Cardinality(Deep(n + 1)) \in Nat
               /\ Cardinality(Deep(n + 1)) <= NumSlots
    <2>1. IsFiniteSet(0 .. NumSlots - 1) /\ Cardinality(0 .. NumSlots - 1) = NumSlots
      BY <1>1, FS_Interval
    <2>2. Deep(n + 1) \in SUBSET (0 .. NumSlots - 1)
      BY DeepTables
    <2>3. IsFiniteSet(Deep(n + 1)) /\ Cardinality(Deep(n + 1)) <= NumSlots
      BY <2>1, <2>2, FS_Subset
    <2>. QED
      BY <2>3, FS_CardinalityType
  <1>3. PICK n \in 1 .. NumSlots : Deep(n) = Deep(n + 1)
    <2>1. SUFFICES ASSUME \A n \in 1 .. NumSlots : Deep(n) # Deep(n + 1) PROVE FALSE
      OBVIOUS
    <2>. DEFINE S == {n \in 0 .. NumSlots : Cardinality(Deep(n + 1)) > NumSlots - n}
    <2>2. S = {}
      <3>1. SUFFICES ASSUME S # {} PROVE FALSE
        OBVIOUS
      <3>2. PICK n \in S : n \in Nat /\ (n # 0 => n - 1 \in Nat /\ n - 1 \notin S)
        <4>1. S \subseteq Nat
          OBVIOUS
        <4>. HIDE DEF S
        <4>. QED
          BY <3>1, <4>1, FirstFailure
      <3>3. n \in 0 .. NumSlots /\ Cardinality(Deep(n + 1)) > NumSlots - n
        BY <3>2
      <3>4. n # 0
        BY <1>1, <1>2, <3>3
      <3>5. Cardinality(Deep(n)) <= NumSlots - (n - 1) /\ n \in 1 .. NumSlots
        <4>1. n - 1 \in 0 .. NumSlots /\ (n - 1) + 1 = n
          BY <1>1, <3>2, <3>4
        <4>2. ~ (Cardinality(Deep((n - 1) + 1)) > NumSlots - (n - 1))
          BY <3>2, <3>4, <4>1
        <4>3. Cardinality(Deep((n - 1) + 1)) \in Nat
          BY <1>2, <3>2, <3>4
        <4>4. Cardinality(Deep(n)) \in Nat /\ ~ (Cardinality(Deep(n)) > NumSlots - (n - 1))
          BY <4>1, <4>2, <4>3
        <4>. QED
          BY <1>1, <3>2, <3>4, <4>1, <4>4
      <3>6. Deep(n + 1) \in SUBSET Deep(n) /\ Deep(n) # Deep(n + 1)
        BY <2>1, <3>5, DeepTables
      <3>7. IsFiniteSet(Deep(n)) /\ Cardinality(Deep(n)) \in Nat
        <4>. DEFINE l == n - 1
        <4>1. l \in Nat /\ l + 1 = n
          BY <3>5
        <4>. HIDE DEF l
        <4>2. IsFiniteSet(Deep(l + 1)) /\ Cardinality(Deep(l + 1)) \in Nat
          BY <1>2, <4>1
        <4>. QED
          BY <4>1, <4>2
      <3>8. /\ Cardinality(Deep(n + 1)) <= Cardinality(Deep(n))
            /\ Cardinality(Deep(n)) # Cardinality(Deep(n + 1))
        BY <3>6, <3>7, FS_Subset
      <3>9. Cardinality(Deep(n + 1)) \in Nat
        BY <1>2, <3>5
      <3>. QED
        BY <1>1, <3>3, <3>5, <3>7, <3>8, <3>9
    <2>3. ~ (Cardinality(Deep(NumSlots + 1)) > NumSlots - NumSlots)
      BY <1>1, <2>2
    <2>4. Cardinality(Deep(NumSlots + 1)) = 0
      BY <1>1, <1>2, <2>3
    <2>5. Deep(NumSlots + 1) = {}
      BY <1>1, <1>2, <2>4, FS_EmptySet
    <2>6. t \in Deep(NumSlots + 1)
      BY DEF Cyclic, Deep
    <2>. QED
      BY <2>5, <2>6
  <1>4. \A u \in Deep(n) : \E k \in Bridges(u) : RecordAt(u + k).child \in Deep(n)
    BY <1>3, DeepTables
  <1>5. t \in Deep(n)
    <2>. DEFINE S == {j \in 0 .. NumSlots + 1 : t \notin Deep(NumSlots + 1 - j)}
    <2>1. S = {}
      <3>1. SUFFICES ASSUME S # {} PROVE FALSE
        OBVIOUS
      <3>2. PICK j \in S : j \in Nat /\ (j # 0 => j - 1 \in Nat /\ j - 1 \notin S)
        <4>1. S \subseteq Nat
          BY <1>1
        <4>. HIDE DEF S
        <4>. QED
          BY <3>1, <4>1, FirstFailure
      <3>3. j \in 0 .. NumSlots + 1 /\ t \notin Deep(NumSlots + 1 - j)
        BY <3>2
      <3>4. j # 0
        BY <1>1, <3>3 DEF Cyclic, Deep
      <3>. DEFINE l == NumSlots + 1 - j
      <3>5. l \in Nat /\ l + 1 = NumSlots + 1 - (j - 1) /\ j - 1 \in 0 .. NumSlots + 1
        BY <1>1, <3>2, <3>3, <3>4
      <3>6. t \in Deep(l + 1)
        BY <3>2, <3>4, <3>5
      <3>7. t \notin Deep(l)
        BY <3>3
      <3>. HIDE DEF l
      <3>. QED
        BY <3>5, <3>6, <3>7, DeepTables
    <2>2. NumSlots + 1 - n \in 0 .. NumSlots + 1 /\ NumSlots + 1 - (NumSlots + 1 - n) = n
      BY <1>1
    <2>. QED
      BY <2>1, <2>2
  <1>6. Deep(n) \in SUBSET Nat
    BY DEF Deep
  <1>. QED
    BY <1>4, <1>5, <1>6

(* A finished rom has a rom below it for each bridge of its table.         *)
LEMMA ChildHung ==
  ASSUME IInv, Done, NEW x \in 1 .. Len(heap), NEW j \in Bridges(heap[x].sdb_address)
  PROVE  \E c \in 1 .. Len(heap) :
           /\ heap[c].sdb_address = RecordAt(heap[x].sdb_address + j).child
           /\ heap[c].level = heap[x].level + 1
  <1>. DEFINE t    == heap[x].sdb_address
              es   == heap[x].entries
              roms == heap[x].roms
              ents == Places(es, j)
  <1>1. /\ t \in Nat /\ image \in Memories /\ Hung(heap, x, Len(es))
        /\ \A m \in 1 .. Len(roms) : /\ roms[m] \in 1 .. Len(heap) /\ roms[m] # 1
                                     /\ heap[roms[m]].parent = x
    BY AllFinished, RomParts DEF IInv, Typed
  <1>2. j \in Nat
    BY <1>1, BridgeTables
  <1>3. j \in Listed(t) /\ RecordAt(t + j).type = "bridge"
    BY DEF Bridges
  <1>4. /\ ents = {} <=> j \notin Listed(t)
        /\ \A n \in ents : es[n].data = RecordAt(t + j)
    BY <1>2, EntryFound
  <1>5. PICK n \in ents : TRUE
    BY <1>3, <1>4
  <1>6. n \in 1 .. Len(es) /\ es[n].id = j /\ es[n].data.type = "bridge"
    BY <1>3, <1>4, <1>5 DEF Places
  <1>7. PICK m \in 1 .. Len(roms) : heap[roms[m]].entry_id = j
    BY <1>1, <1>6 DEF Hung
  <1>. DEFINE c == roms[m]
  <1>8. c \in 1 .. Len(heap) /\ c # 1 /\ heap[c].parent = x /\ heap[c].entry_id = j
    BY <1>1, <1>7
  <1>. HIDE DEF c
  <1>9. IsBridge(es, j, heap[c].sdb_address, heap[c].bus_address) /\ heap[c].level = heap[x].level + 1
    BY <1>8 DEF IInv, Tree, InTree
  <1>10. PICK k \in 1 .. Len(es) : es[k].id = j /\ es[k].data.child = heap[c].sdb_address
    BY <1>9 DEF IsBridge
  <1>11. k \in ents
    BY <1>10 DEF Places
  <1>12. es[k].data = RecordAt(t + j)
    BY <1>4, <1>11
  <1>. QED
    BY <1>8, <1>9, <1>10, <1>12

(* A discovery that has ended met no bridges that lead back: below a table *)
(* of a set that never leaves itself there would be roms of every level.   *)
LEMMA EndedNotCyclic ==
  ASSUME IInv, Done
  PROVE  ~ Cyclic(heap[1].sdb_address)
  <1>. SUFFICES ASSUME Cyclic(heap[1].sdb_address) PROVE FALSE
    OBVIOUS
  <1>1. heap \in Seq(Rom) /\ Len(heap) \in Nat \ {0} /\ image \in Memories /\ 1 \in 1 .. Len(heap)
    BY DEF Done, IInv, Typed
  <1>2. heap[1].sdb_address \in Nat
    BY <1>1, RomParts
  <1>3. PICK W \in SUBSET Nat :
          /\ heap[1].sdb_address \in W
          /\ \A u \in W : \E k \in Bridges(u) : RecordAt(u + k).child \in W
    BY <1>1, <1>2, LeadingBack
  <1>. DEFINE Reached(d) == \E r \in 1 .. Len(heap) : heap[r].level = d /\ heap[r].sdb_address \in W
              S == {d \in Nat : ~ Reached(d)}
  <1>4. S # {}
    <2>1. MaxFrames \in Nat
      BY Constants
    <2>2. ~ Reached(MaxFrames)
      BY <2>1 DEF IInv, Tree, InTree
    <2>. QED
      BY <2>1, <2>2
  <1>5. PICK n \in S : n \in Nat /\ (n # 0 => n - 1 \in Nat /\ n - 1 \notin S)
    <2>1. S \subseteq Nat
      OBVIOUS
    <2>. HIDE DEF S
    <2>. QED
      BY <1>4, <2>1, FirstFailure
  <1>6. n # 0
    <2>1. heap[1].level = 0
      BY <1>1 DEF IInv, Tree, InTree
    <2>. QED
      BY <1>1, <1>3, <1>5, <2>1
  <1>7. Reached(n - 1)
    BY <1>5, <1>6
  <1>8. PICK r \in 1 .. Len(heap) : heap[r].level = n - 1 /\ heap[r].sdb_address \in W
    BY <1>7
  <1>9. PICK k \in Bridges(heap[r].sdb_address) : RecordAt(heap[r].sdb_address + k).child \in W
    BY <1>3, <1>8
  <1>10. PICK c \in 1 .. Len(heap) :
           /\ heap[c].sdb_address = RecordAt(heap[r].sdb_address + k).child
           /\ heap[c].level = heap[r].level + 1
    BY ChildHung
  <1>11. heap[c].level = n /\ heap[c].sdb_address \in W
    BY <1>5, <1>6, <1>8, <1>9, <1>10
  <1>12. Reached(n)
    BY <1>11
  <1>. QED
    BY <1>5, <1>12

(* The entries of a rom are entries of its table.                          *)
LEMMA EntriesListed ==
  ASSUME IInv, NEW x \in 1 .. Len(heap), NEW k \in 1 .. Len(heap[x].entries),
         heap[x].entries[k].data.type = "bridge"
  PROVE  /\ heap[x].entries[k].id \in Bridges(heap[x].sdb_address)
         /\ heap[x].entries[k].data = RecordAt(heap[x].sdb_address + heap[x].entries[k].id)
  <1>. DEFINE t  == heap[x].sdb_address
              e  == heap[x].entries[k]
              id == e.id
  <1>1. /\ heap \in Seq(Rom) /\ heap[x] \in Rom /\ image \in Memories /\ t \in Nat
        /\ stack \in Seq(Frame)
    BY RomParts DEF IInv, Typed
  <1>2. Total(image, t) \in Nat
    <2>1. At(image, t) \in Record
      BY <1>1, RecordsRead
    <2>2. At(image, t).records \in Nat
      BY <2>1 DEF Record
    <2>3. Count(image, t) \in Nat
      BY <2>2 DEF Count
    <2>. QED
      BY <2>3 DEF Total
  <1>3. PICK n \in Nat : n <= Total(image, t) /\ IsFilled(image, t, heap[x].entries, x, n)
    <2>1. CASE Active(stack, x)
      <3>1. PICK j \in 1 .. Len(stack) : stack[j].rom = x
        BY <2>1 DEF Active
      <3>2. stack[j] \in Frame /\ Reading(image, heap, stack[j])
        BY <1>1, <3>1 DEF IInv, Frames, Framed
      <3>3. /\ stack[j].i \in Nat /\ Place(image, t, stack[j])
            /\ IsFilled(image, t, heap[x].entries, x, stack[j].i)
        BY <3>1, <3>2 DEF Reading, Filled, Frame
      <3>4. stack[j].i <= Total(image, t)
        BY <1>2, <3>3 DEF Place
      <3>. QED
        BY <3>3, <3>4
    <2>2. CASE ~ Active(stack, x)
      <3>1. IsFilled(image, t, heap[x].entries, x, Total(image, t))
        BY <2>2 DEF IInv, Complete, Finished, Filled
      <3>. QED
        BY <1>2, <3>1
    <2>. QED
      BY <2>1, <2>2
  <1>4. id \in 0 .. n - 1 /\ Keeps(image, t, id) /\ e.data = At(image, t + id)
    BY <1>3 DEF IsFilled
  <1>. HIDE DEF t, e, id
  <1>5. id \in Nat /\ id < Total(image, t)
    BY <1>2, <1>3, <1>4
  <1>6. id \in Listed(t) /\ (id \in Bridges(t) <=> At(image, t + id).type = "bridge")
    BY <1>1, <1>4, <1>5, ListedKept
  <1>7. e.data.type = "bridge"
    BY DEF e
  <1>8. id \in Bridges(t)
    BY <1>4, <1>6, <1>7
  <1>9. e.data = RecordAt(t + id)
    BY <1>4 DEF RecordAt, At
  <1>. QED
    BY <1>8, <1>9 DEF e, id, t

(* A rom of level d is of one of the tables d bridges below the root's.    *)
LEMMA RomsInLayers ==
  ASSUME IInv, NEW x \in 1 .. Len(heap)
  PROVE  heap[x].sdb_address \in TablesAt(heap[1].sdb_address, heap[x].level)
  <1>. DEFINE root == heap[1].sdb_address
              S == {y \in 1 .. Len(heap) : heap[y].sdb_address \notin TablesAt(root, heap[y].level)}
  <1>1. SUFFICES ASSUME S # {} PROVE FALSE
    OBVIOUS
  <1>2. heap \in Seq(Rom) /\ Len(heap) \in Nat
    BY DEF IInv, Typed
  <1>3. PICK c \in S : \A y \in S : c <= y
    <2>1. S \subseteq Nat
      BY <1>2
    <2>. HIDE DEF S
    <2>. QED
      BY <1>1, <2>1, LeastElement
  <1>4. c \in 1 .. Len(heap) /\ InTree(heap, c)
        /\ heap[c].sdb_address \notin TablesAt(root, heap[c].level)
    BY <1>3 DEF IInv, Tree
  <1>5. c # 1
    <2>1. c = 1 => heap[c].level = 0
      BY <1>4 DEF InTree
    <2>. QED
      BY <1>4, <2>1, TablesBelow
  <1>. DEFINE p == heap[c].parent
              t == heap[p].sdb_address
  <1>6. /\ p \in 1 .. c - 1 /\ heap[c].level = heap[p].level + 1
        /\ IsBridge(heap[p].entries, heap[c].entry_id, heap[c].sdb_address, heap[c].bus_address)
    BY <1>4, <1>5 DEF InTree
  <1>7. p \in 1 .. Len(heap) /\ p < c
    BY <1>2, <1>4, <1>6
  <1>. HIDE DEF p
  <1>8. t \in TablesAt(root, heap[p].level) /\ heap[p].level \in Nat
    <2>1. p \notin S
      BY <1>2, <1>3, <1>4, <1>7
    <2>. QED
      BY <1>2, <1>7, <2>1, RomParts
  <1>9. PICK k \in 1 .. Len(heap[p].entries) :
          /\ heap[p].entries[k].data.type = "bridge"
          /\ heap[p].entries[k].data.child = heap[c].sdb_address
    BY <1>6 DEF IsBridge
  <1>10. \E j \in Bridges(t) : heap[c].sdb_address = RecordAt(t + j).child
    BY <1>7, <1>9, EntriesListed
  <1>. HIDE DEF t, root
  <1>11. heap[c].sdb_address \in Onward(TablesAt(root, heap[p].level))
    BY <1>8, <1>10 DEF Onward
  <1>12. heap[c].sdb_address \in TablesAt(root, heap[p].level + 1)
    BY <1>8, <1>11, TablesBelow
  <1>. QED
    BY <1>4, <1>6, <1>12

(* A discovery that runs out of stack met bridges that lead back.          *)
LEMMA OverflowIsCyclic ==
  ASSUME IInv, overflow
  PROVE  Cyclic(heap[1].sdb_address)
  <1>. DEFINE n == NumSlots + 1
              f == stack[n]
              x == f.rom
  <1>1. NumSlots \in Nat /\ n \in Nat /\ n # 0 /\ MaxFrames \in Nat /\ n <= MaxFrames
        /\ Len(stack) = MaxFrames
    BY Constants DEF IInv, Full
  <1>2. n \in 1 .. Len(stack)
    BY <1>1
  <1>. HIDE DEF n
  <1>3. x \in 1 .. Len(heap) /\ heap[x].level = n - 1 /\ Reading(image, heap, f)
    BY <1>2 DEF IInv, Frames, Framed
  <1>4. AtBridge(heap, f)
    <2>1. CASE n = Len(stack)
      BY <2>1 DEF IInv, Full
    <2>2. CASE n # Len(stack)
      <3>1. n + 1 \in 1 .. Len(stack) /\ n + 1 # 1 /\ (n + 1) - 1 = n
        BY <1>1, <1>2, <2>2
      <3>2. Framed(image, heap, stack, n + 1)
        BY <3>1 DEF IInv, Frames
      <3>3. Called(heap, stack[(n + 1) - 1], stack[n + 1])
        BY <3>1, <3>2 DEF Framed
      <3>. QED
        BY <3>1, <3>3 DEF Called
    <2>. QED
      BY <2>1, <2>2
  <1>5. /\ f.next \in 1 .. Len(heap[x].entries)
        /\ heap[x].entries[f.next].data.type = "bridge"
    <2>1. heap[x] \in Rom
      BY <1>3 DEF IInv, Typed
    <2>2. Len(heap[x].entries) \in Nat
      BY <2>1, RomParts
    <2>. QED
      BY <1>3, <1>4, <2>2 DEF AtBridge, Reading
  <1>. DEFINE t == heap[x].sdb_address
              root == heap[1].sdb_address
  <1>6. \E j \in Bridges(t) : TRUE
    BY <1>3, <1>5, EntriesListed
  <1>7. t \in TablesAt(root, NumSlots)
    <2>1. heap[x].level = NumSlots
      BY <1>1, <1>3 DEF n
    <2>. QED
      BY <1>3, <2>1, RomsInLayers
  <1>. HIDE DEF t, root
  <1>8. Onward(TablesAt(root, NumSlots)) # {}
    <2>1. PICK j \in Bridges(t) : TRUE
      BY <1>6
    <2>2. RecordAt(t + j).child \in {RecordAt(t + k).child : k \in Bridges(t)}
      OBVIOUS
    <2>3. RecordAt(t + j).child \in Onward(TablesAt(root, NumSlots))
      BY <1>7, <2>2 DEF Onward
    <2>. QED
      BY <2>3
  <1>9. TablesAt(root, NumSlots + 1) # {}
    BY <1>1, <1>8, TablesBelow
  <1>. QED
    BY <1>9 DEF Cyclic, root

(* The recursion runs out of stack only on a card whose bridges lead back  *)
(* to a table above them, and never comes to an end on one (349-387).      *)
THEOREM AlwaysOnlyCyclesOverflow == Spec => []OnlyCyclesOverflow
  <1>1. IInv => OnlyCyclesOverflow
    BY OverflowIsCyclic, EndedNotCyclic DEF OnlyCyclesOverflow
  <1>. QED
    BY <1>1, Invariance, PTL

---------------------------------------------------------------------------
(* The start of a board. *)

(* What the board's table has at each entry number, as a function.         *)
Cores == [e \in 0 .. 8 |-> Tabled(e)]

Past(m, k, cores) == IF m >= k THEN cores ELSE {}

(* An ADC board's handle f is for this entry; with the numbers shifted by  *)
(* s it gets the core found there.                                         *)
OwnEntry ==
  [f \in Fields |-> IF f = "csr" THEN 1 ELSE IF f = "i2c_si57x" THEN 3
                    ELSE IF f = "spi_ad9510" THEN 4 ELSE IF f = "spi_isla216p" THEN 5 ELSE 7]

Shifted(cores, f, s) == IF f = "csr" THEN cores[1] ELSE cores[OwnEntry[f] - s]

(* What is behind the handles h, and which cores of in are initialised,    *)
(* after m lookups whose numbers are shifted by s.                         *)
AdcAfter(cores, m, s, h, in) ==
  /\ m \in 0 .. 8
  /\ s = IF m >= 1 /\ cores[1] = {} THEN 1 ELSE 0
  /\ h = [f \in Fields |-> h[f]]
  /\ \A f \in Fields : h[f] = Past(m, OwnEntry[f], Shifted(cores, f, s))
  /\ in = Past(m, 1, cores[1] \X {"csr"}) \cup Past(m, 3, cores[3 - s] \X {"i2c"})
            \cup Past(m, 4, cores[4 - s] \X {"spi"}) \cup Past(m, 5, cores[5 - s] \X {"spi"})

DioAfter(cores, m, s, h, in) ==
  /\ m \in 0 .. 4 /\ s = 0
  /\ h = [f \in Fields |-> h[f]]
  /\ h["csr"] = Past(m, 1, cores[2])
  /\ h["i2c_si57x"] = {} /\ h["spi_ad9510"] = {} /\ h["spi_isla216p"] = {}
  /\ h["gpio"] = IF m >= 4 /\ cores[4] # {} THEN cores[4] ELSE Past(m, 3, cores[3])
  /\ in = Past(m, 1, cores[2] \X {"csr"})

(* The inductive invariant of a board's start.                             *)
BoardInv ==
  /\ IInv
  /\ made # 0 => Done
  /\ \/ board = "adc250m" /\ AdcAfter(Cores, made, fmc_id_shift, handle, inits)
     \/ board = "dio32ttla" /\ DioAfter(Cores, made, fmc_id_shift, handle, inits)

(* A discovery that has ended does nothing more.                           *)
LEMMA EndedStands ==
  ASSUME Done
  PROVE  ~ Next
  BY DEF Done, Next, CreateDirect, ReadEntry, Descend, PassEntry, Return, Walking

(* A board's lookup finds the core that its table has at that number.      *)
LEMMA CoreFound ==
  ASSUME IInv, Done, NEW e \in 0 .. 8
  PROVE  LET got == get_addr_by_ids(1, <<e>>)
         IN  /\ Tabled(e) = {} => got.ret < 0
             /\ Tabled(e) # {} => got.ret >= 0 /\ Tabled(e) = {got.addr}
  <1>. DEFINE path  == <<e>>
              table == Below(Root, SubSeq(path, 1, Len(path) - 1))
              found == get_by_ids(1, path)
  <1>1. /\ path \in Seq(Nat) /\ path # <<>> /\ Len(path) = 1 /\ path[Len(path)] = e
        /\ Narrow(path)
    <2>1. e < IdMod
      <3>1. \A x \in 1 .. 8 : x < IdMod
        BY BoardAssumption DEF Entries
      <3>2. IdMod \in Nat \ {0}
        BY Constants
      <3>. QED
        BY <3>1, <3>2
    <2>. QED
      BY <2>1 DEF Narrow
  <1>2. table = [ok |-> TRUE, slot |-> Root.slot, bus |-> Root.bus]
    <2>1. SubSeq(path, 1, Len(path) - 1) = <<>>
      BY <1>1, SubSeqEmpty
    <2>. DEFINE none  == SubSeq(path, 1, Len(path) - 1)
                start == [ok |-> TRUE, slot |-> Root.slot, bus |-> Root.bus]
    <2>2. Len(none) = 0 /\ Len(none) \in Nat
      BY <2>1
    <2>. HIDE DEF none
    <2>3. PICK f : /\ f = [k \in 0 .. Len(none) |->
                             IF k = 0 THEN [ok |-> TRUE, slot |-> Root.slot, bus |-> Root.bus]
                             ELSE Downward(f[k - 1], none[k])]
                   /\ Below(Root, none) = f[Len(none)]
      BY <2>2, BelowDef
    <2>4. f = [k \in 0 .. 0 |-> IF k = 0 THEN start ELSE Downward(f[k - 1], none[k])]
      BY <2>2, <2>3
    <2>. HIDE DEF start
    <2>5. f[0] = start
      BY <2>4
    <2>. QED
      BY <2>2, <2>3, <2>5 DEF none, start
  <1>. HIDE DEF path, table
  <1>3. /\ e \in Listed(Root.slot) =>
             \E x : /\ found = {x} /\ x.data = RecordAt(Root.slot + e)
                    /\ heap[x.parent].bus_address = Root.bus
        /\ e \notin Listed(Root.slot) => found = {}
    <2>1. table.ok /\ table.slot = Root.slot /\ table.bus = Root.bus
      BY <1>2
    <2>2. /\ table.ok /\ e \in Listed(table.slot) =>
               \E x : /\ found = {x} /\ x.id = e
                      /\ x.data = RecordAt(table.slot + e)
                      /\ heap[x.parent].bus_address = table.bus
          /\ ~ (table.ok /\ e \in Listed(table.slot)) => found = {}
      BY <1>1, LookedUp DEF table
    <2>. QED
      BY <2>1, <2>2
  <1>4. CASE e \notin Listed(Root.slot)
    <2>1. Tabled(e) = {}
      BY <1>4 DEF Tabled
    <2>2. get_addr_by_ids(1, path).ret = -1
      BY <1>3, <1>4 DEF get_addr_by_ids
    <2>. QED
      BY <2>1, <2>2 DEF path
  <1>5. CASE e \in Listed(Root.slot)
    <2>1. PICK x : /\ found = {x} /\ x.data = RecordAt(Root.slot + e)
                   /\ heap[x.parent].bus_address = Root.bus
      BY <1>3, <1>5
    <2>2. (CHOOSE y \in found : TRUE) = x /\ found # {}
      BY <2>1
    <2>3. get_addr_by_ids(1, path) =
            [ret |-> 0, addr |-> (x.data.addr + heap[x.parent].bus_address) % AddrMod]
      BY <2>2 DEF get_addr_by_ids
    <2>4. Tabled(e) = {(RecordAt(Root.slot + e).addr + Root.bus) % AddrMod}
      BY <1>5 DEF Tabled
    <2>. QED
      BY <2>1, <2>3, <2>4 DEF path
  <1>. QED
    BY <1>4, <1>5

(* What a lookup changes, told by the table of the board.                  *)
LEMMA LookUpFinds ==
  ASSUME IInv, LookUp, NEW l, l = Layout(board)[made + 1], NEW e \in 0 .. 8,
         l.entry - fmc_id_shift = e
  PROVE  /\ Done /\ made' = made + 1 /\ board' = board /\ UNCHANGED vars /\ Cores' = Cores
         /\ fmc_id_shift' = IF board = "adc250m" /\ l.entry = 1 /\ Cores[e] = {} THEN 1
                            ELSE fmc_id_shift
         /\ handle' = IF Cores[e] # {} /\ l.field # "none"
                        THEN [handle EXCEPT ![l.field] = Cores[e]] ELSE handle
         /\ l.kind = "none" => inits' = inits
         /\ l.kind # "none" => inits' = inits \cup (Cores[e] \X {l.kind})
  <1>. DEFINE got == get_addr_by_ids(1, <<e>>)
  <1>1. Done /\ made' = made + 1 /\ board' = board /\ UNCHANGED vars
    BY DEF LookUp
  <1>2. Cores' = Cores
    <2>1. \A k : Tabled(k)' = Tabled(k)
      BY <1>1 DEF vars, Tabled, Listed, HasHead, RecordAt, Root
    <2>. QED
      BY <2>1 DEF Cores
  <1>3. Cores[e] = Tabled(e)
    BY DEF Cores
  <1>4. /\ Cores[e] = {} => got.ret < 0 /\ ~ (got.ret >= 0)
        /\ Cores[e] # {} => got.ret >= 0 /\ ~ (got.ret < 0) /\ Cores[e] = {got.addr}
    <2>1. got.ret \in Int
      BY DEF get_addr_by_ids
    <2>2. /\ Tabled(e) = {} => got.ret < 0
          /\ Tabled(e) # {} => got.ret >= 0 /\ Tabled(e) = {got.addr}
      BY <1>1, CoreFound
    <2>. HIDE DEF got
    <2>. QED
      BY <1>3, <2>1, <2>2
  <1>5. /\ fmc_id_shift' = IF board = "adc250m" /\ l.entry = 1 /\ got.ret < 0 THEN 1
                           ELSE fmc_id_shift
        /\ handle' = IF got.ret >= 0 /\ l.field # "none"
                       THEN [handle EXCEPT ![l.field] = {got.addr}] ELSE handle
        /\ inits' = IF got.ret >= 0 /\ l.kind # "none"
                      THEN inits \cup {<<got.addr, l.kind>>} ELSE inits
    BY DEF LookUp, ShiftAfter, C_CSR
  <1>. HIDE DEF got
  <1>6. l.kind # "none" => inits' = inits \cup (Cores[e] \X {l.kind})
    <2>1. Cores[e] # {} => Cores[e] \X {l.kind} = {<<got.addr, l.kind>>}
      BY <1>4
    <2>2. Cores[e] = {} => Cores[e] \X {l.kind} = {}
      OBVIOUS
    <2>. QED
      BY <1>4, <1>5, <2>1, <2>2
  <1>7. l.kind = "none" => inits' = inits
    BY <1>5
  <1>8. fmc_id_shift' = IF board = "adc250m" /\ l.entry = 1 /\ Cores[e] = {} THEN 1
                        ELSE fmc_id_shift
    BY <1>4, <1>5
  <1>9. handle' = IF Cores[e] # {} /\ l.field # "none"
                    THEN [handle EXCEPT ![l.field] = Cores[e]] ELSE handle
    BY <1>4, <1>5
  <1>. QED
    BY <1>1, <1>2, <1>6, <1>7, <1>8, <1>9

(* The lookups of the boards.                                              *)
LEMMA Layouts ==
  /\ Len(Adc250m) = 8 /\ Len(Dio32ttla) = 4
  /\ Adc250m[1] = Lookup(1, "csr", "csr") /\ Adc250m[2] = Lookup(2, "none", "none")
  /\ Adc250m[3] = Lookup(3, "i2c_si57x", "i2c") /\ Adc250m[4] = Lookup(4, "spi_ad9510", "spi")
  /\ Adc250m[5] = Lookup(5, "spi_isla216p", "spi") /\ Adc250m[6] = Lookup(6, "none", "none")
  /\ Adc250m[7] = Lookup(7, "gpio", "none") /\ Adc250m[8] = Lookup(8, "none", "none")
  /\ Dio32ttla[1] = Lookup(2, "csr", "csr") /\ Dio32ttla[2] = Lookup(1, "none", "none")
  /\ Dio32ttla[3] = Lookup(3, "gpio", "none") /\ Dio32ttla[4] = Lookup(4, "gpio", "none")
  BY DEF Adc250m, Dio32ttla, C_CSR

(* A handle is put on a core, if there is one, where there was none.       *)
LEMMA HandlePut ==
  ASSUME NEW h, h = [f \in Fields |-> h[f]], NEW g \in Fields, NEW c, h[g] = {},
         NEW u, u = IF c # {} THEN [h EXCEPT ![g] = c] ELSE h
  PROVE  /\ u = [f \in Fields |-> u[f]] /\ u[g] = c
         /\ \A f \in Fields : f # g => u[f] = h[f]
  <1>1. CASE c = {}
    BY <1>1
  <1>2. CASE c # {}
    BY <1>2
  <1>. QED
    BY <1>1, <1>2

(* The lookups of an ADC board, one by one.                                *)
LEMMA AdcLooksUp ==
  ASSUME IInv, LookUp, board = "adc250m",
         AdcAfter(Cores, made, fmc_id_shift, handle, inits)
  PROVE  AdcAfter(Cores', made', fmc_id_shift', handle', inits')
  <1>. DEFINE m == made
              s == fmc_id_shift
              C == Cores
              l == Layout(board)[m + 1]
              e == l.entry - s
  <1>1. m \in 0 .. 7 /\ s \in {0, 1} /\ (m = 0 => s = 0)
        /\ l = Adc250m[m + 1]
    <2>1. Layout(board) = Adc250m
      BY DEF Layout
    <2>2. m \in 0 .. 8 /\ s = IF m >= 1 /\ C[1] = {} THEN 1 ELSE 0
      BY DEF AdcAfter
    <2>3. m < 8
      BY <2>1, Layouts DEF LookUp
    <2>. HIDE DEF m, s, C
    <2>4. m \in 0 .. 7 /\ s \in {0, 1} /\ (m = 0 => s = 0)
      BY <2>2, <2>3
    <2>. QED
      BY <2>1, <2>4
  <1>2. \/ m = 0 /\ l = Lookup(1, "csr", "csr")
        \/ m = 1 /\ l = Lookup(2, "none", "none")
        \/ m = 2 /\ l = Lookup(3, "i2c_si57x", "i2c")
        \/ m = 3 /\ l = Lookup(4, "spi_ad9510", "spi")
        \/ m = 4 /\ l = Lookup(5, "spi_isla216p", "spi")
        \/ m = 5 /\ l = Lookup(6, "none", "none")
        \/ m = 6 /\ l = Lookup(7, "gpio", "none")
        \/ m = 7 /\ l = Lookup(8, "none", "none")
    BY <1>1, Layouts
  <1>. HIDE DEF l
  <1>3. l.entry = m + 1
    BY <1>2 DEF Lookup
  <1>4. e \in 0 .. 8 /\ l.entry - s = e /\ (m > 0 => e = m + 1 - s) /\ (m = 0 => e = 1)
    BY <1>1, <1>3
  <1>. HIDE DEF e
  <1>5. /\ m' = m + 1 /\ C' = C
        /\ s' = IF l.entry = 1 /\ C[e] = {} THEN 1 ELSE s
        /\ handle' = IF C[e] # {} /\ l.field # "none"
                       THEN [handle EXCEPT ![l.field] = C[e]] ELSE handle
        /\ l.kind = "none" => inits' = inits
        /\ l.kind # "none" => inits' = inits \cup (C[e] \X {l.kind})
    BY <1>4, LookUpFinds DEF l
  <1>. DEFINE s1 == IF m + 1 >= 1 /\ C[1] = {} THEN 1 ELSE 0
  <1>6. s' = s1 /\ (m > 0 => s1 = s)
    BY <1>1, <1>3, <1>4, <1>5 DEF AdcAfter
  <1>7. /\ handle = [f \in Fields |-> handle[f]]
        /\ \A f \in Fields : handle[f] = Past(m, OwnEntry[f], Shifted(C, f, s))
        /\ inits = Past(m, 1, C[1] \X {"csr"}) \cup Past(m, 3, C[3 - s] \X {"i2c"})
                     \cup Past(m, 4, C[4 - s] \X {"spi"}) \cup Past(m, 5, C[5 - s] \X {"spi"})
    BY DEF AdcAfter
  <1>8. /\ \A f \in Fields : OwnEntry[f] \in 1 .. 7
        /\ l.field # "none" => /\ l.field \in Fields /\ OwnEntry[l.field] = m + 1
                               /\ (l.field = "csr" <=> m = 0)
        /\ \A f \in Fields : f # l.field => OwnEntry[f] # m + 1
    BY <1>2 DEF Lookup, Fields, OwnEntry
  <1>. HIDE DEF m, s, C, s1
  <1>9. \A f \in Fields : OwnEntry[f] <= m => Shifted(C, f, s1) = Shifted(C, f, s)
    BY <1>1, <1>6, <1>8
  <1>10. l.field # "none" => C[e] = Shifted(C, l.field, s1)
    BY <1>1, <1>4, <1>6, <1>8 DEF Shifted
  <1>11. /\ handle' = [f \in Fields |-> handle'[f]]
         /\ l.field # "none" => handle'[l.field] = C[e]
         /\ \A f \in Fields : f # l.field => handle'[f] = handle[f]
    <2>1. CASE l.field = "none"
      BY <1>5, <1>7, <2>1
    <2>2. CASE l.field # "none"
      <3>1. l.field \in Fields /\ handle[l.field] = {}
        BY <1>1, <1>7, <1>8, <2>2 DEF Past
      <3>2. handle' = IF C[e] # {} THEN [handle EXCEPT ![l.field] = C[e]] ELSE handle
        BY <1>5, <2>2
      <3>. QED
        BY <1>7, <2>2, <3>1, <3>2, HandlePut
    <2>. QED
      BY <2>1, <2>2
  <1>12. \A f \in Fields : handle'[f] = Past(m + 1, OwnEntry[f], Shifted(C, f, s1))
    <2>1. ASSUME NEW f \in Fields, f = l.field
          PROVE  handle'[f] = Past(m + 1, OwnEntry[f], Shifted(C, f, s1))
      <3>1. f # "none"
        BY DEF Fields
      <3>. QED
        BY <1>1, <1>8, <1>10, <1>11, <2>1, <3>1 DEF Past
    <2>2. ASSUME NEW f \in Fields, f # l.field
          PROVE  handle'[f] = Past(m + 1, OwnEntry[f], Shifted(C, f, s1))
      BY <1>1, <1>7, <1>8, <1>9, <1>11, <2>2 DEF Past
    <2>. QED
      BY <2>1, <2>2
  <1>13. inits' = Past(m + 1, 1, C[1] \X {"csr"}) \cup Past(m + 1, 3, C[3 - s1] \X {"i2c"})
                    \cup Past(m + 1, 4, C[4 - s1] \X {"spi"})
                    \cup Past(m + 1, 5, C[5 - s1] \X {"spi"})
    <2>1. CASE m = 0
      BY <1>2, <1>4, <1>5, <1>7, <2>1 DEF Lookup, Past
    <2>2. CASE m \in {1, 5, 6, 7}
      BY <1>2, <1>5, <1>6, <1>7, <2>2 DEF Lookup, Past
    <2>3. CASE m = 2
      BY <1>2, <1>4, <1>5, <1>6, <1>7, <2>3 DEF Lookup, Past
    <2>4. CASE m = 3
      BY <1>2, <1>4, <1>5, <1>6, <1>7, <2>4 DEF Lookup, Past
    <2>5. CASE m = 4
      BY <1>2, <1>4, <1>5, <1>6, <1>7, <2>5 DEF Lookup, Past
    <2>6. m = 0 \/ m \in {1, 5, 6, 7} \/ m = 2 \/ m = 3 \/ m = 4
      BY <1>1
    <2>. QED
      BY <2>1, <2>2, <2>3, <2>4, <2>5, <2>6
  <1>14. m + 1 \in 0 .. 8 /\ s1 = IF m + 1 >= 1 /\ C[1] = {} THEN 1 ELSE 0
    BY <1>1 DEF s1
  <1>15. AdcAfter(C, m + 1, s1, handle', inits')
    BY <1>11, <1>12, <1>13, <1>14 DEF AdcAfter
  <1>16. made' = m + 1 /\ Cores' = C /\ fmc_id_shift' = s1
    BY <1>5, <1>6 DEF m, s, C
  <1>. QED
    BY <1>15, <1>16

(* The lookups of a DIO board.                                             *)
LEMMA DioLooksUp ==
  ASSUME IInv, LookUp, board = "dio32ttla",
         DioAfter(Cores, made, fmc_id_shift, handle, inits)
  PROVE  DioAfter(Cores', made', fmc_id_shift', handle', inits')
  <1>. DEFINE m == made
              C == Cores
              l == Layout(board)[m + 1]
  <1>1. m \in 0 .. 3 /\ l = Dio32ttla[m + 1]
    <2>1. Layout(board) = Dio32ttla
      BY DEF Layout
    <2>2. m \in 0 .. 4 /\ m < 4
      BY <2>1, Layouts DEF LookUp, DioAfter
    <2>. HIDE DEF m
    <2>. QED
      BY <2>1, <2>2
  <1>2. \/ m = 0 /\ l = Lookup(2, "csr", "csr")
        \/ m = 1 /\ l = Lookup(1, "none", "none")
        \/ m = 2 /\ l = Lookup(3, "gpio", "none")
        \/ m = 3 /\ l = Lookup(4, "gpio", "none")
    BY <1>1, Layouts
  <1>. HIDE DEF l
  <1>3. l.entry \in 0 .. 8 /\ l.entry - fmc_id_shift = l.entry /\ fmc_id_shift = 0
    BY <1>2 DEF Lookup, DioAfter
  <1>. DEFINE e == l.entry
  <1>4. /\ made' = m + 1 /\ Cores' = C /\ fmc_id_shift' = 0
        /\ handle' = IF C[e] # {} /\ l.field # "none"
                       THEN [handle EXCEPT ![l.field] = C[e]] ELSE handle
        /\ l.kind = "none" => inits' = inits
        /\ l.kind # "none" => inits' = inits \cup (C[e] \X {l.kind})
    BY <1>3, LookUpFinds DEF l
  <1>5. /\ handle = [f \in Fields |-> handle[f]]
        /\ handle["csr"] = Past(m, 1, C[2])
        /\ handle["i2c_si57x"] = {} /\ handle["spi_ad9510"] = {} /\ handle["spi_isla216p"] = {}
        /\ handle["gpio"] = IF m >= 4 /\ C[4] # {} THEN C[4] ELSE Past(m, 3, C[3])
        /\ inits = Past(m, 1, C[2] \X {"csr"})
    BY DEF DioAfter
  <1>. HIDE DEF m, C, e
  <1>6. /\ handle' = [f \in Fields |-> handle'[f]]
        /\ handle'["csr"] = Past(m + 1, 1, C[2])
        /\ handle'["i2c_si57x"] = {} /\ handle'["spi_ad9510"] = {}
        /\ handle'["spi_isla216p"] = {}
        /\ handle'["gpio"] = IF m + 1 >= 4 /\ C[4] # {} THEN C[4] ELSE Past(m + 1, 3, C[3])
        /\ inits' = Past(m + 1, 1, C[2] \X {"csr"})
    <2>1. CASE m = 0
      <3>1. l.field = "csr" /\ l.kind = "csr" /\ e = 2
        BY <1>2, <2>1 DEF Lookup, e
      <3>2. handle' = IF C[2] # {} THEN [handle EXCEPT !["csr"] = C[2]] ELSE handle
        BY <1>4, <3>1
      <3>3. "csr" \in Fields /\ handle["csr"] = {}
        BY <1>5, <2>1 DEF Fields, Past
      <3>4. /\ handle' = [f \in Fields |-> handle'[f]] /\ handle'["csr"] = C[2]
            /\ \A f \in Fields : f # "csr" => handle'[f] = handle[f]
        BY <1>5, <3>2, <3>3, HandlePut
      <3>5. inits' = C[2] \X {"csr"}
        BY <1>4, <1>5, <2>1, <3>1 DEF Past
      <3>. QED
        BY <1>5, <2>1, <3>4, <3>5 DEF Past, Fields
    <2>2. CASE m = 1
      BY <1>2, <1>4, <1>5, <2>2 DEF Lookup, Past
    <2>3. CASE m = 2
      <3>1. l.field = "gpio" /\ l.kind = "none" /\ e = 3
        BY <1>2, <2>3 DEF Lookup, e
      <3>2. handle' = IF C[3] # {} THEN [handle EXCEPT !["gpio"] = C[3]] ELSE handle
        BY <1>4, <3>1
      <3>3. "gpio" \in Fields /\ handle["gpio"] = {}
        BY <1>5, <2>3 DEF Fields, Past
      <3>4. /\ handle' = [f \in Fields |-> handle'[f]] /\ handle'["gpio"] = C[3]
            /\ \A f \in Fields : f # "gpio" => handle'[f] = handle[f]
        BY <1>5, <3>2, <3>3, HandlePut
      <3>. QED
        BY <1>4, <1>5, <2>3, <3>1, <3>4 DEF Past, Fields
    <2>4. CASE m = 3
      <3>1. l.field = "gpio" /\ l.kind = "none" /\ e = 4
        BY <1>2, <2>4 DEF Lookup, e
      <3>2. handle' = IF C[4] # {} THEN [handle EXCEPT !["gpio"] = C[4]] ELSE handle
        BY <1>4, <3>1
      <3>3. "gpio" \in Fields /\ handle["gpio"] = C[3]
        BY <1>5, <2>4 DEF Fields, Past
      <3>4. /\ handle' = [f \in Fields |-> handle'[f]]
            /\ handle'["gpio"] = IF C[4] # {} THEN C[4] ELSE C[3]
            /\ \A f \in Fields : f # "gpio" => handle'[f] = handle[f]
        BY <1>5, <3>2, <3>3
      <3>. QED
        BY <1>4, <1>5, <2>4, <3>1, <3>4 DEF Past, Fields
    <2>5. m = 0 \/ m = 1 \/ m = 2 \/ m = 3
      BY <1>1
    <2>. QED
      BY <2>1, <2>2, <2>3, <2>4, <2>5
  <1>7. m + 1 \in 0 .. 4
    BY <1>1
  <1>8. DioAfter(C, m + 1, 0, handle', inits')
    BY <1>6, <1>7 DEF DioAfter
  <1>. QED
    BY <1>4, <1>8 DEF m, C

(* Before the first lookup no table matters.                               *)
LEMMA NoneMade ==
  ASSUME NEW c, NEW d, NEW s, NEW h, NEW in
  PROVE  /\ AdcAfter(c, 0, s, h, in) => AdcAfter(d, 0, s, h, in)
         /\ DioAfter(c, 0, s, h, in) => DioAfter(d, 0, s, h, in)
  <1>1. ASSUME AdcAfter(c, 0, s, h, in) PROVE AdcAfter(d, 0, s, h, in)
    <2>1. \A f \in Fields : OwnEntry[f] \in 1 .. 7
      BY DEF Fields, OwnEntry
    <2>2. \A f \in Fields : h[f] = {}
      BY <1>1, <2>1 DEF AdcAfter, Past
    <2>3. s = 0 /\ in = {} /\ h = [f \in Fields |-> h[f]]
      BY <1>1 DEF AdcAfter, Past
    <2>. QED
      BY <2>1, <2>2, <2>3 DEF AdcAfter, Past
  <1>2. ASSUME DioAfter(c, 0, s, h, in) PROVE DioAfter(d, 0, s, h, in)
    BY <1>2 DEF DioAfter, Past
  <1>. QED
    BY <1>1, <1>2

(* Every step of the discovery and of the lookups keeps the invariant.     *)
LEMMA BoardStepping ==
  ASSUME BoardInv, [BoardNext]_all_vars
  PROVE  BoardInv'
  <1>1. IInv'
    <2>1. [Next]_vars
      BY DEF BoardNext, Discovery, LookUp, all_vars
    <2>. QED
      BY <2>1, Stepping DEF BoardInv
  <1>2. CASE Discovery
    <2>1. ~ Done /\ UNCHANGED board_vars
      BY <1>2, EndedStands DEF Discovery
    <2>2. made = 0 /\ made' = 0 /\ board' = board /\ fmc_id_shift' = fmc_id_shift
          /\ handle' = handle /\ inits' = inits
      BY <2>1 DEF BoardInv, board_vars
    <2>3. \/ board = "adc250m" /\ AdcAfter(Cores, 0, fmc_id_shift, handle, inits)
          \/ board = "dio32ttla" /\ DioAfter(Cores, 0, fmc_id_shift, handle, inits)
      BY <2>2 DEF BoardInv
    <2>4. \/ board = "adc250m" /\ AdcAfter(Cores', 0, fmc_id_shift, handle, inits)
          \/ board = "dio32ttla" /\ DioAfter(Cores', 0, fmc_id_shift, handle, inits)
      BY <2>3, NoneMade
    <2>. QED
      BY <1>1, <2>2, <2>4 DEF BoardInv
  <1>3. CASE LookUp
    <2>1. Done' /\ board' = board
      BY <1>3 DEF LookUp, vars, Done
    <2>2. CASE board = "adc250m"
      <3>1. AdcAfter(Cores', made', fmc_id_shift', handle', inits')
        BY <1>3, <2>2, AdcLooksUp DEF BoardInv
      <3>. QED
        BY <1>1, <2>1, <2>2, <3>1 DEF BoardInv
    <2>3. CASE board # "adc250m"
      <3>1. board = "dio32ttla" /\ DioAfter(Cores, made, fmc_id_shift, handle, inits)
        BY <2>3 DEF BoardInv
      <3>2. DioAfter(Cores', made', fmc_id_shift', handle', inits')
        BY <1>3, <3>1, DioLooksUp DEF BoardInv
      <3>. QED
        BY <1>1, <2>1, <3>1, <3>2 DEF BoardInv
    <2>. QED
      BY <2>2, <2>3
  <1>4. CASE UNCHANGED all_vars
    <2>1. /\ UNCHANGED vars /\ made' = made /\ board' = board /\ fmc_id_shift' = fmc_id_shift
          /\ handle' = handle /\ inits' = inits
      BY <1>4 DEF all_vars, board_vars
    <2>2. Cores' = Cores
      <3>1. \A k : Tabled(k)' = Tabled(k)
        BY <2>1 DEF vars, Tabled, Listed, HasHead, RecordAt, Root
      <3>. QED
        BY <3>1 DEF Cores
    <2>3. Done' <=> Done
      BY <2>1 DEF vars, Done
    <2>. QED
      BY <1>1, <2>1, <2>2, <2>3 DEF BoardInv
  <1>. QED
    BY <1>2, <1>3, <1>4 DEF BoardNext

(* The program that starts a board keeps, with the discovery, the handles  *)
(* and initialisations in step with the lookups made                       *)
(* (fmc_adc250m.c:42-80, fmc_dio32ttla.c:31-48).                           *)
THEOREM BoardInvariance == BoardSpec => []BoardInv
  <1>1. BoardInit => BoardInv
    <2>. SUFFICES ASSUME BoardInit PROVE BoardInv
      OBVIOUS
    <2>1. IInv
      BY Starting DEF BoardInit
    <2>2. /\ made = 0 /\ fmc_id_shift = 0 /\ handle = [f \in Fields |-> {}] /\ inits = {}
          /\ board \in {"adc250m", "dio32ttla"}
      BY DEF BoardInit
    <2>3. \A f \in Fields : OwnEntry[f] \in 1 .. 7 /\ handle[f] = {}
      BY <2>2 DEF Fields, OwnEntry
    <2>4. AdcAfter(Cores, made, fmc_id_shift, handle, inits)
      BY <2>2, <2>3 DEF AdcAfter, Past
    <2>5. DioAfter(Cores, made, fmc_id_shift, handle, inits)
      BY <2>2, <2>3 DEF DioAfter, Past, Fields
    <2>. QED
      BY <2>1, <2>2, <2>4, <2>5 DEF BoardInv
  <1>2. BoardInv /\ [BoardNext]_all_vars => BoardInv'
    BY BoardStepping
  <1>. QED
    BY <1>1, <1>2, PTL DEF BoardSpec

(* A started board discovers as SdbRom says, so what is proved of every    *)
(* discovery holds of it (fmc_adc250m.c:36-48).                            *)
THEOREM BoardDiscovers == BoardSpec => Spec
  <1>1. BoardInit => Init
    BY DEF BoardInit
  <1>2. [BoardNext]_all_vars => [Next]_vars
    BY DEF BoardNext, Discovery, LookUp, all_vars
  <1>. QED
    BY <1>1, <1>2, PTL DEF BoardSpec, Spec

(* OwnCores and GapMovesAll, after the last lookup.                        *)
LEMMA StartedAsTabled ==
  ASSUME BoardInv
  PROVE  OwnCores /\ GapMovesAll
  <1>. SUFFICES ASSUME Started PROVE OwnCores /\ GapMovesAll
    BY DEF OwnCores, GapMovesAll
  <1>1. \A e \in 0 .. 8 : Cores[e] = Tabled(e)
    BY DEF Cores
  <1>2. ASSUME NEW s, board = "adc250m", AdcAfter(Cores, 8, s, handle, inits)
        PROVE  /\ s = IF Tabled(1) = {} THEN 1 ELSE 0
               /\ handle = [csr |-> Cores[1], i2c_si57x |-> Cores[3 - s],
                            spi_ad9510 |-> Cores[4 - s], spi_isla216p |-> Cores[5 - s],
                            gpio |-> Cores[7 - s]]
               /\ inits = (Cores[1] \X {"csr"}) \cup (Cores[3 - s] \X {"i2c"})
                            \cup ((Cores[4 - s] \cup Cores[5 - s]) \X {"spi"})
    <2>. DEFINE r == [csr |-> Cores[1], i2c_si57x |-> Cores[3 - s],
                      spi_ad9510 |-> Cores[4 - s], spi_isla216p |-> Cores[5 - s],
                      gpio |-> Cores[7 - s]]
    <2>1. s = IF Tabled(1) = {} THEN 1 ELSE 0
      BY <1>1, <1>2 DEF AdcAfter
    <2>2. \A f \in Fields : OwnEntry[f] \in 1 .. 7 /\ handle[f] = Shifted(Cores, f, s)
      BY <1>2 DEF AdcAfter, Past, Fields, OwnEntry
    <2>3. \A f \in Fields : handle[f] = r[f]
      BY <2>2 DEF Shifted, Fields, OwnEntry
    <2>4. r = [f \in Fields |-> r[f]]
      BY DEF Fields
    <2>5. handle = [f \in Fields |-> handle[f]]
      BY <1>2 DEF AdcAfter
    <2>6. handle = r
      <3>. HIDE DEF r
      <3>. QED
        BY <2>3, <2>4, <2>5
    <2>7. inits = (Cores[1] \X {"csr"}) \cup (Cores[3 - s] \X {"i2c"})
                    \cup ((Cores[4 - s] \cup Cores[5 - s]) \X {"spi"})
      BY <1>2 DEF AdcAfter, Past
    <2>. QED
      BY <2>1, <2>6, <2>7
  <1>3. CASE board = "adc250m"
    <2>1. AdcAfter(Cores, 8, fmc_id_shift, handle, inits)
      BY <1>3, Layouts DEF BoardInv, Started, Layout
    <2>2. CASE Tabled(1) = {}
      <3>1. fmc_id_shift = 1
        BY <1>2, <1>3, <2>1, <2>2
      <3>2. /\ handle = [csr |-> Cores[1], i2c_si57x |-> Cores[2], spi_ad9510 |-> Cores[3],
                         spi_isla216p |-> Cores[4], gpio |-> Cores[6]]
            /\ inits = (Cores[1] \X {"csr"}) \cup (Cores[2] \X {"i2c"})
                         \cup ((Cores[3] \cup Cores[4]) \X {"spi"})
        BY <1>2, <1>3, <2>1, <3>1
      <3>3. Cores[1] = {} /\ Cores[2] = Tabled(2) /\ Cores[3] = Tabled(3)
            /\ Cores[4] = Tabled(4) /\ Cores[6] = Tabled(6)
        BY <1>1, <2>2
      <3>. QED
        BY <2>2, <3>2, <3>3 DEF OwnCores, GapMovesAll, C_CSR
    <2>3. CASE Tabled(1) # {}
      <3>1. fmc_id_shift = 0
        BY <1>2, <1>3, <2>1, <2>3
      <3>2. /\ handle = [csr |-> Cores[1], i2c_si57x |-> Cores[3], spi_ad9510 |-> Cores[4],
                         spi_isla216p |-> Cores[5], gpio |-> Cores[7]]
            /\ inits = (Cores[1] \X {"csr"}) \cup (Cores[3] \X {"i2c"})
                         \cup ((Cores[4] \cup Cores[5]) \X {"spi"})
        BY <1>2, <1>3, <2>1, <3>1
      <3>3. Cores[1] = Tabled(1) /\ Cores[3] = Tabled(3) /\ Cores[4] = Tabled(4)
            /\ Cores[5] = Tabled(5) /\ Cores[7] = Tabled(7)
        BY <1>1
      <3>. QED
        BY <1>3, <2>3, <3>2, <3>3 DEF OwnCores, GapMovesAll, C_CSR
    <2>. QED
      BY <2>2, <2>3
  <1>4. CASE board # "adc250m"
    <2>1. DioAfter(Cores, 4, fmc_id_shift, handle, inits)
      BY <1>4, Layouts DEF BoardInv, Started, Layout
    <2>. DEFINE r == [f \in Fields |->
                        IF f = "csr" THEN Tabled(2)
                        ELSE IF f = "gpio" THEN (IF Tabled(4) # {} THEN Tabled(4) ELSE Tabled(3))
                        ELSE {}]
    <2>2. handle = [f \in Fields |-> handle[f]] /\ inits = Tabled(2) \X {"csr"}
      BY <1>1, <2>1 DEF DioAfter, Past
    <2>3. \A f \in Fields : handle[f] = r[f]
      BY <1>1, <2>1 DEF DioAfter, Past, Fields
    <2>4. handle = r
      BY <2>2, <2>3
    <2>. QED
      BY <1>4, <2>2, <2>4 DEF OwnCores, GapMovesAll
  <1>. QED
    BY <1>3, <1>4

(* A board whose table has an entry 1 starts with each handle on the core  *)
(* of its own entry, and only those cores initialised, each as what it is; *)
(* but a DIO board's GPIO handle is its information port, if it has one    *)
(* (fmc_adc250m.c:42-80, fmc_dio32ttla.c:31-48).                           *)
THEOREM AlwaysOwnCores == BoardSpec => []OwnCores
  <1>1. BoardInv => OwnCores
    BY StartedAsTabled
  <1>. QED
    BY <1>1, BoardInvariance, PTL

(* An ADC board without a usable entry 1 starts with every handle on the   *)
(* core one entry before its own (fmc_adc250m.c:48-80).                    *)
THEOREM AlwaysGapMovesAll == BoardSpec => []GapMovesAll
  <1>1. BoardInv => GapMovesAll
    BY StartedAsTabled
  <1>. QED
    BY <1>1, BoardInvariance, PTL

=============================================================================
