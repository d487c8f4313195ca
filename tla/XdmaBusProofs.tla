-------------------------- MODULE XdmaBusProofs ---------------------------
(***************************************************************************)
(* Proofs about XdmaBus, for any number of programs, any size of the bus   *)
(* and of the window, any set of transfer lengths.                         *)
(***************************************************************************)
EXTENDS XdmaBus, TLAPS

(* Rounding down to a window gives the window the register lies in. *)
LEMMA PageOfIsWindow ==
  ASSUME NEW r \in Regs
  PROVE  /\ PageOf(r) \in Nat
         /\ PageOf(r) \in Pages
         /\ InWindow(r, PageOf(r))
  <1>1. r \in Nat /\ PageWords \in Nat /\ PageWords > 0
    BY BusAssumption, XdmaAssumption DEF Regs
  <1>2. r % PageWords \in 0 .. PageWords - 1 /\ r % PageWords <= r
    BY <1>1
  <1>. QED
    BY <1>1, <1>2 DEF PageOf, InWindow, Pages

(* A register lies in the window of one page only. *)
LEMMA WindowIsUnique ==
  ASSUME NEW r \in Regs, NEW pg \in Pages, InWindow(r, pg)
  PROVE  PageOf(r) = pg
  <1>1. PICK s \in Regs : pg = PageOf(s)
    BY DEF Pages
  <1>2. r \in Nat /\ s \in Nat /\ PageWords \in Nat /\ PageWords > 0
    BY BusAssumption, XdmaAssumption DEF Regs
  <1>. DEFINE m == s \div PageWords
              n == r \div PageWords
  <1>3. /\ m \in Int /\ s % PageWords \in 0 .. PageWords - 1
        /\ s = PageWords * m + (s % PageWords)
    BY <1>2
  <1>4. /\ n \in Int /\ r % PageWords \in 0 .. PageWords - 1
        /\ r = PageWords * n + (r % PageWords)
    BY <1>2
  <1>5. PageOf(s) = PageWords * m /\ PageOf(r) = PageWords * n
    BY <1>2, <1>3, <1>4 DEF PageOf
  <1>6. n = m
    <2>1. PageWords * m <= r /\ r < PageWords * m + PageWords
      BY <1>1, <1>5 DEF InWindow
    <2>2. PageWords * n <= r /\ r < PageWords * n + PageWords
      BY <1>2, <1>4
    <2>. HIDE DEF m, n
    <2>3. ~ (n < m)
      <3>1. SUFFICES ASSUME n + 1 <= m PROVE FALSE
        BY <1>3, <1>4
      <3>2. PageWords * (n + 1) <= PageWords * m
        BY <1>2, <1>3, <1>4, <3>1
      <3>. QED
        BY <1>2, <1>3, <1>4, <2>1, <2>2, <3>2
    <2>4. ~ (m < n)
      <3>1. SUFFICES ASSUME m + 1 <= n PROVE FALSE
        BY <1>3, <1>4
      <3>2. PageWords * (m + 1) <= PageWords * n
        BY <1>2, <1>3, <1>4, <3>1
      <3>. QED
        BY <1>2, <1>3, <1>4, <2>1, <2>2, <3>2
    <2>. QED
      BY <1>3, <1>4, <2>3, <2>4
  <1>. QED
    BY <1>1, <1>5, <1>6

(* The loop's counters stay in range: the word a transfer is about to move *)
(* lies in its buffer, and the next register is one of the bus.            *)
LEMMA AdvanceInRange ==
  ASSUME NEW c \in Calls, MoreWords(c)
  PROVE  /\ c.i \in 0 .. MaxWords - 1
         /\ (c.at + 1) % NumRegs \in Regs
         /\ c.i + 1 \in 0 .. MaxWords
  <1>1. /\ c.i \in Nat /\ c.at \in Nat /\ c.len \in Nat
        /\ WordSize \in Nat /\ WordSize > 0
        /\ MaxWords \in Nat /\ MaxWords > 0 /\ NumRegs \in Nat /\ NumRegs > 0
        /\ c.len <= WordSize * MaxWords
    BY BusAssumption DEF Calls, Regs
  <1>2. c.i < MaxWords
    <2>1. SUFFICES ASSUME c.i >= MaxWords PROVE FALSE
      BY <1>1
    <2>2. WordSize * c.i >= WordSize * MaxWords
      BY <1>1, <2>1
    <2>. QED
      BY <1>1, <2>2 DEF MoreWords
  <1>3. (c.at + 1) % NumRegs \in 0 .. NumRegs - 1
    BY <1>1
  <1>. QED
    BY <1>1, <1>2, <1>3 DEF Regs

LEMMA AfterWordInCalls ==
  ASSUME NEW c \in Calls, MoreWords(c), NEW v \in Vals
  PROVE  AfterWord(c, v) \in Calls
  BY AdvanceInRange DEF AfterWord, Advance, Calls, Buffers

LEMMA MemAfterWordInMem ==
  ASSUME NEW c \in Calls, MoreWords(c), NEW m \in [Regs -> Vals], NEW r \in Regs
  PROVE  MemAfterWord(m, c, r) \in [Regs -> Vals]
  BY AdvanceInRange DEF MemAfterWord, Calls, Buffers

---------------------------------------------------------------------------
(* The inductive invariant. *)

LEMMA InitInv == Init => IInv
  <1>. SUFFICES ASSUME Init PROVE IInv
    OBVIOUS
  <1>1. 0 \in Regs /\ 0 \in Pages
    <2>1. 0 \in Regs /\ PageOf(0) = 0
      BY BusAssumption, XdmaAssumption DEF Regs, PageOf
    <2>. QED
      BY <2>1 DEF Pages
  <1>2. PICK l \in Lens, v \in Vals :
          call = [p \in Procs |-> NewCall("read", 0, l, [j \in 0 .. MaxWords - 1 |-> v])]
    BY DEF Init
  <1>3. NewCall("read", 0, l, [j \in 0 .. MaxWords - 1 |-> v]) \in Calls
    BY <1>1, BusAssumption DEF NewCall, Calls, Buffers
  <1>4. TypeOK
    BY <1>1, <1>2, <1>3 DEF Init, TypeOK
  <1>5. ASSUME NEW p \in Procs PROVE Window(p) /\ Whole(p)
    <2>1. WordSize \in Nat \ {0} /\ l \in Nat
      BY BusAssumption
    <2>2. call[p].i = 0 /\ call[p].len = l /\ pc[p] = "closed" /\ data[p] = "null"
      BY <1>2 DEF Init, NewCall
    <2>3. WordSize * call[p].i = 0
      BY <2>1, <2>2
    <2>. QED
      BY <2>1, <2>2, <2>3 DEF Window, Whole
  <1>. QED
    BY <1>4, <1>5 DEF IInv, WholeTransfer

(* xdma_remap leaves the window around r, and no other program's node      *)
(* moves.                                                                  *)
LEMMA RemapEffect ==
  ASSUME NEW p \in Procs, NEW r \in Regs, NEW open \in BOOLEAN, Remap(p, r, open),
         TypeOK, Window(p), data[p] # "null" => open = fd[p]
  PROVE  /\ data' \in [Procs -> {"null", "mapped", "failed"}]
         /\ page' \in [Procs -> Pages]
         /\ base' \in [Procs -> Pages]
         /\ \A q \in Procs \ {p} :
              data'[q] = data[q] /\ page'[q] = page[q] /\ base'[q] = base[q]
         /\ data'[p] # "null"
         /\ data'[p] = "mapped" => base'[p] = page'[p]
         /\ data'[p] = "failed" => ~ open \/ page'[p] \notin Bar
         /\ InWindow(r, page'[p])
  <1>1. PageOf(r) \in Pages /\ InWindow(r, PageOf(r))
    BY PageOfIsWindow
  <1>. QED
    BY <1>1 DEF Remap, TypeOK, Window

(* A program whose own state did not change keeps its part of the          *)
(* invariant.                                                              *)
LEMMA OthersKeep ==
  ASSUME NEW q \in Procs, Window(q), Whole(q),
         pc'[q] = pc[q], call'[q] = call[q], ret'[q] = ret[q], fd'[q] = fd[q],
         data'[q] = data[q], page'[q] = page[q], base'[q] = base[q]
  PROVE  Window(q)' /\ Whole(q)'
  BY DEF Window, Whole, InWindow, MoreWords

LEMMA OpenInv ==
  ASSUME IInv, NEW p \in Procs, Open(p)
  PROVE  IInv'
  <1>. USE DEF IInv
  <1>1. PICK ok \in BOOLEAN : fd' = [fd EXCEPT ![p] = ok] /\ Remap(p, 0, ok)
    BY DEF Open
  <1>2. 0 \in Regs /\ Window(p) /\ data[p] = "null"
    BY BusAssumption DEF Regs, Window, Open
  <1>3. /\ data' \in [Procs -> {"null", "mapped", "failed"}]
        /\ page' \in [Procs -> Pages]
        /\ base' \in [Procs -> Pages]
        /\ \A q \in Procs \ {p} :
             data'[q] = data[q] /\ page'[q] = page[q] /\ base'[q] = base[q]
        /\ data'[p] # "null"
        /\ data'[p] = "mapped" => base'[p] = page'[p]
        /\ data'[p] = "failed" => ~ ok \/ page'[p] \notin Bar
    BY <1>1, <1>2, RemapEffect
  <1>4. TypeOK'
    BY <1>1, <1>3 DEF Open, TypeOK
  <1>5. ASSUME NEW q \in Procs PROVE Window(q)' /\ Whole(q)'
    <2>1. CASE q = p
      <3>1. pc'[p] = "idle" /\ fd'[p] = ok /\ call' = call /\ ret' = ret
        BY <1>1 DEF Open, TypeOK
      <3>2. Window(p)'
        <4>1. data'[p] = "failed" => ~ fd'[p] \/ page'[p] \notin Bar
          BY <1>3, <3>1
        <4>. QED
          BY <1>3, <3>1, <4>1 DEF Window
      <3>3. Whole(p)'
        BY <1>2, <3>1 DEF Open, Whole, WholeTransfer, Window
      <3>. QED
        BY <2>1, <3>2, <3>3
    <2>2. CASE q # p
      BY <1>1, <1>3, <2>2, OthersKeep DEF Open, TypeOK, WholeTransfer
    <2>. QED
      BY <2>1, <2>2
  <1>. QED
    BY <1>4, <1>5 DEF WholeTransfer

LEMMA NoBusInv ==
  ASSUME IInv, NEW p \in Procs, NoBus(p)
  PROVE  IInv'
  <1>. USE DEF IInv
  <1>1. TypeOK'
    BY DEF NoBus, TypeOK, node
  <1>2. ASSUME NEW q \in Procs PROVE Window(q)' /\ Whole(q)'
    BY DEF NoBus, node, TypeOK, WholeTransfer, Window, Whole, InWindow, MoreWords
  <1>. QED
    BY <1>1, <1>2 DEF WholeTransfer

LEMMA BeginInv ==
  ASSUME IInv, NEW p \in Procs, NEW k \in {"read", "write"}, NEW r \in Regs,
         NEW l \in Lens, NEW b \in Buffers, Begin(p, k, r, l, b)
  PROVE  IInv'
  <1>. USE DEF IInv
  <1>1. NewCall(k, r, l, b) \in Calls
    BY BusAssumption DEF NewCall, Calls
  <1>2. TypeOK'
    BY <1>1 DEF Begin, TypeOK, node
  <1>3. ASSUME NEW q \in Procs PROVE Window(q)' /\ Whole(q)'
    <2>1. CASE q = p
      <3>1. pc'[p] = "loop" /\ call'[p] = NewCall(k, r, l, b) /\ UNCHANGED node
        BY DEF Begin, TypeOK
      <3>2. l \in Nat /\ WordSize \in Nat \ {0} /\ WordSize * 0 = 0
        BY BusAssumption
      <3>3. Window(p)'
        BY <3>1 DEF Window, Begin, node
      <3>4. Whole(p)'
        BY <3>1, <3>2 DEF Whole, NewCall
      <3>. QED
        BY <2>1, <3>3, <3>4
    <2>2. CASE q # p
      BY <2>2, OthersKeep DEF Begin, node, TypeOK, WholeTransfer
    <2>. QED
      BY <2>1, <2>2
  <1>. QED
    BY <1>2, <1>3 DEF WholeTransfer

LEMMA MapInv ==
  ASSUME IInv, NEW p \in Procs, Map(p)
  PROVE  IInv'
  <1>. USE DEF IInv
  <1>1. call[p] \in Calls /\ call[p].at \in Regs /\ fd[p] \in BOOLEAN /\ Window(p)
    BY DEF TypeOK, Calls
  <1>2. /\ data' \in [Procs -> {"null", "mapped", "failed"}]
        /\ page' \in [Procs -> Pages]
        /\ base' \in [Procs -> Pages]
        /\ \A q \in Procs \ {p} :
             data'[q] = data[q] /\ page'[q] = page[q] /\ base'[q] = base[q]
        /\ data'[p] # "null"
        /\ data'[p] = "mapped" => base'[p] = page'[p]
        /\ data'[p] = "failed" => ~ fd[p] \/ page'[p] \notin Bar
        /\ InWindow(call[p].at, page'[p])
    BY <1>1, RemapEffect DEF Map
  <1>3. TypeOK'
    BY <1>2 DEF Map, TypeOK
  <1>4. ASSUME NEW q \in Procs PROVE Window(q)' /\ Whole(q)'
    <2>1. CASE q = p
      <3>1. pc'[p] = "access" /\ UNCHANGED <<call, ret, fd>> /\ MoreWords(call[p])
        BY DEF Map, TypeOK
      <3>2. Window(p)'
        BY <1>2, <3>1 DEF Window, InWindow, MoreWords
      <3>3. Whole(p)'
        BY <3>1 DEF Whole, WholeTransfer
      <3>. QED
        BY <2>1, <3>2, <3>3
    <2>2. CASE q # p
      BY <1>2, <2>2, OthersKeep DEF Map, TypeOK, WholeTransfer
    <2>. QED
      BY <2>1, <2>2
  <1>. QED
    BY <1>3, <1>4 DEF WholeTransfer

(* The register behind the mapping is the one the loop is at. *)
LEMMA ReachedIsAt ==
  ASSUME IInv, NEW p \in Procs, pc[p] = "access", data[p] = "mapped"
  PROVE  Reached(p) = call[p].at /\ Reached(p) \in Mapping(base[p])
  <1>1. base[p] = page[p] /\ InWindow(call[p].at, page[p])
    BY DEF IInv, Window
  <1>2. PICK r \in Regs : page[p] = PageOf(r)
    BY DEF IInv, TypeOK, Pages
  <1>3. page[p] \in Nat /\ call[p].at \in Regs /\ call[p].at \in Nat
    BY <1>2, PageOfIsWindow DEF IInv, TypeOK, Calls, Regs
  <1>4. Reached(p) = call[p].at
    BY <1>1, <1>3 DEF Reached
  <1>. QED
    BY <1>1, <1>3, <1>4, XdmaAssumption DEF Mapping, InWindow

LEMMA AccessInv ==
  ASSUME IInv, NEW p \in Procs, Access(p)
  PROVE  IInv'
  <1>. USE DEF IInv
  <1>1. call[p] \in Calls /\ MoreWords(call[p]) /\ Reached(p) \in Regs
    BY DEF Access, TypeOK, Window, Mapping
  <1>2. mem[Reached(p)] \in Vals
    BY <1>1 DEF TypeOK
  <1>. DEFINE c == AfterWord(call[p], mem[Reached(p)])
  <1>3. c \in Calls
    BY <1>1, <1>2, AfterWordInCalls
  <1>4. TypeOK'
    <2>1. mem' \in [Regs -> Vals]
      BY <1>1, MemAfterWordInMem DEF Access, TypeOK
    <2>. QED
      BY <1>3, <2>1 DEF Access, TypeOK, node
  <1>5. c.i = call[p].i + 1 /\ c.len = call[p].len
    BY <1>1 DEF AfterWord, Advance, Calls
  <1>6. ASSUME NEW q \in Procs PROVE Window(q)' /\ Whole(q)'
    <2>1. CASE q = p
      <3>1. pc'[p] = "loop" /\ call'[p] = c /\ UNCHANGED node /\ pc[p] = "access"
        BY DEF Access, TypeOK
      <3>2. Window(p)'
        BY <3>1 DEF Window, node
      <3>3. Whole(p)'
        <4>1. /\ WordSize \in Nat \ {0} /\ call[p].i \in Nat /\ call[p].len \in Nat
              /\ WordSize * call[p].i < call[p].len
          BY <1>1, BusAssumption DEF MoreWords, Calls
        <4>2. WordSize * (call[p].i + 1) = WordSize * call[p].i + WordSize
          BY <4>1
        <4>. HIDE DEF c
        <4>3. WordSize * c.i < c.len + WordSize
          BY <1>5, <4>1, <4>2
        <4>. QED
          BY <3>1, <4>3 DEF Whole
      <3>. QED
        BY <2>1, <3>2, <3>3
    <2>2. CASE q # p
      BY <2>2, OthersKeep DEF Access, node, TypeOK, WholeTransfer
    <2>. QED
      BY <2>1, <2>2
  <1>. QED
    BY <1>4, <1>6 DEF WholeTransfer

LEMMA FaultInv ==
  ASSUME IInv, NEW p \in Procs, Fault(p)
  PROVE  IInv'
  <1>. USE DEF IInv
  <1>1. data[p] = "failed"
    <2>1. data[p] # "null" /\ data[p] # "mapped"
      BY ReachedIsAt DEF Fault, Window
    <2>. QED
      BY <2>1 DEF TypeOK
  <1>2. TypeOK'
    BY DEF Fault, TypeOK, node
  <1>3. ASSUME NEW q \in Procs PROVE Window(q)' /\ Whole(q)'
    <2>1. CASE q = p
      <3>1. /\ pc'[p] = "dead" /\ UNCHANGED <<call, ret>> /\ UNCHANGED node
            /\ pc[p] = "access"
        BY DEF Fault, TypeOK
      <3>2. Window(p)'
        BY <1>1, <3>1 DEF Window, node, InWindow
      <3>3. Whole(p)'
        BY <3>1 DEF Whole, WholeTransfer
      <3>. QED
        BY <2>1, <3>2, <3>3
    <2>2. CASE q # p
      BY <2>2, OthersKeep DEF Fault, node, TypeOK, WholeTransfer
    <2>. QED
      BY <2>1, <2>2
  <1>. QED
    BY <1>2, <1>3 DEF WholeTransfer

LEMMA ReturnInv ==
  ASSUME IInv, NEW p \in Procs, Return(p)
  PROVE  IInv'
  <1>. USE DEF IInv
  <1>1. /\ call[p].len \in Lens /\ call[p].len \in Nat /\ call[p].i \in Nat
        /\ WordSize \in Nat
        /\ WordSize * call[p].i >= call[p].len
    <2>1. call[p].len \in Lens /\ call[p].i \in 0 .. MaxWords
      BY DEF TypeOK, Calls
    <2>2. call[p].len \in Nat /\ call[p].i \in Nat /\ WordSize \in Nat
      BY <2>1, BusAssumption
    <2>3. WordSize * call[p].i \in Nat
      BY <2>2
    <2>. QED
      BY <2>1, <2>2, <2>3 DEF Return, MoreWords
  <1>2. TypeOK'
    BY <1>1 DEF Return, TypeOK, node
  <1>3. ASSUME NEW q \in Procs PROVE Window(q)' /\ Whole(q)'
    <2>1. CASE q = p
      <3>1. /\ pc'[p] = "idle" /\ ret'[p] = call[p].len /\ call' = call
            /\ UNCHANGED node /\ pc[p] = "loop"
        BY DEF Return, TypeOK
      <3>2. Window(p)'
        BY <3>1 DEF Window, node
      <3>3. Whole(p)'
        BY <1>1, <3>1 DEF Whole, WholeTransfer
      <3>. QED
        BY <2>1, <3>2, <3>3
    <2>2. CASE q # p
      BY <2>2, OthersKeep DEF Return, node, TypeOK, WholeTransfer
    <2>. QED
      BY <2>1, <2>2
  <1>. QED
    BY <1>2, <1>3 DEF WholeTransfer

LEMMA NextInv == IInv /\ [Next]_vars => IInv'
  <1>. SUFFICES ASSUME IInv, [Next]_vars PROVE IInv'
    OBVIOUS
  <1>1. CASE UNCHANGED vars
    BY <1>1 DEF IInv, TypeOK, Window, WholeTransfer, Whole, vars, InWindow, MoreWords
  <1>2. ASSUME NEW p \in Procs, NEW r \in Regs, NEW l \in Lens,
               Begin(p, "read", r, l, call[p].buf)
        PROVE  IInv'
    <2>1. call[p].buf \in Buffers
      BY DEF IInv, TypeOK, Calls
    <2>. QED
      BY <1>2, <2>1, BeginInv
  <1>3. ASSUME NEW p \in Procs, Step(p) PROVE IInv'
    BY <1>3, MapInv, AccessInv, FaultInv, ReturnInv DEF Step
  <1>. QED
    BY <1>1, <1>2, <1>3, OpenInv, NoBusInv, BeginInv DEF Next

(* Every reachable state satisfies the inductive invariant: whatever the   *)
(* programs do with their windows, each part of IInv survives it.          *)
THEOREM Invariance == Spec => []IInv
  <1>. QED
    BY InitInv, NextInv, PTL DEF Spec

(* Type correctness of the XDMA bus: in particular the register a loop has *)
(* reached is one of the bus however often the 32-bit address wraps.       *)
THEOREM TypeCorrect == Spec => []TypeOK
  <1>1. IInv => TypeOK
    BY DEF IInv
  <1>. QED
    BY <1>1, Invariance, PTL

(* A load or a store always goes to the register the caller asked for.     *)
THEOREM AlwaysOnTarget == Spec => []OnTarget
  <1>1. IInv => OnTarget
    BY ReachedIsAt DEF OnTarget
  <1>. QED
    BY <1>1, Invariance, PTL

(* A program dies of an access only when its card cannot serve it.         *)
THEOREM AlwaysFaultsOnlyOffCard == Spec => []FaultsOnlyOffCard
  <1>1. ASSUME IInv, NEW p \in Procs, pc[p] = "dead"
        PROVE  ~ fd[p] \/ PageOf(call[p].at) \notin Bar
    <2>1. /\ call[p].at \in Regs /\ page[p] \in Pages
          /\ InWindow(call[p].at, page[p])
          /\ ~ fd[p] \/ page[p] \notin Bar
      BY <1>1 DEF IInv, TypeOK, Window, Calls
    <2>2. PageOf(call[p].at) = page[p]
      BY <2>1, WindowIsUnique
    <2>. QED
      BY <2>1, <2>2
  <1>2. IInv => FaultsOnlyOffCard
    BY <1>1 DEF FaultsOnlyOffCard
  <1>. QED
    BY <1>2, Invariance, PTL

(* A transfer that returned has moved all of its bytes and overran the     *)
(* caller's buffer by less than a word.                                    *)
THEOREM AlwaysWholeTransfer == Spec => []WholeTransfer
  <1>1. IInv => WholeTransfer
    BY DEF IInv
  <1>. QED
    BY <1>1, Invariance, PTL

---------------------------------------------------------------------------
(* XdmaBus implements WbBus. *)

(* The abstract bus has the same registers and the same transfers. *)
LEMMA SameData ==
  /\ WB!Regs = Regs
  /\ WB!Calls = Calls
  /\ \A c : WB!MoreWords(c) <=> MoreWords(c)
  /\ \A c, v : WB!AfterWord(c, v) = AfterWord(c, v)
  /\ \A m, c, r : WB!MemAfterWord(m, c, r) = MemAfterWord(m, c, r)
  BY DEF Regs, WB!Regs, Calls, WB!Calls, Buffers, WB!Buffers, MoreWords, WB!MoreWords,
         AfterWord, WB!AfterWord, Advance, WB!Advance, MemAfterWord, WB!MemAfterWord

LEMMA InitRefines == Init => WB!Init
  <1>. SUFFICES ASSUME Init PROVE WB!Init
    OBVIOUS
  <1>1. IInv
    BY InitInv
  <1>2. stOf = [p \in Procs |-> "idle"]
    BY DEF stOf, Init
  <1>3. call \in [Procs -> {c \in Calls : c.i = 0}]
    <2>1. \A p \in Procs : call[p].i = 0
      BY <1>1 DEF Init, IInv, Window
    <2>. QED
      BY <1>1, <2>1 DEF IInv, TypeOK
  <1>. QED
    BY <1>2, <1>3, SameData DEF Init, WB!Init

(* How a step of one program changes what the abstract bus sees of it.     *)
LEMMA StOfStep ==
  ASSUME TypeOK, NEW p \in Procs, NEW s \in {"closed", "idle", "loop", "access", "dead"},
         pc' = [pc EXCEPT ![p] = s]
  PROVE  stOf' = [stOf EXCEPT ![p] = CASE s \in {"closed", "idle"} -> "idle"
                                       [] s \in {"loop", "access"} -> "busy"
                                       [] s = "dead"               -> "dead"]
  BY DEF stOf, TypeOK

LEMMA NextRefines == IInv /\ [Next]_vars => [WB!Next]_(WB!vars)
  <1>. SUFFICES ASSUME IInv, [Next]_vars PROVE [WB!Next]_(WB!vars)
    OBVIOUS
  <1>. USE DEF IInv
  <1>1. CASE UNCHANGED vars
    BY <1>1 DEF vars, WB!vars, stOf
  <1>2. ASSUME NEW p \in Procs, Open(p) PROVE UNCHANGED WB!vars
    <2>1. stOf' = stOf
      BY <1>2, StOfStep DEF Open, stOf, TypeOK
    <2>. QED
      BY <1>2, <2>1 DEF Open, WB!vars
  <1>3. ASSUME NEW p \in Procs, NoBus(p) PROVE WB!Refuse(p)
    BY <1>3 DEF NoBus, WB!Refuse, stOf
  <1>4. ASSUME NEW p \in Procs, NEW k \in {"read", "write"}, NEW r \in Regs,
               NEW l \in Lens, NEW b \in Buffers, Begin(p, k, r, l, b)
        PROVE  WB!Begin(p)
    <2>1. NewCall(k, r, l, b) \in {x \in Calls : x.i = 0}
      BY BusAssumption DEF NewCall, Calls
    <2>2. stOf[p] = "idle" /\ stOf' = [stOf EXCEPT ![p] = "busy"]
      BY <1>4, StOfStep DEF Begin, stOf
    <2>. QED
      BY <1>4, <2>1, <2>2, SameData DEF Begin, WB!Begin
  <1>5. ASSUME NEW p \in Procs, Map(p) PROVE UNCHANGED WB!vars
    <2>1. stOf' = stOf
      BY <1>5, StOfStep DEF Map, stOf, TypeOK
    <2>. QED
      BY <1>5, <2>1 DEF Map, WB!vars
  <1>6. ASSUME NEW p \in Procs, Access(p) PROVE WB!Word(p)
    <2>1. stOf[p] = "busy" /\ stOf' = stOf
      BY <1>6, StOfStep DEF Access, stOf, TypeOK
    <2>2. Reached(p) = call[p].at /\ MoreWords(call[p])
      BY <1>6, ReachedIsAt DEF Access, Window
    <2>. QED
      BY <1>6, <2>1, <2>2, SameData DEF Access, WB!Word
  <1>7. ASSUME NEW p \in Procs, Fault(p) PROVE WB!Die(p)
    <2>1. stOf[p] = "busy" /\ stOf' = [stOf EXCEPT ![p] = "dead"]
      BY <1>7, StOfStep DEF Fault, stOf
    <2>. QED
      BY <1>7, <2>1 DEF Fault, WB!Die
  <1>8. ASSUME NEW p \in Procs, Return(p) PROVE WB!End(p)
    <2>1. stOf[p] = "busy" /\ stOf' = [stOf EXCEPT ![p] = "idle"]
      BY <1>8, StOfStep DEF Return, stOf
    <2>. QED
      BY <1>8, <2>1, SameData DEF Return, WB!End
  <1>9. ASSUME NEW p \in Procs PROVE call[p].buf \in Buffers
    BY DEF TypeOK, Calls
  <1>. QED
    BY <1>1, <1>2, <1>3, <1>4, <1>5, <1>6, <1>7, <1>8, <1>9 DEF Next, Step, WB!Next

(* Whatever the windows do, callers see the bus of WbBus: words in order,  *)
(* each once and each atomic, and len returned only after the last.        *)
THEOREM Refinement == Spec => Implements
  BY InitRefines, NextRefines, Invariance, PTL DEF Spec, Implements, WB!Spec

=============================================================================
