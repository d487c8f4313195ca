--------------------------- MODULE SpiChipsProofs -------------------------
(***************************************************************************)
(* Proofs about SpiChips, for any chips on any lines, any ranges, masks    *)
(* and modes, and any number of calls and of killed programs.              *)
(***************************************************************************)
EXTENDS SpiChips, SequenceTheorems, TLAPS

---------------------------------------------------------------------------
(* The inductive invariant. *)

(* The kinds of access, and what a chip is sent in one.                    *)
Accesses == [rw : {"write", "read"}, reg : 0 .. 255, byte : Byte]

Sent(a) == IF a.rw = "write" THEN <<0, a.reg, a.byte>> ELSE <<128, a.reg, 255>>

(* The transfer o of access a, and those that follow it. *)
Leg(l, a, o, rest) ==
  \/ /\ a.rw = "write"
     /\ o = [ss |-> l, start |-> TRUE, stop |-> FALSE, wr |-> <<0, a.reg>>,
             wr_offset |-> 0, rd |-> 0, rd_offset |-> 0]
     /\ rest = <<[ss |-> l, start |-> FALSE, stop |-> TRUE, wr |-> <<a.byte>>,
                  wr_offset |-> 0, rd |-> 0, rd_offset |-> 0]>>
  \/ /\ a.rw = "write"
     /\ o = [ss |-> l, start |-> FALSE, stop |-> TRUE, wr |-> <<a.byte>>,
             wr_offset |-> 0, rd |-> 0, rd_offset |-> 0]
     /\ rest = <<>>
  \/ /\ a.rw = "read"
     /\ o = [ss |-> l, start |-> TRUE, stop |-> TRUE, wr |-> <<128, a.reg>>,
             wr_offset |-> 0, rd |-> 1, rd_offset |-> 2]
     /\ rest = <<>>

(* The bytes of the access before this transfer, and those of the transfer *)
(* that the core has shifted, at each place of the loop.                   *)
Earlier(o) == IF o.start THEN 0 ELSE 2

Rounds(at, n, shifting) ==
  IF at \in {"put", "go", "deselect"} THEN n
  ELSE IF at = "fetch" THEN n + 1
  ELSE IF at = "poll" THEN (IF shifting THEN n ELSE n + 1)
  ELSE 0

Shifted == Earlier(op) + Rounds(pc, i, go)

InAccess == pc \notin {"idle", "dead"}
Current  == Head(script)

(* The accesses of the call that are over. *)
Over == Len(job.order) - Len(script)

(* In the access under way the chip has been selected. *)
Touched == InAccess /\ (op.start => pc \notin {"ctrl", "select"})

Uploads == {"upload", "config", "test"}

(* The values that the variables take, and the registers of the call.      *)
Typed ==
  /\ pc \in {"idle", "ctrl", "select", "put", "go", "poll", "fetch", "deselect", "dead"}
  /\ op \in Op /\ then \in Seq(Op)
  /\ i \in Nat /\ go \in BOOLEAN /\ selected \subseteq Lines /\ rxtx \in Byte
  /\ frame \in [Lines -> Seq(Byte)]
  /\ regs = [l \in Lines |-> regs[l]] /\ \A l \in Lines : regs[l] \in [ChipRegs[l] -> Byte]
  /\ mirror = [l \in Lines |-> mirror[l]] /\ \A l \in Lines : mirror[l] \in [ChipRegs[l] -> Byte]
  /\ script \in Seq(Accesses)
  /\ job.ss \in Lines /\ job.left \subseteq Lines /\ job.order \in Seq(0 .. 255)
  /\ job.range \subseteq ChipRegs[job.ss]
  /\ jobs \in 0 .. MaxJobs /\ kills \in 0 .. MaxKills

(* The accesses still to make are the rest of the call's.                  *)
Planned ==
  /\ Len(script) <= Len(job.order)
  /\ \A k \in 1 .. Len(script) :
       LET a == script[k]
           r == job.order[Over + k]
       IN /\ a.reg = r
          /\ job.what \in Uploads => a.rw = "write" /\ a.byte = mirror[job.ss][r]
          /\ job.what = "download" => a.rw = "read"
  /\ \A k \in 1 .. Len(job.order) : job.order[k] \in ChipRegs[job.ss]
  /\ job.what \in Uploads \cup {"download"} =>
       job.range = {job.order[k] : k \in 1 .. Len(job.order)}
  /\ job.what \in Uploads => \A k \in 2 .. Len(job.order) : job.order[k] # 0
  /\ job.what = "config" =>
       /\ job.ss \in Clocks /\ 0 \notin job.range
       /\ \A r \in AdRegs \ job.range : mirror[job.ss][r] = job.copy[r]
  /\ job.what = "test" =>
       /\ job.ss \in Adcs /\ Len(job.order) = 17 /\ job.order[17] = TEST
       /\ \A k \in 1 .. 16 : job.order[k] = TEST + k

(* The driver is in one of the transfers of the access under way, and the  *)
(* core shifts, if it does, the next byte of it.                           *)
Placed ==
  /\ go => pc \in {"poll", "dead"}
  /\ pc = "dead" => script = <<>> /\ job.what = "none"
  /\ InAccess =>
       /\ script # <<>>
       /\ Leg(job.ss, Current, op, then)
       /\ pc = "select" => op.start /\ i = 0
       /\ pc \in {"put", "go", "poll", "fetch"} => i < TransferLen(op)
       /\ pc = "deselect" => i = TransferLen(op)
       /\ pc = "fetch" => Current.rw = "read" /\ i = 2
       /\ pc = "go" \/ (pc = "poll" /\ go) => rxtx = Sent(Current)[Shifted + 1]

(* No killed program has left a frame open that this access goes on with.  *)
Clean == job.ss \in job.left => Over > 0

(* Which chip is selected, and what it has been sent of this access.       *)
Framed ==
  /\ Touched => selected = {job.ss}
  /\ script # <<>> /\ ~Touched => selected = IF InFirst THEN job.left ELSE {}
  /\ Touched /\ Clean =>
       /\ Len(frame[job.ss]) = Shifted
       /\ \A k \in 1 .. Shifted : frame[job.ss][k] = Sent(Current)[k]

(* The accesses of the call whose byte the chip has taken, and those whose *)
(* byte is in the copy.                                                    *)
Taken3  == Over + (IF InAccess /\ Shifted = 3 THEN 1 ELSE 0)
Fetched == Over + (IF pc = "deselect" /\ Shifted = 3 THEN 1 ELSE 0)

(* Chips and copy agree on the registers that the call has been at, but    *)
(* for the first one when it went on with an open frame.                   *)
Agreed ==
  /\ job.what \in Uploads =>
       \A k \in 1 .. Taken3 : k > 1 \/ Fresh =>
         regs[job.ss][job.order[k]] = mirror[job.ss][job.order[k]]
  /\ job.what = "download" =>
       \A k \in 1 .. Fetched : k > 1 \/ Fresh =>
         regs[job.ss][job.order[k]] = mirror[job.ss][job.order[k]]
  /\ job.what = "download" /\ Clean /\ pc \in {"poll", "fetch"} /\ Shifted = 3 =>
       rxtx = regs[job.ss][Current.reg]

(* All other registers are as they were when the call began.               *)
Kept ==
  Fresh =>
    /\ job.what \in Uploads =>
         \A l \in Lines : \A r \in ChipRegs[l] :
           l # job.ss \/ (\A k \in 1 .. Taken3 : job.order[k] # r) =>
             regs[l][r] = IF l = job.ss /\ Taken3 > 0 /\ Resetting THEN 0 ELSE job.was[l][r]
    /\ job.what = "download" => regs = job.was

IInv == Typed /\ Planned /\ Placed /\ Framed /\ Agreed /\ Kept

---------------------------------------------------------------------------
(* The transfers of an access. *)

(* Facts about the bytes of an access.                                     *)
LEMMA SentBytes ==
  ASSUME NEW a \in Accesses
  PROVE  /\ a.rw = "write" => Sent(a)[1] = 0 /\ Sent(a)[2] = a.reg /\ Sent(a)[3] = a.byte
         /\ a.rw = "read" => Sent(a)[1] = 128 /\ Sent(a)[2] = a.reg /\ Sent(a)[3] = 255
         /\ a.rw \in {"write", "read"} /\ a.reg \in 0 .. 255 /\ a.byte \in Byte
         /\ Sent(a)[1] \in Byte /\ Sent(a)[2] \in Byte /\ Sent(a)[3] \in Byte
  BY DEF Accesses, Sent, Byte

(* The three kinds of transfer: the first and second of a write, and the   *)
(* only one of a read (pghal_spi.c:28-66, wb_spi.c:34-44).                 *)
LEMMA LegKinds ==
  ASSUME NEW l \in Lines, NEW a \in Accesses, NEW o, NEW rest, Leg(l, a, o, rest)
  PROVE  /\ o \in Op /\ rest \in Seq(Op) /\ o.ss = l
         /\ \/ /\ a.rw = "write" /\ o.start /\ ~o.stop
               /\ WrLength(o) = 2 /\ RdLength(o) = 0 /\ o.wr_offset = 0
               /\ o.wr = <<0, a.reg>>
               /\ rest # <<>> /\ Leg(l, a, Head(rest), Tail(rest)) /\ ~ Head(rest).start
            \/ /\ a.rw = "write" /\ ~o.start /\ o.stop
               /\ WrLength(o) = 1 /\ RdLength(o) = 0 /\ o.wr_offset = 0
               /\ o.wr = <<a.byte>> /\ rest = <<>>
            \/ /\ a.rw = "read" /\ o.start /\ o.stop
               /\ WrLength(o) = 2 /\ RdLength(o) = 3 /\ o.wr_offset = 0 /\ o.rd_offset = 2
               /\ o.wr = <<128, a.reg>> /\ rest = <<>>
  <1>0. a.rw \in {"write", "read"} /\ a.reg \in Byte /\ a.byte \in Byte
    BY SentBytes DEF Byte
  <1>1. <<0, a.reg>> \in Seq(Byte) /\ <<128, a.reg>> \in Seq(Byte) /\ <<a.byte>> \in Seq(Byte)
    BY <1>0 DEF Byte
  <1>2. CASE /\ a.rw = "write"
             /\ o = [ss |-> l, start |-> TRUE, stop |-> FALSE, wr |-> <<0, a.reg>>,
                     wr_offset |-> 0, rd |-> 0, rd_offset |-> 0]
             /\ rest = <<[ss |-> l, start |-> FALSE, stop |-> TRUE, wr |-> <<a.byte>>,
                          wr_offset |-> 0, rd |-> 0, rd_offset |-> 0]>>
    <2>. DEFINE o2 == [ss |-> l, start |-> FALSE, stop |-> TRUE, wr |-> <<a.byte>>,
                       wr_offset |-> 0, rd |-> 0, rd_offset |-> 0]
    <2>1. o \in Op /\ o2 \in Op
      BY <1>1, <1>2 DEF Op
    <2>2. rest \in Seq(Op) /\ rest # <<>> /\ Head(rest) = o2 /\ Tail(rest) = <<>>
      <3>. HIDE DEF o2
      <3>1. rest = <<o2>>
        BY <1>2 DEF o2
      <3>. QED
        BY <2>1, <3>1
    <2>3. Leg(l, a, Head(rest), Tail(rest)) /\ ~ Head(rest).start
      BY <1>2, <2>2 DEF Leg
    <2>4. o.wr = <<0, a.reg>> /\ o.wr_offset = 0 /\ o.rd = 0 /\ o.start /\ ~o.stop /\ o.ss = l
      BY <1>2
    <2>5. Len(<<0, a.reg>>) = 2
      OBVIOUS
    <2>6. WrLength(o) = 2 /\ RdLength(o) = 0
      BY <2>4, <2>5 DEF WrLength, RdLength
    <2>. QED
      BY <1>2, <2>1, <2>2, <2>3, <2>4, <2>6
  <1>3. CASE /\ a.rw = "write"
             /\ o = [ss |-> l, start |-> FALSE, stop |-> TRUE, wr |-> <<a.byte>>,
                     wr_offset |-> 0, rd |-> 0, rd_offset |-> 0]
             /\ rest = <<>>
    <2>1. o \in Op
      BY <1>1, <1>3 DEF Op
    <2>2. o.wr = <<a.byte>> /\ o.wr_offset = 0 /\ o.rd = 0 /\ ~o.start /\ o.stop /\ o.ss = l
      BY <1>3
    <2>3. Len(<<a.byte>>) = 1
      OBVIOUS
    <2>4. WrLength(o) = 1 /\ RdLength(o) = 0
      BY <2>2, <2>3 DEF WrLength, RdLength
    <2>. QED
      BY <1>3, <2>1, <2>2, <2>4
  <1>4. CASE /\ a.rw = "read"
             /\ o = [ss |-> l, start |-> TRUE, stop |-> TRUE, wr |-> <<128, a.reg>>,
                     wr_offset |-> 0, rd |-> 1, rd_offset |-> 2]
             /\ rest = <<>>
    <2>1. o \in Op
      BY <1>1, <1>4 DEF Op
    <2>2. o.wr = <<128, a.reg>> /\ o.wr_offset = 0 /\ o.rd = 1 /\ o.rd_offset = 2
          /\ o.start /\ o.stop /\ o.ss = l
      BY <1>4
    <2>3. Len(<<128, a.reg>>) = 2
      OBVIOUS
    <2>4. WrLength(o) = 2 /\ RdLength(o) = 3
      BY <2>2, <2>3 DEF WrLength, RdLength
    <2>. QED
      BY <1>4, <2>1, <2>2, <2>4
  <1>. QED
    BY <1>2, <1>3, <1>4 DEF Leg

(* How many rounds a transfer has, and what it puts on the wire in each:   *)
(* the bytes of its access, from where the transfer before it ended        *)
(* (wb_spi.c:34-66).                                                       *)
LEMMA LegBytes ==
  ASSUME NEW l \in Lines, NEW a \in Accesses, NEW o, NEW rest, Leg(l, a, o, rest)
  PROVE  /\ TransferLen(o) = IF a.rw = "read" THEN 3 ELSE IF o.start THEN 2 ELSE 1
         /\ \A n \in 0 .. TransferLen(o) - 1 :
              Sent(a)[Earlier(o) + n + 1] =
                IF n >= o.wr_offset /\ n < WrLength(o) THEN o.wr[n - o.wr_offset + 1] ELSE 255
         /\ \A n \in 0 .. TransferLen(o) - 1 : Wanted(o, n) <=> a.rw = "read" /\ n = 2
  <1>1. /\ a.rw = "write" => Sent(a)[1] = 0 /\ Sent(a)[2] = a.reg /\ Sent(a)[3] = a.byte
        /\ a.rw = "read" => Sent(a)[1] = 128 /\ Sent(a)[2] = a.reg /\ Sent(a)[3] = 255
    BY SentBytes
  <1>2. CASE /\ a.rw = "write" /\ o.start /\ ~o.stop
             /\ WrLength(o) = 2 /\ RdLength(o) = 0 /\ o.wr_offset = 0 /\ o.wr = <<0, a.reg>>
    <2>1. TransferLen(o) = 2 /\ Earlier(o) = 0
      BY <1>2 DEF TransferLen, Earlier
    <2>2. o.wr[1] = 0 /\ o.wr[2] = a.reg
      BY <1>2
    <2>3. \A n \in 0 .. 1 : ~ Wanted(o, n)
      BY <1>2 DEF Wanted
    <2>4. \A n \in 0 .. 1 : Sent(a)[n + 1] = o.wr[n + 1]
      BY <1>1, <1>2, <2>2
    <2>. QED
      BY <1>2, <2>1, <2>3, <2>4
  <1>3. CASE /\ a.rw = "write" /\ ~o.start /\ o.stop
             /\ WrLength(o) = 1 /\ RdLength(o) = 0 /\ o.wr_offset = 0 /\ o.wr = <<a.byte>>
    <2>1. TransferLen(o) = 1 /\ Earlier(o) = 2
      BY <1>3 DEF TransferLen, Earlier
    <2>2. o.wr[1] = a.byte
      BY <1>3
    <2>3. ~ Wanted(o, 0)
      BY <1>3 DEF Wanted
    <2>. QED
      BY <1>1, <1>3, <2>1, <2>2, <2>3
  <1>4. CASE /\ a.rw = "read" /\ o.start /\ o.stop
             /\ WrLength(o) = 2 /\ RdLength(o) = 3 /\ o.wr_offset = 0 /\ o.rd_offset = 2
             /\ o.wr = <<128, a.reg>>
    <2>1. TransferLen(o) = 3 /\ Earlier(o) = 0
      BY <1>4 DEF TransferLen, Earlier
    <2>2. o.wr[1] = 128 /\ o.wr[2] = a.reg
      BY <1>4
    <2>3. \A n \in 0 .. 2 : Wanted(o, n) <=> n = 2
      BY <1>4 DEF Wanted
    <2>4. \A n \in 0 .. 2 : Sent(a)[n + 1] = IF n < 2 THEN o.wr[n + 1] ELSE 255
      BY <1>1, <1>4, <2>2
    <2>. QED
      BY <1>4, <2>1, <2>3, <2>4
  <1>. QED
    BY <1>2, <1>3, <1>4, LegKinds

(* An access begins with its first transfer (pghal_spi.c:28-66).           *)
LEMMA FirstLeg ==
  ASSUME NEW l \in Lines, NEW a \in Accesses
  PROVE  /\ Leg(l, a, Head(Transfers(l, a)), Tail(Transfers(l, a)))
         /\ Head(Transfers(l, a)).start
  <1>0. a.rw \in {"write", "read"} /\ a.reg \in 0 .. 255 /\ a.byte \in Byte
    BY SentBytes
  <1>1. (a.reg \div 256) % 32 = 0 /\ a.reg % 256 = a.reg /\ LengthBits(1) = 0
    BY <1>0 DEF LengthBits
  <1>2. Header(a.reg, 1) = <<0, a.reg>>
    BY <1>1 DEF Header
  <1>3. CASE a.rw = "write"
    <2>1. Len(<<a.byte>>) = 1
      OBVIOUS
    <2>. DEFINE o1 == [ss |-> l, start |-> TRUE, stop |-> FALSE, wr |-> <<0, a.reg>>,
                       wr_offset |-> 0, rd |-> 0, rd_offset |-> 0]
                o2 == [ss |-> l, start |-> FALSE, stop |-> TRUE, wr |-> <<a.byte>>,
                       wr_offset |-> 0, rd |-> 0, rd_offset |-> 0]
    <2>2. Transfers(l, a) = <<o1, o2>>
      BY <1>2, <1>3, <2>1 DEF Transfers, pghal_spi_a16_write
    <2>3. Leg(l, a, o1, <<o2>>) /\ o1.start
      BY <1>3 DEF Leg
    <2>. HIDE DEF o1, o2
    <2>4. Head(Transfers(l, a)) = o1 /\ Tail(Transfers(l, a)) = <<o2>>
      BY <2>2
    <2>. QED
      BY <2>3, <2>4
  <1>4. CASE a.rw = "read"
    <2>1. [<<0, a.reg>> EXCEPT ![1] = @ + 128] = <<128, a.reg>>
      <3>. DEFINE h == [<<0, a.reg>> EXCEPT ![1] = @ + 128]
      <3>1. DOMAIN h = 1 .. 2 /\ h[1] = 128 /\ h[2] = a.reg
        OBVIOUS
      <3>2. h = [k \in 1 .. 2 |-> h[k]]
        OBVIOUS
      <3>. HIDE DEF h
      <3>3. h = <<128, a.reg>>
        BY <3>1, <3>2
      <3>. QED
        BY <3>3 DEF h
    <2>2. Transfers(l, a) =
            << [ss |-> l, start |-> TRUE, stop |-> TRUE, wr |-> <<128, a.reg>>,
                wr_offset |-> 0, rd |-> 1, rd_offset |-> 2] >>
      BY <1>2, <1>4, <2>1 DEF Transfers, pghal_spi_a16_read
    <2>. DEFINE o == [ss |-> l, start |-> TRUE, stop |-> TRUE, wr |-> <<128, a.reg>>,
                      wr_offset |-> 0, rd |-> 1, rd_offset |-> 2]
    <2>3. Transfers(l, a) = <<o>>
      BY <2>2
    <2>4. Leg(l, a, o, <<>>) /\ o.start
      BY <1>4 DEF Leg
    <2>. HIDE DEF o
    <2>5. Head(Transfers(l, a)) = o /\ Tail(Transfers(l, a)) = <<>>
      BY <2>3
    <2>. QED
      BY <2>4, <2>5
  <1>. QED
    BY <1>0, <1>3, <1>4

---------------------------------------------------------------------------
(* The driver's steps inside an access. *)

(* What is known of the access under way.                                  *)
LEMMA UnderWay ==
  ASSUME Typed, Planned, Placed, script # <<>>
  PROVE  /\ Current \in Accesses /\ Current = script[1] /\ Len(script) \in Nat \ {0}
         /\ Len(job.order) \in Nat /\ Over \in Nat /\ Over < Len(job.order)
         /\ Current.reg = job.order[Over + 1] /\ Current.reg \in ChipRegs[job.ss]
         /\ job.what \in Uploads =>
              Current.rw = "write" /\ Current.byte = mirror[job.ss][Current.reg]
         /\ job.what = "download" => Current.rw = "read"
  <1>1. script \in Seq(Accesses) /\ job.order \in Seq(0 .. 255)
    BY DEF Typed
  <1>2. Len(script) \in Nat \ {0} /\ Current = script[1] /\ Current \in Accesses
    BY <1>1 DEF Current
  <1>3. Len(job.order) \in Nat
    BY <1>1
  <1>4. Over \in Nat /\ Over < Len(job.order) /\ Over + 1 \in 1 .. Len(job.order)
    BY <1>2, <1>3 DEF Over, Planned
  <1>5. 1 \in 1 .. Len(script)
    BY <1>2
  <1>6. /\ script[1].reg = job.order[Over + 1]
        /\ job.what \in Uploads =>
             script[1].rw = "write" /\ script[1].byte = mirror[job.ss][job.order[Over + 1]]
        /\ job.what = "download" => script[1].rw = "read"
    BY <1>5 DEF Planned
  <1>7. job.order[Over + 1] \in ChipRegs[job.ss]
    BY <1>4 DEF Planned
  <1>. QED
    BY <1>2, <1>3, <1>4, <1>6, <1>7

(* A step that leaves the call and its copy alone leaves the plan alone.   *)
LEMMA PlanStands ==
  ASSUME Planned, UNCHANGED <<script, job, mirror>>
  PROVE  Planned'
  BY DEF Planned, Over

(* Inside an access, where the transfer is. *)
LEMMA Inside ==
  ASSUME Typed, Planned, Placed, InAccess
  PROVE  /\ script # <<>> /\ Current \in Accesses /\ job.ss \in Lines
         /\ Leg(job.ss, Current, op, then) /\ op.ss = job.ss /\ op.start \in BOOLEAN
         /\ TransferLen(op) = IF Current.rw = "read" THEN 3 ELSE IF op.start THEN 2 ELSE 1
         /\ Earlier(op) = IF op.start THEN 0 ELSE 2
         /\ ~op.start => Current.rw = "write"
         /\ Current.rw \in {"write", "read"}
         /\ i \in Nat /\ Over \in Nat
  <1>1. script # <<>> /\ Leg(job.ss, Current, op, then) /\ job.ss \in Lines
    BY DEF Placed, Typed
  <1>2. Current \in Accesses /\ Over \in Nat
    BY <1>1, UnderWay
  <1>3. TransferLen(op) = IF Current.rw = "read" THEN 3 ELSE IF op.start THEN 2 ELSE 1
    BY <1>1, <1>2, LegBytes
  <1>4. op.ss = job.ss /\ op \in Op
    BY <1>1, <1>2, LegKinds
  <1>5. op.start \in BOOLEAN
    BY <1>4 DEF Op
  <1>6. Current.rw \in {"write", "read"}
    BY <1>2, SentBytes
  <1>7. ~op.start => Current.rw = "write"
    BY <1>1, <1>2, LegKinds
  <1>8. i \in Nat
    BY DEF Typed
  <1>. QED
    BY <1>1, <1>2, <1>3, <1>4, <1>5, <1>6, <1>7, <1>8 DEF Earlier

(* A step inside an access that neither shifts a byte nor moves the select *)
(* lines, and leaves the call, the chips and the copy alone.               *)
Still ==
  /\ UNCHANGED <<op, then, selected, frame, regs, mirror, script, job, jobs, kills>>
  /\ InAccess /\ InAccess'
  /\ Touched' <=> Touched
  /\ Shifted' = Shifted

(* Such a step keeps the invariant. *)
LEMMA StillKeeps ==
  ASSUME IInv, Still, Typed', Placed',
         job.what = "download" => Fetched' = Fetched,
         job.what = "download" /\ pc' \in {"poll", "fetch"} /\ Shifted = 3 =>
           rxtx' = rxtx /\ pc \in {"poll", "fetch"}
  PROVE  IInv'
  <1>. USE DEF IInv
  <1>1. Planned'
    BY PlanStands DEF Still
  <1>2. Framed'
    BY DEF Still, Framed, Clean, Over, Current, InFirst
  <1>3. Taken3' = Taken3
    BY DEF Still, Taken3, Over
  <1>4. Agreed'
    BY <1>3 DEF Still, Agreed, Fresh, Clean, Over, Current
  <1>5. Kept'
    BY <1>3 DEF Still, Kept, Fresh, Resetting
  <1>. QED
    BY <1>1, <1>2, <1>4, <1>5

(* Types after a step that moves nothing but the place and the core.       *)
LEMMA TypesStand ==
  ASSUME Typed, UNCHANGED <<op, then, frame, regs, mirror, script, job, jobs, kills>>,
         pc' \in {"idle", "ctrl", "select", "put", "go", "poll", "fetch", "deselect", "dead"},
         i' \in Nat, go' \in BOOLEAN, selected' \subseteq Lines, rxtx' \in Byte
  PROVE  Typed'
  BY DEF Typed

(* Control register, data register, GO and polls (wb_spi.c:47-83). *)
LEMMA CtrlKeeps ==
  ASSUME IInv, Ctrl, UNCHANGED <<mirror, script, job, jobs, kills>>
  PROVE  IInv'
  <1>. USE DEF IInv
  <1>1. /\ pc = "ctrl" /\ go' = FALSE /\ i' = 0
        /\ UNCHANGED <<op, then, selected, rxtx, frame, regs>>
        /\ pc' = IF op.start THEN "select" ELSE NextRound(op, 0)
    BY DEF Ctrl
  <1>2. InAccess
    BY <1>1 DEF InAccess
  <1>3. /\ script # <<>> /\ Leg(job.ss, Current, op, then) /\ op.start \in BOOLEAN
        /\ TransferLen(op) = IF Current.rw = "read" THEN 3 ELSE IF op.start THEN 2 ELSE 1
        /\ ~op.start => Current.rw = "write"
    BY <1>2, Inside
  <1>4. pc' = IF op.start THEN "select" ELSE "put"
    BY <1>1, <1>3 DEF NextRound
  <1>5. ~go
    BY <1>1 DEF Placed
  <1>6. Placed'
    BY <1>1, <1>3, <1>4 DEF Placed, InAccess, Current
  <1>7. Typed'
    <2>1. selected' \subseteq Lines /\ rxtx' \in Byte
      BY <1>1 DEF Typed
    <2>. QED
      BY <1>1, <1>4, <2>1, TypesStand
  <1>8. Still
    <2>1. Shifted' = Earlier(op)
      BY <1>1, <1>4 DEF Shifted, Rounds, Earlier
    <2>2. Shifted = Earlier(op)
      BY <1>1 DEF Shifted, Rounds, Earlier
    <2>3. InAccess' /\ (Touched' <=> Touched)
      BY <1>1, <1>4 DEF InAccess, Touched
    <2>. QED
      BY <1>1, <1>2, <2>1, <2>2, <2>3 DEF Still
  <1>9. Fetched' = Fetched
    BY <1>1, <1>4, <1>8 DEF Fetched, Over, Still
  <1>. QED
    BY <1>4, <1>6, <1>7, <1>8, <1>9, StillKeeps

(* The byte of this round of the loop (wb_spi.c:59-68).                    *)
LEMMA PutKeeps ==
  ASSUME IInv, Put, UNCHANGED <<mirror, script, job, jobs, kills>>
  PROVE  IInv'
  <1>. USE DEF IInv
  <1>1. /\ pc = "put" /\ pc' = "go"
        /\ UNCHANGED <<op, then, i, go, selected, frame, regs>>
        /\ rxtx' = IF i >= op.wr_offset /\ i < WrLength(op) THEN op.wr[i - op.wr_offset + 1] ELSE 255
    BY DEF Put
  <1>2. InAccess
    BY <1>1 DEF InAccess
  <1>3. /\ script # <<>> /\ Leg(job.ss, Current, op, then) /\ Current \in Accesses
        /\ job.ss \in Lines /\ i \in Nat /\ op.start \in BOOLEAN
        /\ TransferLen(op) = IF Current.rw = "read" THEN 3 ELSE IF op.start THEN 2 ELSE 1
        /\ ~op.start => Current.rw = "write"
    BY <1>2, Inside
  <1>4. i < TransferLen(op)
    BY <1>1, <1>2 DEF Placed
  <1>5. i \in 0 .. TransferLen(op) - 1
    BY <1>3, <1>4
  <1>6. rxtx' = Sent(Current)[Earlier(op) + i + 1]
    BY <1>1, <1>3, <1>5, LegBytes
  <1>7. Shifted = Earlier(op) + i /\ Shifted' = Earlier(op) + i
    BY <1>1 DEF Shifted, Rounds, Earlier
  <1>8. Shifted \in 0 .. 2
    BY <1>3, <1>4, <1>7 DEF Earlier
  <1>9. rxtx' \in Byte
    <2>1. /\ Sent(Current)[1] \in Byte /\ Sent(Current)[2] \in Byte
          /\ Sent(Current)[3] \in Byte
      BY <1>3, SentBytes
    <2>2. Shifted = 0 \/ Shifted = 1 \/ Shifted = 2
      BY <1>8
    <2>3. rxtx' = Sent(Current)[Shifted + 1]
      BY <1>6, <1>7
    <2>. QED
      BY <2>1, <2>2, <2>3
  <1>10. go = FALSE
    BY <1>1 DEF Placed, Typed
  <1>11. Placed'
    <2>1. rxtx' = Sent(Current)[Shifted + 1]
      BY <1>6, <1>7
    <2>2. (rxtx = Sent(Current)[Shifted + 1])'
      BY <1>7, <2>1 DEF Current
    <2>3. Leg(job.ss, Current, op, then)'
      BY <1>1, <1>3 DEF Current
    <2>4. i' < TransferLen(op)'
      BY <1>1, <1>4
    <2>. QED
      BY <1>1, <1>3, <1>10, <2>2, <2>3, <2>4 DEF Placed
  <1>12. Typed'
    <2>1. selected' \subseteq Lines /\ go' \in BOOLEAN
      BY <1>1 DEF Typed
    <2>. QED
      BY <1>1, <1>3, <1>9, <2>1, TypesStand
  <1>13. Still
    BY <1>1, <1>2, <1>7 DEF Still, InAccess, Touched
  <1>14. Fetched' = Fetched
    BY <1>1 DEF Fetched, Over
  <1>. QED
    BY <1>1, <1>11, <1>12, <1>13, <1>14, StillKeeps

(* GO (wb_spi.c:70-71).                                                    *)
LEMMA GoKeeps ==
  ASSUME IInv, Go, UNCHANGED <<mirror, script, job, jobs, kills>>
  PROVE  IInv'
  <1>. USE DEF IInv
  <1>1. /\ pc = "go" /\ pc' = "poll" /\ go' = TRUE
        /\ UNCHANGED <<op, then, i, selected, rxtx, frame, regs>>
    BY DEF Go
  <1>2. InAccess
    BY <1>1 DEF InAccess
  <1>3. /\ script # <<>> /\ Leg(job.ss, Current, op, then)
        /\ i \in Nat /\ op.start \in BOOLEAN
        /\ TransferLen(op) = IF Current.rw = "read" THEN 3 ELSE IF op.start THEN 2 ELSE 1
        /\ ~op.start => Current.rw = "write"
    BY <1>2, Inside
  <1>4. i < TransferLen(op) /\ rxtx = Sent(Current)[Shifted + 1]
    BY <1>1, <1>2 DEF Placed
  <1>5. Shifted = Earlier(op) + i /\ Shifted' = Earlier(op) + i
    BY <1>1 DEF Shifted, Rounds, Earlier
  <1>6. Shifted # 3
    BY <1>3, <1>4, <1>5 DEF Earlier
  <1>7. Placed'
    <2>1. (rxtx = Sent(Current)[Shifted + 1])'
      BY <1>1, <1>4, <1>5 DEF Current
    <2>2. Leg(job.ss, Current, op, then)'
      BY <1>1, <1>3 DEF Current
    <2>3. i' < TransferLen(op)'
      BY <1>1, <1>4
    <2>. QED
      BY <1>1, <1>3, <2>1, <2>2, <2>3 DEF Placed
  <1>8. Typed'
    <2>1. selected' \subseteq Lines /\ rxtx' \in Byte
      BY <1>1 DEF Typed
    <2>. QED
      BY <1>1, <1>3, <2>1, TypesStand
  <1>9. Still
    BY <1>1, <1>2, <1>5 DEF Still, InAccess, Touched
  <1>10. Fetched' = Fetched
    BY <1>1 DEF Fetched, Over
  <1>. QED
    BY <1>6, <1>7, <1>8, <1>9, <1>10, StillKeeps

(* The poll that finds GO clear ends the round (wb_spi.c:73-76).           *)
LEMMA PollKeeps ==
  ASSUME IInv, Poll, UNCHANGED <<mirror, script, job, jobs, kills>>
  PROVE  IInv'
  <1>. USE DEF IInv
  <1>1. /\ pc = "poll" /\ ~go
        /\ UNCHANGED <<op, then, go, selected, rxtx, frame, regs>>
        /\ IF Wanted(op, i) THEN pc' = "fetch" /\ i' = i
           ELSE i' = i + 1 /\ pc' = NextRound(op, i + 1)
    BY DEF Poll, AfterShift
  <1>2. InAccess
    BY <1>1 DEF InAccess
  <1>3. /\ script # <<>> /\ Leg(job.ss, Current, op, then) /\ Current \in Accesses
        /\ job.ss \in Lines /\ i \in Nat /\ op.start \in BOOLEAN
        /\ TransferLen(op) = IF Current.rw = "read" THEN 3 ELSE IF op.start THEN 2 ELSE 1
        /\ ~op.start => Current.rw = "write"
    BY <1>2, Inside
  <1>4. i < TransferLen(op)
    BY <1>1, <1>2 DEF Placed
  <1>5. i \in 0 .. TransferLen(op) - 1
    BY <1>3, <1>4
  <1>6. Wanted(op, i) <=> Current.rw = "read" /\ i = 2
    BY <1>3, <1>5, LegBytes
  <1>7. \/ pc' = "fetch" /\ i' = i /\ Current.rw = "read" /\ i = 2
        \/ /\ ~ (Current.rw = "read" /\ i = 2) /\ i' = i + 1
           /\ pc' = IF i + 1 < TransferLen(op) THEN "put" ELSE "deselect"
    BY <1>1, <1>6 DEF NextRound
  <1>8. Shifted = Earlier(op) + i + 1
    BY <1>1, <1>3 DEF Shifted, Rounds, Earlier
  <1>9. Shifted' = Earlier(op) + i + 1
    BY <1>1, <1>3, <1>7 DEF Shifted, Rounds, Earlier
  <1>10. Placed'
    <2>1. Leg(job.ss, Current, op, then)'
      BY <1>1, <1>3 DEF Current
    <2>2. /\ pc' \in {"put", "fetch"} => i' < TransferLen(op)'
          /\ pc' = "deselect" => i' = TransferLen(op)'
          /\ pc' = "fetch" => Current'.rw = "read" /\ i' = 2
          /\ pc' \in {"put", "fetch", "deselect"} /\ ~ go' /\ script' # <<>>
      BY <1>1, <1>3, <1>4, <1>7 DEF Current
    <2>. QED
      BY <2>1, <2>2 DEF Placed
  <1>11. Typed'
    <2>1. selected' \subseteq Lines /\ rxtx' \in Byte /\ go' \in BOOLEAN
      BY <1>1 DEF Typed
    <2>2. i' \in Nat /\ pc' \in {"put", "fetch", "deselect"}
      BY <1>3, <1>7
    <2>. QED
      BY <1>1, <2>1, <2>2, TypesStand
  <1>12. Still
    <2>1. pc' \in {"put", "fetch", "deselect"}
      BY <1>7
    <2>. QED
      BY <1>1, <1>2, <1>8, <1>9, <2>1 DEF Still, InAccess, Touched
  <1>13. job.what = "download" => Fetched' = Fetched
    <2>. SUFFICES ASSUME job.what = "download" PROVE Fetched' = Fetched
      OBVIOUS
    <2>1. Current.rw = "read"
      BY <1>3, UnderWay
    <2>2. TransferLen(op) = 3
      BY <1>3, <2>1
    <2>3. pc' # "deselect"
      BY <1>3, <1>4, <1>7, <2>1, <2>2
    <2>. QED
      BY <1>1, <2>3 DEF Fetched, Over
  <1>14. rxtx' = rxtx
    BY <1>1
  <1>. QED
    BY <1>1, <1>10, <1>11, <1>12, <1>13, <1>14, StillKeeps

(* The select register: a chip that was selected already goes on with its  *)
(* frame, any other begins one (wb_spi.c:55-57).                           *)
LEMMA SelectKeeps ==
  ASSUME IInv, Select, UNCHANGED <<mirror, script, job, jobs, kills>>
  PROVE  IInv'
  <1>. USE DEF IInv
  <1>1. /\ pc = "select" /\ selected' = {op.ss} /\ pc' = NextRound(op, 0)
        /\ frame' = IF op.ss \in selected THEN frame ELSE [frame EXCEPT ![op.ss] = <<>>]
        /\ UNCHANGED <<op, then, i, go, rxtx, regs>>
    BY DEF Select
  <1>2. InAccess
    BY <1>1 DEF InAccess
  <1>3. /\ script # <<>> /\ Leg(job.ss, Current, op, then) /\ Current \in Accesses
        /\ op.ss = job.ss /\ job.ss \in Lines /\ Over \in Nat
        /\ TransferLen(op) = IF Current.rw = "read" THEN 3 ELSE IF op.start THEN 2 ELSE 1
    BY <1>2, Inside
  <1>4. op.start /\ i = 0 /\ ~ Touched
    BY <1>1, <1>2 DEF Placed, Touched
  <1>5. pc' = "put"
    BY <1>1, <1>3 DEF NextRound
  <1>6. selected = IF InFirst THEN job.left ELSE {}
    BY <1>3, <1>4 DEF Framed
  <1>7. Shifted' = 0 /\ Shifted = 0
    BY <1>1, <1>4, <1>5 DEF Shifted, Rounds, Earlier
  <1>8. InFirst <=> Over = 0
    <2>1. Len(script) \in Nat /\ Len(job.order) \in Nat
      BY DEF Typed
    <2>. QED
      BY <1>3, <2>1 DEF InFirst, Over
  <1>9. Typed'
    <2>1. frame' \in [Lines -> Seq(Byte)]
      BY <1>1, <1>3 DEF Typed
    <2>. QED
      BY <1>1, <1>3, <1>5, <2>1 DEF Typed
  <1>10. Planned'
    BY PlanStands
  <1>11. Placed'
    <2>1. Leg(job.ss, Current, op, then)'
      BY <1>1, <1>3 DEF Current
    <2>2. i' < TransferLen(op)' /\ ~ go'
      BY <1>1, <1>3, <1>4 DEF Placed
    <2>. QED
      BY <1>3, <1>5, <2>1, <2>2 DEF Placed
  <1>12. Framed'
    <2>1. Touched' /\ selected' = {job.ss}
      BY <1>1, <1>3, <1>5 DEF Touched, InAccess
    <2>2. ASSUME Clean PROVE Len(frame'[job.ss]) = 0
      <3>1. job.ss \notin selected
        BY <1>6, <1>8, <2>2 DEF Clean
      <3>2. frame' = [frame EXCEPT ![job.ss] = <<>>]
        BY <1>1, <1>3, <3>1
      <3>3. frame'[job.ss] = <<>>
        BY <1>3, <3>2 DEF Typed
      <3>. QED
        BY <3>3
    <2>3. Clean' <=> Clean
      BY DEF Clean, Over
    <2>. QED
      BY <1>7, <2>1, <2>2, <2>3 DEF Framed
  <1>13. Taken3' = Over /\ Taken3 = Over /\ Fetched' = Over /\ Fetched = Over
    BY <1>1, <1>3, <1>5, <1>7 DEF Taken3, Fetched, Over
  <1>14. Agreed'
    <2>1. Fresh' <=> Fresh
      BY DEF Fresh
    <2>2. UNCHANGED <<regs, mirror, job>>
      BY <1>1
    <2>. QED
      BY <1>5, <1>13, <2>1, <2>2 DEF Agreed
  <1>15. Kept'
    BY <1>1, <1>13 DEF Kept, Fresh, Resetting
  <1>. QED
    BY <1>9, <1>10, <1>11, <1>12, <1>14, <1>15

(* The byte read goes into the copy (wb_spi.c:78-80). *)
LEMMA FetchKeeps ==
  ASSUME IInv, FetchStep
  PROVE  IInv'
  <1>. USE DEF IInv
  <1>1. /\ pc = "fetch" /\ i' = i + 1 /\ pc' = NextRound(op, i + 1)
        /\ UNCHANGED <<op, then, go, selected, rxtx, frame, regs>>
        /\ mirror' = [mirror EXCEPT ![job.ss][Current.reg] = rxtx]
        /\ UNCHANGED <<script, job, jobs, kills>>
    BY DEF FetchStep, Fetch, Current
  <1>2. InAccess
    BY <1>1 DEF InAccess
  <1>3. /\ script # <<>> /\ Leg(job.ss, Current, op, then) /\ Current \in Accesses
        /\ op.ss = job.ss /\ job.ss \in Lines /\ Over \in Nat
        /\ TransferLen(op) = IF Current.rw = "read" THEN 3 ELSE IF op.start THEN 2 ELSE 1
        /\ ~op.start => Current.rw = "write"
    BY <1>2, Inside
  <1>4. Current.rw = "read" /\ i = 2 /\ ~go
    BY <1>1, <1>2 DEF Placed
  <1>5. op.start
    BY <1>3, <1>4
  <1>6. pc' = "deselect" /\ i' = 3
    BY <1>1, <1>3, <1>4 DEF NextRound
  <1>7. Shifted = 3 /\ Shifted' = 3
    BY <1>1, <1>4, <1>5, <1>6 DEF Shifted, Rounds, Earlier
  <1>8. /\ Current.reg = job.order[Over + 1] /\ Current.reg \in ChipRegs[job.ss]
        /\ job.what \notin Uploads
    BY <1>3, <1>4, UnderWay
  <1>9. /\ \A l \in Lines : l # job.ss => mirror'[l] = mirror[l]
        /\ mirror'[job.ss] = [mirror[job.ss] EXCEPT ![Current.reg] = rxtx]
        /\ mirror' = [l \in Lines |-> mirror'[l]]
    <2>. DEFINE MM == [mirror[job.ss] EXCEPT ![Current.reg] = rxtx]
    <2>1. mirror' = [mirror EXCEPT ![job.ss] = MM]
      BY <1>1
    <2>. HIDE DEF MM
    <2>2. mirror = [l \in Lines |-> mirror[l]]
      BY DEF Typed
    <2>3. \A l \in Lines : l # job.ss => mirror'[l] = mirror[l]
      BY <2>1, <2>2
    <2>4. mirror'[job.ss] = MM
      BY <1>3, <2>1, <2>2
    <2>5. mirror' = [l \in Lines |-> mirror'[l]]
      BY <2>1, <2>2
    <2>. QED
      BY <2>3, <2>4, <2>5 DEF MM
  <1>10. mirror[job.ss] \in [ChipRegs[job.ss] -> Byte] /\ rxtx \in Byte
    BY <1>3 DEF Typed
  <1>11. /\ mirror'[job.ss] \in [ChipRegs[job.ss] -> Byte]
         /\ mirror'[job.ss][Current.reg] = rxtx
         /\ \A r \in ChipRegs[job.ss] : r # Current.reg => mirror'[job.ss][r] = mirror[job.ss][r]
    BY <1>8, <1>9, <1>10
  <1>12. Typed'
    <2>1. \A l \in Lines : mirror'[l] \in [ChipRegs[l] -> Byte]
      BY <1>9, <1>11 DEF Typed
    <2>. QED
      BY <1>1, <1>6, <1>9, <2>1 DEF Typed
  <1>13. Planned'
    BY <1>1, <1>8 DEF Planned, Over, Uploads
  <1>14. Placed'
    <2>1. Leg(job.ss, Current, op, then)'
      BY <1>1, <1>3 DEF Current
    <2>2. TransferLen(op)' = 3
      BY <1>1, <1>3, <1>4
    <2>. QED
      BY <1>1, <1>3, <1>4, <1>6, <2>1, <2>2 DEF Placed
  <1>15. Framed'
    <2>1. Touched /\ Touched'
      BY <1>1, <1>6 DEF Touched, InAccess
    <2>. QED
      BY <1>1, <1>7, <2>1 DEF Framed, Clean, Over, Current
  <1>16. Agreed'
    <2>0. Over' = Over
      BY <1>1 DEF Over
    <2>1. Fetched' = Over + 1 /\ Fetched = Over
      BY <1>1, <1>3, <1>6, <1>7, <2>0 DEF Fetched
    <2>2. ASSUME job.what = "download", NEW k \in 1 .. Over + 1, k > 1 \/ Fresh
          PROVE  regs[job.ss][job.order[k]] = mirror'[job.ss][job.order[k]]
      <3>1. CASE job.order[k] = Current.reg
        <4>1. Clean
          <5>1. CASE k = Over + 1
            BY <1>3, <2>2, <5>1 DEF Clean, Fresh
          <5>2. CASE k # Over + 1
            BY <1>3, <5>2 DEF Clean
          <5>. QED
            BY <5>1, <5>2
        <4>2. rxtx = regs[job.ss][Current.reg]
          BY <1>1, <1>7, <2>2, <4>1 DEF Agreed
        <4>. QED
          BY <1>11, <3>1, <4>2
      <3>2. CASE job.order[k] # Current.reg
        <4>1. k # Over + 1
          BY <1>8, <3>2
        <4>2. k \in 1 .. Fetched
          BY <1>3, <2>1, <4>1
        <4>3. regs[job.ss][job.order[k]] = mirror[job.ss][job.order[k]]
          BY <2>2, <4>2 DEF Agreed
        <4>4. k \in 1 .. Len(job.order)
          BY <1>3, UnderWay
        <4>5. job.order[k] \in ChipRegs[job.ss]
          BY <4>4 DEF Planned
        <4>. QED
          BY <1>11, <3>2, <4>3, <4>5
      <3>. QED
        BY <3>1, <3>2
    <2>3. Fresh' <=> Fresh
      BY <1>1 DEF Fresh
    <2>. QED
      BY <1>1, <1>6, <1>8, <2>1, <2>2, <2>3 DEF Agreed
  <1>17. Kept'
    BY <1>1, <1>8 DEF Kept, Fresh
  <1>. QED
    BY <1>12, <1>13, <1>14, <1>15, <1>16, <1>17

(* The end of a transfer, and of an access (wb_spi.c:87-90). *)
LEMMA DeselectKeeps ==
  ASSUME IInv, Deselect, script' = (IF then = <<>> THEN Tail(script) ELSE script),
         UNCHANGED <<mirror, job, jobs, kills>>
  PROVE  IInv'
  <1>. USE DEF IInv
  <1>1. /\ pc = "deselect" /\ selected' = IF op.stop THEN {} ELSE selected
        /\ IF then = <<>> THEN pc' = "idle" /\ UNCHANGED <<op, then>>
           ELSE pc' = "ctrl" /\ op' = Head(then) /\ then' = Tail(then)
        /\ UNCHANGED <<i, go, rxtx, frame, regs>>
    BY DEF Deselect
  <1>2. InAccess
    BY <1>1 DEF InAccess
  <1>3. /\ script # <<>> /\ Leg(job.ss, Current, op, then) /\ Current \in Accesses
        /\ op.ss = job.ss /\ job.ss \in Lines /\ Over \in Nat /\ op.start \in BOOLEAN
        /\ TransferLen(op) = IF Current.rw = "read" THEN 3 ELSE IF op.start THEN 2 ELSE 1
        /\ ~op.start => Current.rw = "write"
    BY <1>2, Inside
  <1>4. i = TransferLen(op) /\ ~go
    BY <1>1, <1>2 DEF Placed
  <1>5. Touched /\ selected = {job.ss}
    BY <1>1 DEF Touched, InAccess, Framed
  <1>6. Shifted = Earlier(op) + TransferLen(op)
    BY <1>1, <1>4 DEF Shifted, Rounds, Earlier
  <1>7. CASE then = <<>>
    <2>1. op.stop /\ (Current.rw = "read" \/ ~op.start)
      BY <1>3, <1>7, LegKinds
    <2>2. /\ pc' = "idle" /\ selected' = {} /\ script' = Tail(script)
          /\ UNCHANGED <<op, then, i, go, rxtx, frame, regs>>
      BY <1>1, <1>7, <2>1
    <2>3. Shifted = 3
      BY <1>3, <1>6, <2>1 DEF Earlier
    <2>4. /\ script \in Seq(Accesses) /\ script' \in Seq(Accesses)
          /\ Len(script) \in Nat /\ Len(script') = Len(script) - 1
          /\ \A k \in 1 .. Len(script') : script'[k] = script[k + 1]
          /\ Len(job.order) \in Nat
      <3>1. script \in Seq(Accesses) /\ Len(job.order) \in Nat
        BY DEF Typed
      <3>. QED
        BY <1>3, <2>2, <3>1
    <2>5. Over' = Over + 1
      <3>1. Len(script) \in Nat /\ Len(script') = Len(script) - 1 /\ Len(job.order) \in Nat
        BY <2>4
      <3>2. Over' = Len(job.order) - Len(script')
        BY DEF Over
      <3>3. Over = Len(job.order) - Len(script)
        BY DEF Over
      <3>. QED
        BY <3>1, <3>2, <3>3
    <2>6. Typed'
      BY <2>2, <2>4 DEF Typed
    <2>7. Planned'
      <3>1. ASSUME NEW k \in 1 .. Len(script')
            PROVE  /\ k + 1 \in 1 .. Len(script) /\ script'[k] = script[k + 1]
                   /\ Over' + k = Over + (k + 1)
        BY <1>3, <2>4, <2>5, <3>1
      <3>2. \A k \in 1 .. Len(script') :
              LET a == script'[k]
                  r == job.order[Over' + k]
              IN /\ a.reg = r
                 /\ job.what \in Uploads => a.rw = "write" /\ a.byte = mirror[job.ss][r]
                 /\ job.what = "download" => a.rw = "read"
        <4>. SUFFICES ASSUME NEW k \in 1 .. Len(script')
                      PROVE  LET a == script'[k]
                                 r == job.order[Over' + k]
                             IN /\ a.reg = r
                                /\ job.what \in Uploads =>
                                     a.rw = "write" /\ a.byte = mirror[job.ss][r]
                                /\ job.what = "download" => a.rw = "read"
          OBVIOUS
        <4>1. k + 1 \in 1 .. Len(script) /\ script'[k] = script[k + 1]
              /\ Over' + k = Over + (k + 1)
          BY <3>1
        <4>2. LET a == script[k + 1]
                  r == job.order[Over + (k + 1)]
              IN /\ a.reg = r
                 /\ job.what \in Uploads => a.rw = "write" /\ a.byte = mirror[job.ss][r]
                 /\ job.what = "download" => a.rw = "read"
          BY <4>1 DEF Planned
        <4>. QED
          BY <4>1, <4>2
      <3>3. Len(script') <= Len(job.order)
        BY <2>4 DEF Planned
      <3>. QED
        BY <3>2, <3>3 DEF Planned
    <2>8. Placed'
      BY <1>4, <2>2 DEF Placed, InAccess
    <2>9. Framed'
      <3>1. ~ Touched'
        BY <2>2 DEF Touched, InAccess
      <3>2. ~ InFirst'
        BY <1>3, <2>4, <2>5 DEF InFirst, Over
      <3>. QED
        BY <2>2, <3>1, <3>2 DEF Framed
    <2>10. Taken3' = Taken3 /\ Fetched' = Fetched
      BY <1>1, <1>2, <1>3, <2>2, <2>3, <2>5 DEF Taken3, Fetched, InAccess
    <2>11. Agreed'
      <3>1. Fresh' <=> Fresh
        BY DEF Fresh
      <3>. QED
        BY <2>2, <2>10, <3>1 DEF Agreed
    <2>12. Kept'
      BY <2>2, <2>10 DEF Kept, Fresh, Resetting
    <2>. QED
      BY <2>6, <2>7, <2>8, <2>9, <2>11, <2>12
  <1>8. CASE then # <<>>
    <2>1. /\ ~op.stop /\ op.start /\ Current.rw = "write"
          /\ then \in Seq(Op) /\ Head(then) \in Op /\ Tail(then) \in Seq(Op)
          /\ Leg(job.ss, Current, Head(then), Tail(then)) /\ ~ Head(then).start
      BY <1>3, <1>8, LegKinds
    <2>2. /\ pc' = "ctrl" /\ op' = Head(then) /\ then' = Tail(then) /\ selected' = selected
          /\ UNCHANGED <<i, go, rxtx, frame, regs, script>>
      BY <1>1, <1>8, <2>1
    <2>3. TransferLen(op) = 2
      BY <1>3, <2>1
    <2>4. Shifted = 2 /\ Shifted' = 2
      <3>1. Shifted = 2
        BY <1>6, <2>1, <2>3 DEF Earlier
      <3>2. ~ op'.start
        BY <2>1, <2>2
      <3>3. Shifted' = 2
        BY <2>2, <3>2 DEF Shifted, Rounds, Earlier
      <3>. QED
        BY <3>1, <3>3
    <2>5. Typed'
      BY <2>1, <2>2 DEF Typed
    <2>6. Planned'
      BY <2>2, PlanStands
    <2>7. Placed'
      <3>1. Leg(job.ss, Current, op, then)'
        BY <2>1, <2>2 DEF Current
      <3>. QED
        BY <1>3, <1>4, <2>2, <3>1 DEF Placed
    <2>8. Framed'
      <3>1. Touched'
        BY <2>1, <2>2 DEF Touched, InAccess
      <3>. QED
        BY <1>5, <2>2, <2>4, <3>1 DEF Framed, Clean, Over, Current
    <2>9. Over' = Over
      BY <2>2 DEF Over
    <2>10. Taken3' = Taken3 /\ Fetched' = Fetched
      BY <1>3, <2>4, <2>9 DEF Taken3, Fetched
    <2>11. Agreed'
      <3>1. Fresh' <=> Fresh
        BY DEF Fresh
      <3>. QED
        BY <2>2, <2>10, <3>1 DEF Agreed
    <2>12. Kept'
      BY <2>2, <2>10 DEF Kept, Fresh, Resetting
    <2>. QED
      BY <2>5, <2>6, <2>7, <2>8, <2>11, <2>12
  <1>. QED
    BY <1>7, <1>8

(* The next access of the call (pghal_spi.c:38-45). *)
LEMMA BeginKeeps ==
  ASSUME IInv, Begin
  PROVE  IInv'
  <1>. USE DEF IInv
  <1>1. /\ script # <<>> /\ pc = "idle" /\ pc' = "ctrl"
        /\ op' = Head(Transfers(job.ss, Current)) /\ then' = Tail(Transfers(job.ss, Current))
        /\ UNCHANGED <<i, go, selected, rxtx, frame, regs>>
        /\ UNCHANGED <<mirror, script, job, jobs, kills>>
    BY DEF Begin, Access, Current
  <1>2. Current \in Accesses /\ job.ss \in Lines
    BY <1>1, UnderWay DEF Typed
  <1>3. Leg(job.ss, Current, op', then') /\ op'.start
    BY <1>1, <1>2, FirstLeg
  <1>4. op' \in Op /\ then' \in Seq(Op)
    BY <1>2, <1>3, LegKinds
  <1>5. Typed'
    BY <1>1, <1>4 DEF Typed
  <1>6. Planned'
    BY <1>1, PlanStands
  <1>7. Placed'
    <2>1. Leg(job.ss, Current, op, then)'
      BY <1>1, <1>3 DEF Current
    <2>. QED
      BY <1>1, <2>1 DEF Placed
  <1>8. Framed'
    <2>1. ~ Touched /\ ~ Touched'
      BY <1>1, <1>3 DEF Touched, InAccess
    <2>. QED
      BY <1>1, <2>1 DEF Framed, InFirst
  <1>9. Shifted' = 0
    BY <1>1, <1>3 DEF Shifted, Rounds, Earlier
  <1>10. Over' = Over
    BY <1>1 DEF Over
  <1>11. Taken3' = Taken3 /\ Fetched' = Fetched
    BY <1>1, <1>9, <1>10 DEF Taken3, Fetched, InAccess
  <1>12. Agreed'
    <2>1. Fresh' <=> Fresh
      BY <1>1 DEF Fresh
    <2>. QED
      BY <1>1, <1>11, <2>1 DEF Agreed
  <1>13. Kept'
    BY <1>1, <1>11 DEF Kept, Fresh, Resetting
  <1>. QED
    BY <1>5, <1>6, <1>7, <1>8, <1>12, <1>13

---------------------------------------------------------------------------
(* The core and the chips. *)

(* What the chip of the access takes of its last byte: a write puts it in  *)
(* its register, or resets the chip, a read changes nothing and shows the  *)
(* register.                                                               *)
LEMMA LastByte ==
  ASSUME Typed, NEW a \in Accesses, NEW l \in Lines, a.reg \in ChipRegs[l],
         Len(frame[l]) = 2, frame[l][1] = Sent(a)[1], frame[l][2] = Sent(a)[2]
  PROVE  /\ a.rw = "write" =>
              Taken(l, a.byte) = IF Resets(a.reg, a.byte)
                                   THEN [r \in ChipRegs[l] |-> IF r = 0 THEN a.byte ELSE 0]
                                   ELSE [regs[l] EXCEPT ![a.reg] = a.byte]
         /\ a.rw = "read" => \A byte : Taken(l, byte) = regs[l]
         /\ a.rw = "read" => Answer(l) = regs[l][a.reg]
  <1>1. a.rw \in {"write", "read"} /\ a.reg \in 0 .. 255 /\ frame[l][2] = a.reg
    BY SentBytes
  <1>2. CASE a.rw = "write"
    <2>1. frame[l][1] = 0
      BY <1>2, SentBytes
    <2>2. ~ IsRead(frame[l][1]) /\ AddressIn(frame[l]) = a.reg
      BY <1>1, <2>1 DEF IsRead, AddressIn
    <2>. QED
      BY <1>2, <2>2 DEF Taken
  <1>3. CASE a.rw = "read"
    <2>1. frame[l][1] = 128
      BY <1>3, SentBytes
    <2>2. IsRead(frame[l][1]) /\ AddressIn(frame[l]) = a.reg
      BY <1>1, <2>1 DEF IsRead, AddressIn
    <2>. QED
      BY <1>3, <2>2 DEF Taken, Answer
  <1>. QED
    BY <1>1, <1>2, <1>3

(* Whatever it has been sent, a chip holds and answers bytes. *)
LEMMA ChipTypes ==
  ASSUME Typed, NEW l \in Lines, NEW byte \in Byte
  PROVE  Taken(l, byte) \in [ChipRegs[l] -> Byte] /\ Answer(l) \in Byte
  <1>1. regs[l] \in [ChipRegs[l] -> Byte] /\ 0 \in Byte
    BY DEF Typed, Byte
  <1>2. CASE AddressIn(frame[l]) \in ChipRegs[l]
    <2>. DEFINE a == AddressIn(frame[l])
    <2>1. regs[l][a] \in Byte /\ [regs[l] EXCEPT ![a] = byte] \in [ChipRegs[l] -> Byte]
      BY <1>1, <1>2
    <2>2. [r \in ChipRegs[l] |-> IF r = 0 THEN byte ELSE 0] \in [ChipRegs[l] -> Byte]
      BY <1>1
    <2>. QED
      BY <1>1, <2>1, <2>2 DEF Taken, Answer
  <1>3. CASE AddressIn(frame[l]) \notin ChipRegs[l]
    BY <1>1, <1>3 DEF Taken, Answer
  <1>. QED
    BY <1>2, <1>3

(* A shift while a transfer polls: only the chip of the call is selected,  *)
(* and it is sent the next byte of the access.                             *)
LEMMA ShiftInAccess ==
  ASSUME IInv, Shift, pc = "poll", UNCHANGED <<mirror, script, job, jobs, kills>>
  PROVE  /\ InAccess /\ Touched /\ InAccess' /\ Touched' /\ pc' = pc /\ go /\ ~go'
         /\ Shifted \in 0 .. 2 /\ Shifted' = Shifted + 1
         /\ script # <<>> /\ Current \in Accesses /\ job.ss \in Lines /\ Over \in Nat
         /\ rxtx = Sent(Current)[Shifted + 1]
         /\ selected = {job.ss} /\ rxtx' = Answer(job.ss)
         /\ frame' = [l \in Lines |-> IF l = job.ss THEN Append(frame[l], rxtx) ELSE frame[l]]
         /\ regs' = [l \in Lines |-> IF l = job.ss THEN Taken(l, rxtx) ELSE regs[l]]
         /\ Clean => regs'[job.ss] =
              IF Shifted = 2 /\ Current.rw = "write"
              THEN IF Resets(Current.reg, Current.byte)
                   THEN [r \in ChipRegs[job.ss] |-> IF r = 0 THEN Current.byte ELSE 0]
                   ELSE [regs[job.ss] EXCEPT ![Current.reg] = Current.byte]
              ELSE regs[job.ss]
         /\ Clean /\ Shifted = 2 /\ Current.rw = "read" =>
              rxtx' = regs[job.ss][Current.reg]
  <1>. USE DEF IInv
  <1>1. go /\ go' = FALSE /\ UNCHANGED <<pc, op, then, i, selected>>
    BY DEF Shift
  <1>2. InAccess /\ InAccess' /\ Touched /\ Touched'
    BY <1>1 DEF InAccess, Touched
  <1>3. /\ script # <<>> /\ Current \in Accesses /\ job.ss \in Lines /\ Over \in Nat
        /\ TransferLen(op) = IF Current.rw = "read" THEN 3 ELSE IF op.start THEN 2 ELSE 1
        /\ ~op.start => Current.rw = "write"
        /\ i \in Nat /\ op.start \in BOOLEAN
    BY <1>2, Inside
  <1>4. i < TransferLen(op) /\ rxtx = Sent(Current)[Shifted + 1]
    BY <1>1, <1>2 DEF Placed
  <1>5. Shifted = Earlier(op) + i /\ Shifted' = Earlier(op) + i + 1
    BY <1>1, <1>3 DEF Shifted, Rounds, Earlier
  <1>6. Shifted \in 0 .. 2 /\ Shifted' = Shifted + 1
    BY <1>3, <1>4, <1>5 DEF Earlier
  <1>7. selected = {job.ss}
    BY <1>2 DEF Framed
  <1>8. rxtx' = Answer(job.ss)
    <2>1. selected # {}
      BY <1>7
    <2>2. \E l \in selected : rxtx' = Answer(l)
      BY <2>1 DEF Shift
    <2>3. \A l \in selected : l = job.ss
      BY <1>7
    <2>. QED
      BY <2>2, <2>3
  <1>9. /\ frame' = [l \in Lines |-> IF l = job.ss THEN Append(frame[l], rxtx) ELSE frame[l]]
        /\ regs' = [l \in Lines |-> IF l = job.ss THEN Taken(l, rxtx) ELSE regs[l]]
    <2>1. \A l \in Lines : l \in selected <=> l = job.ss
      BY <1>7
    <2>2. /\ frame' = [l \in Lines |-> IF l \in selected THEN Append(frame[l], rxtx) ELSE frame[l]]
          /\ regs' = [l \in Lines |-> IF l \in selected THEN Taken(l, rxtx) ELSE regs[l]]
      BY DEF Shift
    <2>. QED
      BY <2>1, <2>2
  <1>10. regs'[job.ss] = Taken(job.ss, rxtx)
    BY <1>3, <1>9
  <1>11. ASSUME Clean
         PROVE  /\ Len(frame[job.ss]) = Shifted
                /\ \A k \in 1 .. Shifted : frame[job.ss][k] = Sent(Current)[k]
    BY <1>2, <1>11 DEF Framed
  <1>12. CASE Clean /\ Shifted # 2
    <2>1. Taken(job.ss, rxtx) = regs[job.ss]
      BY <1>11, <1>12 DEF Taken
    <2>. QED
      BY <1>1, <1>2, <1>3, <1>4, <1>6, <1>7, <1>8, <1>9, <1>10, <1>12, <2>1
  <1>13. CASE Clean /\ Shifted = 2
    <2>1. Len(frame[job.ss]) = 2 /\ frame[job.ss][1] = Sent(Current)[1]
          /\ frame[job.ss][2] = Sent(Current)[2]
      BY <1>11, <1>13
    <2>2. Current.reg \in ChipRegs[job.ss]
      BY <1>3, UnderWay
    <2>3. /\ Current.rw = "write" =>
               Taken(job.ss, Current.byte) =
                 IF Resets(Current.reg, Current.byte)
                   THEN [r \in ChipRegs[job.ss] |-> IF r = 0 THEN Current.byte ELSE 0]
                   ELSE [regs[job.ss] EXCEPT ![Current.reg] = Current.byte]
          /\ Current.rw = "read" => Taken(job.ss, rxtx) = regs[job.ss]
          /\ Current.rw = "read" => Answer(job.ss) = regs[job.ss][Current.reg]
      BY <1>3, <2>1, <2>2, LastByte
    <2>4. Current.rw = "write" => rxtx = Current.byte
      BY <1>3, <1>4, <1>13, SentBytes
    <2>5. Current.rw \in {"write", "read"}
      BY <1>3, SentBytes
    <2>6. regs'[job.ss] =
            IF Shifted = 2 /\ Current.rw = "write"
            THEN IF Resets(Current.reg, Current.byte)
                 THEN [r \in ChipRegs[job.ss] |-> IF r = 0 THEN Current.byte ELSE 0]
                 ELSE [regs[job.ss] EXCEPT ![Current.reg] = Current.byte]
            ELSE regs[job.ss]
      BY <1>10, <1>13, <2>3, <2>4, <2>5
    <2>. QED
      BY <1>1, <1>2, <1>3, <1>4, <1>6, <1>7, <1>8, <1>9, <1>13, <2>3, <2>6
  <1>14. CASE ~ Clean
    BY <1>1, <1>2, <1>3, <1>4, <1>6, <1>7, <1>8, <1>9, <1>14
  <1>. QED
    BY <1>12, <1>13, <1>14

(* The plan of a call tells where a reset bit may be written: in the first *)
(* access only.                                                            *)
LEMMA ResetIsFirst ==
  ASSUME Typed, Planned, Placed, script # <<>>, job.what \in Uploads
  PROVE  /\ Resets(Current.reg, Current.byte) => Over = 0 /\ Resetting
         /\ Over = 0 /\ Resetting => Resets(Current.reg, Current.byte) /\ Current.reg = 0
  <1>1. /\ Over \in Nat /\ Over < Len(job.order) /\ Len(job.order) \in Nat
        /\ Current.reg = job.order[Over + 1] /\ Current.byte = mirror[job.ss][Current.reg]
    BY UnderWay
  <1>2. \A k \in 2 .. Len(job.order) : job.order[k] # 0
    BY DEF Planned
  <1>3. job.range = {job.order[k] : k \in 1 .. Len(job.order)}
    BY DEF Planned
  <1>4. ASSUME Resets(Current.reg, Current.byte)
        PROVE  Over = 0 /\ Resetting
    <2>1. Current.reg = 0
      BY <1>4 DEF Resets
    <2>2. Over = 0
      <3>. SUFFICES ASSUME Over # 0 PROVE FALSE
        OBVIOUS
      <3>1. Over + 1 \in 2 .. Len(job.order)
        BY <1>1
      <3>2. job.order[Over + 1] # 0
        BY <1>2, <3>1
      <3>. QED
        BY <1>1, <2>1, <3>2
    <2>3. 0 \in job.range
      <3>1. Over + 1 \in 1 .. Len(job.order)
        BY <1>1
      <3>2. job.order[Over + 1] = 0
        BY <1>1, <2>1
      <3>. QED
        BY <1>3, <3>1, <3>2
    <2>. QED
      BY <1>1, <1>4, <2>1, <2>2, <2>3 DEF Resetting
  <1>5. ASSUME Over = 0, Resetting
        PROVE  Resets(Current.reg, Current.byte) /\ Current.reg = 0
    <2>1. PICK k \in 1 .. Len(job.order) : job.order[k] = 0
      BY <1>3, <1>5 DEF Resetting
    <2>2. k = 1
      BY <1>1, <1>2, <2>1
    <2>3. Current.reg = 0
      BY <1>1, <1>5, <2>1, <2>2
    <2>. QED
      BY <1>1, <1>5, <2>3 DEF Resetting
  <1>. QED
    BY <1>4, <1>5

(* A byte shifted, with or without a program that waits for it.            *)
LEMMA ShiftKeeps ==
  ASSUME IInv, Shift, UNCHANGED <<mirror, script, job, jobs, kills>>
  PROVE  IInv'
  <1>. USE DEF IInv
  <1>1. UNCHANGED <<pc, op, then, i, selected>> /\ go /\ ~go' /\ go' \in BOOLEAN
    BY DEF Shift
  <1>2. pc \in {"poll", "dead"}
    BY <1>1 DEF Placed
  <1>3. Planned'
    BY PlanStands
  <1>4. Typed'
    <2>1. rxtx \in Byte /\ selected \subseteq Lines /\ 255 \in Byte
      BY DEF Typed, Byte
    <2>2. rxtx' \in Byte
      <3>1. \A l \in selected : Answer(l) \in Byte
        BY <2>1, ChipTypes
      <3>2. (selected = {} /\ rxtx' = 255) \/ \E l \in selected : rxtx' = Answer(l)
        BY DEF Shift
      <3>. QED
        BY <2>1, <3>1, <3>2
    <2>3. frame' \in [Lines -> Seq(Byte)]
      <3>1. \A l \in Lines : frame[l] \in Seq(Byte)
        BY DEF Typed
      <3>2. \A l \in Lines : Append(frame[l], rxtx) \in Seq(Byte)
        BY <2>1, <3>1
      <3>3. frame' = [l \in Lines |-> IF l \in selected THEN Append(frame[l], rxtx) ELSE frame[l]]
        BY DEF Shift
      <3>. QED
        BY <3>1, <3>2, <3>3
    <2>4. regs' = [l \in Lines |-> regs'[l]] /\ \A l \in Lines : regs'[l] \in [ChipRegs[l] -> Byte]
      <3>1. regs' = [l \in Lines |-> IF l \in selected THEN Taken(l, rxtx) ELSE regs[l]]
        BY DEF Shift
      <3>2. \A l \in Lines : Taken(l, rxtx) \in [ChipRegs[l] -> Byte]
        BY <2>1, ChipTypes
      <3>3. \A l \in Lines : regs[l] \in [ChipRegs[l] -> Byte]
        BY DEF Typed
      <3>. QED
        BY <3>1, <3>2, <3>3
    <2>. QED
      BY <1>1, <2>2, <2>3, <2>4 DEF Typed
  <1>5. CASE pc = "dead"
    <2>1. script = <<>> /\ job.what = "none" /\ pc' = "dead"
      BY <1>1, <1>5 DEF Placed
    <2>2. Placed'
      BY <1>1, <2>1 DEF Placed, InAccess
    <2>3. Framed' /\ Agreed' /\ Kept'
      BY <2>1 DEF Framed, Agreed, Kept, Touched, InAccess, Uploads
    <2>. QED
      BY <1>3, <1>4, <2>2, <2>3
  <1>6. CASE pc = "poll"
    <2>1. /\ InAccess /\ Touched /\ InAccess' /\ Touched' /\ pc' = pc
          /\ Shifted \in 0 .. 2 /\ Shifted' = Shifted + 1
          /\ script # <<>> /\ Current \in Accesses /\ job.ss \in Lines /\ Over \in Nat
          /\ rxtx = Sent(Current)[Shifted + 1]
          /\ selected = {job.ss}
          /\ frame' = [l \in Lines |-> IF l = job.ss THEN Append(frame[l], rxtx) ELSE frame[l]]
          /\ regs' = [l \in Lines |-> IF l = job.ss THEN Taken(l, rxtx) ELSE regs[l]]
      BY <1>6, ShiftInAccess
    <2>2. Clean => regs'[job.ss] =
            IF Shifted = 2 /\ Current.rw = "write"
            THEN IF Resets(Current.reg, Current.byte)
                 THEN [r \in ChipRegs[job.ss] |-> IF r = 0 THEN Current.byte ELSE 0]
                 ELSE [regs[job.ss] EXCEPT ![Current.reg] = Current.byte]
            ELSE regs[job.ss]
      BY <1>6, ShiftInAccess
    <2>3. Clean /\ Shifted = 2 /\ Current.rw = "read" => rxtx' = regs[job.ss][Current.reg]
      BY <1>6, ShiftInAccess
    <2>4. Over' = Over /\ Current' = Current /\ (Clean' <=> Clean) /\ (Fresh' <=> Fresh)
          /\ (Resetting' <=> Resetting)
      BY DEF Over, Current, Clean, Fresh, Resetting
    <2>5. Placed'
      <3>1. Leg(job.ss, Current, op, then)'
        BY <1>1, <2>1 DEF Placed, Current
      <3>2. i' < TransferLen(op)'
        BY <1>1, <1>6, <2>1 DEF Placed
      <3>. QED
        BY <1>1, <1>6, <2>1, <3>1, <3>2 DEF Placed
    <2>6. Framed'
      <3>1. ASSUME Clean
            PROVE  /\ Len(frame'[job.ss]) = Shifted'
                   /\ \A k \in 1 .. Shifted' : frame'[job.ss][k] = Sent(Current)[k]
        <4>1. /\ Len(frame[job.ss]) = Shifted
              /\ \A k \in 1 .. Shifted : frame[job.ss][k] = Sent(Current)[k]
          BY <2>1, <3>1 DEF Framed
        <4>2. frame[job.ss] \in Seq(Byte) /\ rxtx \in Byte
          BY <2>1 DEF Typed
        <4>3. frame'[job.ss] = Append(frame[job.ss], rxtx)
          BY <2>1
        <4>4. /\ Len(frame'[job.ss]) = Shifted + 1
              /\ \A k \in 1 .. Shifted : frame'[job.ss][k] = frame[job.ss][k]
              /\ frame'[job.ss][Shifted + 1] = rxtx
          BY <4>1, <4>2, <4>3
        <4>. QED
          BY <2>1, <4>1, <4>4
      <3>2. Touched' /\ selected' = {job.ss}
        BY <1>1, <2>1
      <3>. QED
        BY <2>4, <3>1, <3>2 DEF Framed
    <2>7. /\ Taken3 = Over /\ Taken3' = Over + (IF Shifted = 2 THEN 1 ELSE 0)
          /\ Fetched = Over /\ Fetched' = Over
      BY <1>6, <2>1, <2>4 DEF Taken3, Fetched
    <2>8. /\ Over < Len(job.order) /\ Len(job.order) \in Nat
          /\ Current.reg = job.order[Over + 1] /\ Current.reg \in ChipRegs[job.ss]
          /\ job.what \in Uploads => Current.rw = "write" /\ Current.byte = mirror[job.ss][Current.reg]
          /\ job.what = "download" => Current.rw = "read"
      BY <2>1, UnderWay
    <2>9. regs[job.ss] \in [ChipRegs[job.ss] -> Byte]
      BY <2>1 DEF Typed
    <2>10. \A k \in 1 .. Len(job.order) : job.order[k] \in ChipRegs[job.ss]
      BY DEF Planned
    <2>11. Agreed'
      <3>1. ASSUME job.what \in Uploads, NEW k \in 1 .. Taken3', k > 1 \/ Fresh
            PROVE  regs'[job.ss][job.order[k]] = mirror[job.ss][job.order[k]]
        <4>1. Clean
          BY <2>1, <2>7, <3>1 DEF Clean, Fresh
        <4>2. k \in 1 .. Len(job.order)
          BY <2>1, <2>7, <2>8
        <4>3. job.order[k] \in ChipRegs[job.ss]
          BY <2>10, <4>2
        <4>4. k <= Over => regs[job.ss][job.order[k]] = mirror[job.ss][job.order[k]]
          BY <2>1, <2>7, <3>1 DEF Agreed
        <4>5. CASE Shifted # 2
          BY <2>1, <2>2, <2>7, <4>1, <4>4, <4>5
        <4>6. CASE Shifted = 2 /\ Resets(Current.reg, Current.byte)
          <5>1. Over = 0 /\ Current.reg = 0
            BY <2>1, <3>1, <4>6, ResetIsFirst DEF Resets
          <5>2. k = 1
            BY <2>7, <5>1
          <5>3. regs'[job.ss][0] = Current.byte
            BY <2>2, <2>8, <3>1, <4>1, <4>6, <5>1
          <5>. QED
            BY <2>8, <3>1, <5>1, <5>2, <5>3
        <4>7. CASE Shifted = 2 /\ ~ Resets(Current.reg, Current.byte)
          <5>1. regs'[job.ss] = [regs[job.ss] EXCEPT ![Current.reg] = Current.byte]
            BY <2>2, <2>8, <3>1, <4>1, <4>7
          <5>2. CASE job.order[k] = Current.reg
            BY <2>8, <2>9, <3>1, <5>1, <5>2
          <5>3. CASE job.order[k] # Current.reg
            <6>1. k <= Over
              BY <2>1, <2>7, <2>8, <5>3
            <6>. QED
              BY <2>9, <4>3, <4>4, <5>1, <5>3, <6>1
          <5>. QED
            BY <5>2, <5>3
        <4>. QED
          BY <4>5, <4>6, <4>7
      <3>2. ASSUME job.what = "download", Clean
            PROVE  regs'[job.ss] = regs[job.ss]
        BY <2>2, <2>8, <3>2
      <3>3. ASSUME job.what = "download", NEW k \in 1 .. Over, k > 1 \/ Fresh
            PROVE  regs'[job.ss][job.order[k]] = mirror[job.ss][job.order[k]]
        <4>1. Clean
          BY <2>1, <3>3 DEF Clean, Fresh
        <4>. QED
          BY <2>7, <3>2, <3>3, <4>1 DEF Agreed
      <3>4. ASSUME job.what = "download", Clean, Shifted' = 3
            PROVE  rxtx' = regs'[job.ss][Current.reg]
        BY <2>1, <2>3, <2>8, <3>2, <3>4
      <3>. QED
        BY <2>4, <2>7, <3>1, <3>3, <3>4 DEF Agreed
    <2>12. Kept'
      <3>. SUFFICES ASSUME Fresh PROVE Kept'
        BY <2>4 DEF Kept
      <3>1. Clean
        BY DEF Clean, Fresh
      <3>2. ASSUME job.what \in Uploads, NEW l \in Lines, NEW r \in ChipRegs[l],
                   l # job.ss \/ (\A k \in 1 .. Taken3' : job.order[k] # r)
            PROVE  regs'[l][r] = IF l = job.ss /\ Taken3' > 0 /\ Resetting THEN 0 ELSE job.was[l][r]
        <4>1. l # job.ss \/ (\A k \in 1 .. Taken3 : job.order[k] # r)
          BY <2>1, <2>7, <3>2
        <4>2. regs[l][r] = IF l = job.ss /\ Over > 0 /\ Resetting THEN 0 ELSE job.was[l][r]
          BY <2>7, <3>2, <4>1 DEF Kept
        <4>3. CASE l # job.ss
          BY <2>1, <4>2, <4>3
        <4>4. CASE l = job.ss /\ Shifted # 2
          BY <2>1, <2>2, <2>7, <3>1, <4>2, <4>4
        <4>5. CASE l = job.ss /\ Shifted = 2 /\ Resets(Current.reg, Current.byte)
          <5>1. Over = 0 /\ Resetting /\ Current.reg = 0
            BY <2>1, <3>2, <4>5, ResetIsFirst DEF Resets
          <5>2. r # 0
            BY <2>7, <2>8, <3>2, <4>5, <5>1
          <5>3. regs'[l][r] = 0
            BY <2>2, <2>8, <3>1, <3>2, <4>5, <5>2
          <5>. QED
            BY <2>7, <4>5, <5>1, <5>3
        <4>6. CASE l = job.ss /\ Shifted = 2 /\ ~ Resets(Current.reg, Current.byte)
          <5>1. ~ (Over = 0 /\ Resetting)
            BY <2>1, <3>2, <4>6, ResetIsFirst
          <5>2. r # Current.reg
            <6>1. Over + 1 \in 1 .. Taken3'
              BY <2>1, <2>7, <4>6
            <6>. QED
              BY <2>8, <3>2, <4>6, <6>1
          <5>3. regs'[job.ss] = [regs[job.ss] EXCEPT ![Current.reg] = Current.byte]
            BY <2>2, <2>8, <3>1, <3>2, <4>6
          <5>4. regs'[l][r] = regs[l][r]
            BY <2>9, <3>2, <4>6, <5>2, <5>3
          <5>5. Over > 0 /\ Resetting <=> Resetting
            BY <2>1, <5>1
          <5>6. Taken3' > 0
            BY <2>1, <2>7, <4>6
          <5>. QED
            BY <4>2, <5>4, <5>5, <5>6
        <4>. QED
          BY <4>3, <4>4, <4>5, <4>6
      <3>3. ASSUME job.what = "download" PROVE regs' = job.was
        <4>1. regs'[job.ss] = regs[job.ss]
          BY <2>2, <2>8, <3>1, <3>3
        <4>2. \A l \in Lines : regs'[l] = regs[l]
          BY <2>1, <4>1
        <4>3. regs = [l \in Lines |-> regs[l]] /\ regs' = [l \in Lines |-> regs'[l]]
          BY <1>4 DEF Typed
        <4>4. regs' = regs
          BY <4>2, <4>3
        <4>. QED
          BY <3>3, <4>4 DEF Kept
      <3>. QED
        BY <2>4, <3>2, <3>3 DEF Kept
    <2>. QED
      BY <1>3, <1>4, <2>5, <2>6, <2>11, <2>12
  <1>. QED
    BY <1>2, <1>5, <1>6

(* The operation of a program that has made no transfer.                   *)
LEMMA SomeOp == NoOp \in Op /\ NoOp.ss \in Lines
  <1>1. Lines # {}
    BY SpiAssumption
  <1>2. (CHOOSE l \in Lines : TRUE) \in Lines
    BY <1>1
  <1>3. <<>> \in Seq(Byte)
    OBVIOUS
  <1>. QED
    BY <1>2, <1>3 DEF NoOp, Op

(* A killed program, and the start of the next (wb_spi.c:110-127).         *)
LEMMA KillKeeps ==
  ASSUME IInv, Kill
  PROVE  IInv'
  <1>. USE DEF IInv
  <1>1. /\ pc' = "dead" /\ op' = NoOp /\ then' = <<>> /\ i' = 0
        /\ UNCHANGED <<go, selected, rxtx, frame, regs>>
        /\ script' = <<>> /\ mirror' = Zeroed /\ job' = NoJob /\ jobs' = jobs
        /\ kills < MaxKills /\ kills' = kills + 1
    BY DEF Kill, Die
  <1>2. NoOp \in Op /\ NoOp.ss \in Lines
    BY SomeOp
  <1>3. /\ job'.what = "none" /\ job'.ss = NoOp.ss /\ job'.order = <<>>
        /\ job'.left = {} /\ job'.range = {}
    BY <1>1 DEF NoJob
  <1>4. /\ mirror' = [l \in Lines |-> mirror'[l]]
        /\ \A l \in Lines : mirror'[l] \in [ChipRegs[l] -> Byte]
    BY <1>1 DEF Zeroed, Byte
  <1>5. Typed'
    <2>1. kills' \in 0 .. MaxKills
      BY <1>1, ChipsAssumption DEF Typed
    <2>2. <<>> \in Seq(Op) /\ <<>> \in Seq(Accesses) /\ <<>> \in Seq(0 .. 255)
      OBVIOUS
    <2>. QED
      BY <1>1, <1>2, <1>3, <1>4, <2>1, <2>2 DEF Typed
  <1>6. Planned'
    <2>1. Len(script') = 0 /\ Len(job'.order) = 0
      BY <1>1, <1>3
    <2>. QED
      BY <1>3, <2>1 DEF Planned, Uploads
  <1>7. Placed'
    BY <1>1, <1>3 DEF Placed, InAccess
  <1>8. Framed' /\ Agreed' /\ Kept'
    BY <1>1, <1>3 DEF Framed, Agreed, Kept, Touched, InAccess, Uploads
  <1>. QED
    BY <1>5, <1>6, <1>7, <1>8

(* The next program (wb_spi.c:110-127). *)
LEMMA RestartKeeps ==
  ASSUME IInv, Restart
  PROVE  IInv'
  <1>. USE DEF IInv
  <1>1. /\ pc = "dead" /\ pc' = "idle" /\ ~go
        /\ UNCHANGED <<op, then, i, go, selected, rxtx, frame, regs>>
        /\ UNCHANGED <<mirror, script, job, jobs, kills>>
    BY DEF Restart, wb_spi_init
  <1>2. script = <<>> /\ job.what = "none"
    BY <1>1 DEF Placed
  <1>3. Typed'
    BY <1>1 DEF Typed
  <1>4. Planned'
    BY <1>1, PlanStands
  <1>5. Placed'
    BY <1>1 DEF Placed, InAccess
  <1>6. Framed' /\ Agreed' /\ Kept'
    BY <1>1, <1>2 DEF Framed, Agreed, Kept, Touched, InAccess, Uploads
  <1>. QED
    BY <1>3, <1>4, <1>5, <1>6

---------------------------------------------------------------------------
(* The calls. *)

(* A function on 1 .. n is a sequence of length n. *)
LEMMA FunctionIsSeq ==
  ASSUME NEW S, NEW n \in Nat, NEW f \in [1 .. n -> S]
  PROVE  f \in Seq(S) /\ Len(f) = n
  <1>1. f \in Seq(S)
    OBVIOUS
  <1>2. DOMAIN f = 1 .. n /\ DOMAIN f = 1 .. Len(f) /\ Len(f) \in Nat
    BY <1>1, LenProperties
  <1>. QED
    BY <1>1, <1>2

(* A sequence of accesses that writes the copy m to the registers rs, each *)
(* at least once.                                                          *)
Writes(s, m, rs) ==
  /\ s \in Seq(Accesses)
  /\ \A k \in 1 .. Len(s) : s[k].rw = "write" /\ s[k].reg \in rs /\ s[k].byte = m[s[k].reg]
  /\ \A r \in rs : \E k \in 1 .. Len(s) : s[k].reg = r

(* A sequence that has each of the registers rs at least once, and nothing *)
(* else.                                                                   *)
Lists(s, rs) ==
  /\ s \in Seq(0 .. 255)
  /\ \A k \in 1 .. Len(s) : s[k] \in rs
  /\ \A r \in rs : \E k \in 1 .. Len(s) : s[k] = r

(* Concatenations. *)
LEMMA ListsConcat ==
  ASSUME NEW s, NEW t, NEW rs, NEW qs, Lists(s, rs), Lists(t, qs)
  PROVE  Lists(s \o t, rs \cup qs)
  <1>1. /\ s \in Seq(0 .. 255) /\ t \in Seq(0 .. 255) /\ Len(s) \in Nat /\ Len(t) \in Nat
    BY DEF Lists
  <1>2. s \o t \in Seq(0 .. 255) /\ Len(s \o t) = Len(s) + Len(t)
        /\ \A k \in 1 .. Len(s) + Len(t) :
             (s \o t)[k] = IF k <= Len(s) THEN s[k] ELSE t[k - Len(s)]
    BY <1>1
  <1>3. ASSUME NEW k \in 1 .. Len(s) + Len(t) PROVE (s \o t)[k] \in rs \cup qs
    <2>1. CASE k <= Len(s)
      <3>1. k \in 1 .. Len(s) /\ (s \o t)[k] = s[k]
        BY <1>1, <1>2, <2>1
      <3>. QED
        BY <3>1 DEF Lists
    <2>2. CASE k > Len(s)
      <3>1. k - Len(s) \in 1 .. Len(t) /\ (s \o t)[k] = t[k - Len(s)]
        BY <1>1, <1>2, <2>2
      <3>. QED
        BY <3>1 DEF Lists
    <2>. QED
      BY <1>1, <2>1, <2>2
  <1>4. ASSUME NEW r \in rs \cup qs PROVE \E k \in 1 .. Len(s) + Len(t) : (s \o t)[k] = r
    <2>1. CASE r \in rs
      <3>1. PICK k \in 1 .. Len(s) : s[k] = r
        BY <2>1 DEF Lists
      <3>2. k \in 1 .. Len(s) + Len(t) /\ (s \o t)[k] = r
        BY <1>1, <1>2, <3>1
      <3>. QED
        BY <3>2
    <2>2. CASE r \in qs
      <3>1. PICK k \in 1 .. Len(t) : t[k] = r
        BY <2>2 DEF Lists
      <3>2. k + Len(s) \in 1 .. Len(s) + Len(t) /\ (s \o t)[k + Len(s)] = r
        BY <1>1, <1>2, <3>1
      <3>. QED
        BY <3>2
    <2>. QED
      BY <2>1, <2>2
  <1>. QED
    BY <1>2, <1>3, <1>4 DEF Lists

(* What the accesses of a call are, by its kind.                           *)
CallOK(what, l, range, m, s) ==
  /\ l \in Lines /\ range \subseteq ChipRegs[l] /\ m \in [ChipRegs[l] -> Byte]
  /\ s \in Seq(Accesses) /\ \A k \in 1 .. Len(s) : s[k].reg \in ChipRegs[l]
  /\ what # "none"
  /\ what \in Uploads =>
       Writes(s, m, range) /\ \A k \in 2 .. Len(s) : s[k].reg # 0
  /\ what = "download" =>
       /\ \A k \in 1 .. Len(s) : s[k].rw = "read" /\ s[k].reg \in range
       /\ \A r \in range : \E k \in 1 .. Len(s) : s[k].reg = r
  /\ what = "config" => /\ l \in Clocks /\ 0 \notin range
                        /\ \A r \in AdRegs \ range : m[r] = mirror[l][r]
  /\ what = "test" => /\ l \in Adcs /\ Len(s) = 17 /\ s[17].reg = TEST
                      /\ \A k \in 1 .. 16 : s[k].reg = TEST + k

(* A call whose accesses are of its kind keeps the invariant.              *)
LEMMA CallKeeps ==
  ASSUME IInv, NEW what, NEW l, NEW range, NEW m, NEW s,
         Call(what, l, range, m, s), CallOK(what, l, range, m, s)
  PROVE  IInv'
  <1>. USE DEF IInv
  <1>1. /\ pc = "idle" /\ script = <<>> /\ jobs < MaxJobs /\ jobs' = jobs + 1
        /\ script' = s /\ mirror' = [mirror EXCEPT ![l] = m]
        /\ UNCHANGED <<pc, op, then, i, go, selected, rxtx, frame, regs>> /\ kills' = kills
    BY DEF Call, spi_vars
  <1>2. /\ job'.what = what /\ job'.ss = l /\ job'.range = range
        /\ job'.order = [k \in DOMAIN s |-> s[k].reg]
        /\ job'.was = regs /\ job'.copy = mirror[l] /\ job'.left = selected
    BY DEF Call
  <1>3. l \in Lines /\ range \subseteq ChipRegs[l] /\ m \in [ChipRegs[l] -> Byte]
        /\ s \in Seq(Accesses) /\ Len(s) \in Nat /\ DOMAIN s = 1 .. Len(s)
        /\ \A k \in 1 .. Len(s) : s[k] \in Accesses
    <2>1. s \in Seq(Accesses)
      BY DEF CallOK
    <2>. QED
      BY <2>1 DEF CallOK
  <1>4. /\ job'.order \in Seq(0 .. 255) /\ Len(job'.order) = Len(s)
        /\ \A k \in 1 .. Len(s) : job'.order[k] = s[k].reg
    <2>1. \A k \in 1 .. Len(s) : s[k].reg \in 0 .. 255
      BY <1>3, SentBytes
    <2>2. job'.order = [k \in 1 .. Len(s) |-> s[k].reg]
      BY <1>2, <1>3
    <2>3. job'.order \in [1 .. Len(s) -> 0 .. 255]
      BY <2>1, <2>2
    <2>4. job'.order \in Seq(0 .. 255) /\ Len(job'.order) = Len(s)
      <3>. DEFINE n == Len(s)
                  f == job'.order
      <3>1. n \in Nat /\ f \in [1 .. n -> 0 .. 255]
        BY <1>3, <2>3
      <3>. HIDE DEF n, f
      <3>2. f \in Seq(0 .. 255) /\ Len(f) = n
        BY <3>1, FunctionIsSeq
      <3>. QED
        BY <3>2 DEF f, n
    <2>6. \A k \in 1 .. Len(s) : job'.order[k] = s[k].reg
      BY <2>2
    <2>. QED
      BY <2>4, <2>6
  <1>5. /\ mirror'[l] = m /\ mirror' = [k \in Lines |-> mirror'[k]]
        /\ \A k \in Lines : mirror'[k] \in [ChipRegs[k] -> Byte]
    <2>1. mirror = [k \in Lines |-> mirror[k]] /\ \A k \in Lines : mirror[k] \in [ChipRegs[k] -> Byte]
      BY DEF Typed
    <2>2. DOMAIN mirror = Lines
      BY <2>1
    <2>3. mirror' = [k \in Lines |-> IF k = l THEN m ELSE mirror[k]]
      BY <1>1, <2>1, <2>2
    <2>. QED
      BY <1>3, <2>1, <2>3
  <1>6. Over' = 0
    <2>1. Len(script') = Len(s)
      BY <1>1
    <2>. QED
      BY <1>3, <1>4, <2>1 DEF Over
  <1>7. Typed'
    <2>1. jobs' \in 0 .. MaxJobs
      BY <1>1, ChipsAssumption DEF Typed
    <2>. QED
      BY <1>1, <1>2, <1>3, <1>4, <1>5, <2>1 DEF Typed
  <1>8. Planned'
    <2>1. ASSUME NEW k \in 1 .. Len(s)
          PROVE  /\ s[k].reg = job'.order[k]
                 /\ what \in Uploads => s[k].rw = "write" /\ s[k].byte = m[job'.order[k]]
                 /\ what = "download" => s[k].rw = "read"
      BY <1>4 DEF CallOK, Writes
    <2>2. \A k \in 1 .. Len(script') :
            LET a == script'[k]
                r == job'.order[Over' + k]
            IN /\ a.reg = r
               /\ job'.what \in Uploads => a.rw = "write" /\ a.byte = mirror'[job'.ss][r]
               /\ job'.what = "download" => a.rw = "read"
      BY <1>1, <1>2, <1>3, <1>5, <1>6, <2>1
    <2>3. \A k \in 1 .. Len(job'.order) : job'.order[k] \in ChipRegs[job'.ss]
      BY <1>2, <1>4 DEF CallOK
    <2>4. what \in Uploads \cup {"download"} =>
            range = {job'.order[k] : k \in 1 .. Len(job'.order)}
      <3>. SUFFICES ASSUME what \in Uploads \cup {"download"}
                    PROVE  range = {job'.order[k] : k \in 1 .. Len(job'.order)}
        OBVIOUS
      <3>1. (\A k \in 1 .. Len(s) : s[k].reg \in range)
            /\ \A r \in range : \E k \in 1 .. Len(s) : s[k].reg = r
        BY DEF CallOK, Writes
      <3>. QED
        BY <1>3, <1>4, <3>1
    <2>5. what \in Uploads => \A k \in 2 .. Len(job'.order) : job'.order[k] # 0
      BY <1>3, <1>4 DEF CallOK
    <2>6. what = "config" => /\ l \in Clocks /\ 0 \notin range
                             /\ \A r \in AdRegs \ range : mirror'[l][r] = job'.copy[r]
      BY <1>2, <1>5 DEF CallOK
    <2>7. what = "test" => /\ l \in Adcs /\ Len(job'.order) = 17 /\ job'.order[17] = TEST
                           /\ \A k \in 1 .. 16 : job'.order[k] = TEST + k
      <3>. SUFFICES ASSUME what = "test"
                    PROVE  /\ l \in Adcs /\ Len(job'.order) = 17 /\ job'.order[17] = TEST
                           /\ \A k \in 1 .. 16 : job'.order[k] = TEST + k
        OBVIOUS
      <3>1. l \in Adcs /\ Len(s) = 17 /\ s[17].reg = TEST /\ \A k \in 1 .. 16 : s[k].reg = TEST + k
        BY DEF CallOK
      <3>. QED
        BY <1>4, <3>1
    <2>8. Len(script') <= Len(job'.order)
      BY <1>1, <1>3, <1>4
    <2>. QED
      BY <1>2, <2>2, <2>3, <2>4, <2>5, <2>6, <2>7, <2>8 DEF Planned
  <1>9. Placed'
    BY <1>1 DEF Placed, InAccess
  <1>10. Framed'
    <2>1. ~ Touched' /\ (script' # <<>> => InFirst')
      BY <1>1, <1>3, <1>4 DEF Touched, InAccess, InFirst
    <2>. QED
      BY <1>1, <1>2, <2>1 DEF Framed
  <1>11. Taken3' = 0 /\ Fetched' = 0
    BY <1>1, <1>6 DEF Taken3, Fetched, InAccess
  <1>12. Agreed'
    BY <1>1, <1>11 DEF Agreed
  <1>13. Kept'
    BY <1>1, <1>2, <1>11 DEF Kept
  <1>. QED
    BY <1>7, <1>8, <1>9, <1>10, <1>12, <1>13

(* What a list is made of. *)
LEMMA ListBounds ==
  ASSUME NEW ls, NEW rs, Lists(ls, rs)
  PROVE  /\ ls \in Seq(0 .. 255) /\ Len(ls) \in Nat /\ DOMAIN ls = 1 .. Len(ls)
         /\ \A k \in 1 .. Len(ls) : ls[k] \in 0 .. 255 /\ ls[k] \in rs
         /\ \A r \in rs : \E k \in 1 .. Len(ls) : ls[k] = r
  <1>1. ls \in Seq(0 .. 255)
    BY DEF Lists
  <1>2. Len(ls) \in Nat /\ DOMAIN ls = 1 .. Len(ls) /\ \A k \in 1 .. Len(ls) : ls[k] \in 0 .. 255
    BY <1>1, LenProperties, ElementOfSeq
  <1>. QED
    BY <1>1, <1>2 DEF Lists

(* The registers from first to last, in order.                             *)
LEMMA AscendingLists ==
  ASSUME NEW first \in 0 .. 255, NEW last \in 0 .. 255, first <= last
  PROVE  /\ Lists(Ascending(first, last), first .. last)
         /\ Len(Ascending(first, last)) = last - first + 1
         /\ \A k \in 1 .. last - first + 1 : Ascending(first, last)[k] = first + k - 1
  <1>. DEFINE n == last - first + 1
              f == Ascending(first, last)
  <1>1. n \in Nat /\ \A k \in 1 .. n : first + k - 1 \in first .. last
    OBVIOUS
  <1>2. f = [k \in 1 .. n |-> first + k - 1]
    BY DEF Ascending
  <1>3. f \in [1 .. n -> 0 .. 255] /\ \A k \in 1 .. n : f[k] = first + k - 1
    BY <1>1, <1>2
  <1>4. \A r \in first .. last : r - first + 1 \in 1 .. n /\ first + (r - first + 1) - 1 = r
    OBVIOUS
  <1>. HIDE DEF n, f
  <1>5. f \in Seq(0 .. 255) /\ Len(f) = n
    BY <1>1, <1>3, FunctionIsSeq
  <1>6. Lists(f, first .. last)
    <2>1. \A k \in 1 .. Len(f) : f[k] \in first .. last
      BY <1>1, <1>3, <1>5
    <2>2. \A r \in first .. last : \E k \in 1 .. Len(f) : f[k] = r
      BY <1>3, <1>4, <1>5
    <2>. QED
      BY <1>5, <2>1, <2>2 DEF Lists
  <1>. QED
    BY <1>3, <1>5, <1>6 DEF n, f

(* A list of registers written from a copy.                                *)
LEMMA ListedWrites ==
  ASSUME NEW ls, NEW rs, Lists(ls, rs), NEW m, \A r \in rs : m[r] \in Byte,
         NEW s, s = [k \in DOMAIN ls |-> Write(ls[k], m[ls[k]])]
  PROVE  /\ Writes(s, m, rs) /\ Len(s) = Len(ls)
         /\ \A k \in 1 .. Len(ls) : s[k].reg = ls[k]
  <1>. DEFINE n == Len(ls)
  <1>1. n \in Nat /\ DOMAIN ls = 1 .. n /\ \A k \in 1 .. n : ls[k] \in 0 .. 255 /\ ls[k] \in rs
    BY ListBounds
  <1>2. \A k \in 1 .. n : s[k] = Write(ls[k], m[ls[k]])
    BY <1>1
  <1>3. \A r \in 0 .. 255 : \A b \in Byte :
          /\ Write(r, b) \in Accesses
          /\ Write(r, b).rw = "write" /\ Write(r, b).reg = r /\ Write(r, b).byte = b
    BY DEF Write, Accesses
  <1>4. ASSUME NEW k \in 1 .. n
        PROVE  /\ s[k] \in Accesses
               /\ s[k].rw = "write" /\ s[k].reg = ls[k] /\ s[k].byte = m[ls[k]]
    <2>1. ls[k] \in 0 .. 255 /\ m[ls[k]] \in Byte
      BY <1>1
    <2>2. s[k] = Write(ls[k], m[ls[k]])
      BY <1>2
    <2>3. \A b \in Byte :
            /\ Write(ls[k], b) \in Accesses
            /\ Write(ls[k], b).rw = "write" /\ Write(ls[k], b).reg = ls[k]
            /\ Write(ls[k], b).byte = b
      BY <1>3, <2>1
    <2>. DEFINE b == m[ls[k]]
    <2>4. b \in Byte /\ s[k] = Write(ls[k], b)
      BY <2>1, <2>2
    <2>. HIDE DEF b
    <2>5. s[k] \in Accesses /\ s[k].rw = "write" /\ s[k].reg = ls[k] /\ s[k].byte = b
      BY <2>3, <2>4
    <2>. QED
      BY <2>5 DEF b
  <1>5. s \in [1 .. n -> Accesses]
    <2>1. s = [k \in 1 .. n |-> s[k]]
      BY <1>1
    <2>. QED
      BY <1>4, <2>1
  <1>6. \A r \in rs : \E k \in 1 .. n : ls[k] = r
    BY DEF Lists
  <1>. HIDE DEF n
  <1>7. s \in Seq(Accesses) /\ Len(s) = n
    BY <1>1, <1>5, FunctionIsSeq
  <1>8. Writes(s, m, rs)
    BY <1>1, <1>4, <1>6, <1>7 DEF Writes
  <1>. QED
    BY <1>4, <1>7, <1>8 DEF n

(* A list of registers read. *)
LEMMA ListedReads ==
  ASSUME NEW ls, NEW rs, Lists(ls, rs), NEW s, s = [k \in DOMAIN ls |-> Read(ls[k])]
  PROVE  /\ s \in Seq(Accesses)
         /\ \A k \in 1 .. Len(s) : s[k].rw = "read" /\ s[k].reg \in rs
         /\ \A r \in rs : \E k \in 1 .. Len(s) : s[k].reg = r
  <1>. DEFINE n == Len(ls)
  <1>1. n \in Nat /\ DOMAIN ls = 1 .. n /\ \A k \in 1 .. n : ls[k] \in 0 .. 255 /\ ls[k] \in rs
    BY ListBounds
  <1>2. \A k \in 1 .. n : s[k] = Read(ls[k])
    BY <1>1
  <1>3. \A r \in 0 .. 255 : Read(r) \in Accesses /\ Read(r).rw = "read" /\ Read(r).reg = r
    BY DEF Read, Accesses, Byte
  <1>4. ASSUME NEW k \in 1 .. n
        PROVE  s[k] \in Accesses /\ s[k].rw = "read" /\ s[k].reg = ls[k]
    BY <1>1, <1>2, <1>3
  <1>5. s \in [1 .. n -> Accesses]
    <2>1. s = [k \in 1 .. n |-> s[k]]
      BY <1>1
    <2>. QED
      BY <1>4, <2>1
  <1>6. \A r \in rs : \E k \in 1 .. n : ls[k] = r
    BY DEF Lists
  <1>. HIDE DEF n
  <1>7. s \in Seq(Accesses) /\ Len(s) = n
    BY <1>1, <1>5, FunctionIsSeq
  <1>. QED
    BY <1>1, <1>4, <1>6, <1>7 DEF n

(* Two sequences of writes, one after the other. *)
LEMMA WritesConcat ==
  ASSUME NEW m, NEW s, NEW t, NEW rs, NEW qs, Writes(s, m, rs), Writes(t, m, qs)
  PROVE  Writes(s \o t, m, rs \cup qs)
  <1>1. /\ s \in Seq(Accesses) /\ t \in Seq(Accesses) /\ Len(s) \in Nat /\ Len(t) \in Nat
    BY DEF Writes
  <1>2. s \o t \in Seq(Accesses) /\ Len(s \o t) = Len(s) + Len(t)
        /\ \A k \in 1 .. Len(s) + Len(t) :
             (s \o t)[k] = IF k <= Len(s) THEN s[k] ELSE t[k - Len(s)]
    BY <1>1
  <1>3. ASSUME NEW k \in 1 .. Len(s) + Len(t)
        PROVE  LET a == (s \o t)[k]
               IN a.rw = "write" /\ a.reg \in rs \cup qs /\ a.byte = m[a.reg]
    <2>1. CASE k <= Len(s)
      <3>1. k \in 1 .. Len(s) /\ (s \o t)[k] = s[k]
        BY <1>1, <1>2, <2>1
      <3>. QED
        BY <3>1 DEF Writes
    <2>2. CASE k > Len(s)
      <3>1. k - Len(s) \in 1 .. Len(t) /\ (s \o t)[k] = t[k - Len(s)]
        BY <1>1, <1>2, <2>2
      <3>. QED
        BY <3>1 DEF Writes
    <2>. QED
      BY <1>1, <2>1, <2>2
  <1>4. ASSUME NEW r \in rs \cup qs PROVE \E k \in 1 .. Len(s) + Len(t) : (s \o t)[k].reg = r
    <2>1. CASE r \in rs
      <3>1. PICK k \in 1 .. Len(s) : s[k].reg = r
        BY <2>1 DEF Writes
      <3>2. k \in 1 .. Len(s) + Len(t) /\ (s \o t)[k] = s[k]
        BY <1>1, <1>2, <3>1
      <3>. QED
        BY <3>1, <3>2
    <2>2. CASE r \in qs
      <3>1. PICK k \in 1 .. Len(t) : t[k].reg = r
        BY <2>2 DEF Writes
      <3>2. k + Len(s) \in 1 .. Len(s) + Len(t) /\ (s \o t)[k + Len(s)] = t[k]
        BY <1>1, <1>2, <3>1
      <3>. QED
        BY <3>1, <3>2
    <2>. QED
      BY <2>1, <2>2
  <1>. QED
    BY <1>2, <1>3, <1>4 DEF Writes

(* The loop of an AD9510 upload or download (chip_ad9510.c:25-34). *)
LEMMA AdLoop ==
  ASSUME NEW start \in AdRegs, NEW len \in Nat
  PROVE  /\ AdEnd(start, len) \in AdRegs /\ start <= AdEnd(start, len)
         /\ start .. AdEnd(start, len) \subseteq AdRegs
         /\ Lists(Ascending(start, AdEnd(start, len)), start .. AdEnd(start, len))
         /\ \A k \in 1 .. Len(Ascending(start, AdEnd(start, len))) :
              Ascending(start, AdEnd(start, len))[k] = start + k - 1
         /\ Len(Ascending(start, AdEnd(start, len))) \in Nat
  <1>1. start \in 0 .. 255 /\ AdEnd(start, len) \in 0 .. 255 /\ start <= AdEnd(start, len)
        /\ AdEnd(start, len) \in AdRegs /\ start .. AdEnd(start, len) \subseteq AdRegs
    BY DEF AdEnd, AdRegs, REG_LAST
  <1>2. /\ Lists(Ascending(start, AdEnd(start, len)), start .. AdEnd(start, len))
        /\ Len(Ascending(start, AdEnd(start, len))) = AdEnd(start, len) - start + 1
        /\ \A k \in 1 .. AdEnd(start, len) - start + 1 :
             Ascending(start, AdEnd(start, len))[k] = start + k - 1
    BY <1>1, AscendingLists
  <1>3. AdEnd(start, len) - start + 1 \in Nat
    BY <1>1
  <1>. QED
    BY <1>1, <1>2, <1>3

(* An upload writes the copy, register 0 only at the start.                *)
LEMMA AdWritesOK ==
  ASSUME NEW start \in AdRegs, NEW len \in Nat, NEW m, \A r \in AdRegs : m[r] \in Byte
  PROVE  /\ Writes(AdWrites(m, start, len), m, start .. AdEnd(start, len))
         /\ \A k \in 2 .. Len(AdWrites(m, start, len)) : AdWrites(m, start, len)[k].reg # 0
  <1>. DEFINE ls == Ascending(start, AdEnd(start, len))
              rs == start .. AdEnd(start, len)
              s  == AdWrites(m, start, len)
  <1>1. Lists(ls, rs) /\ rs \subseteq AdRegs /\ Len(ls) \in Nat
        /\ \A k \in 1 .. Len(ls) : ls[k] = start + k - 1
    BY AdLoop
  <1>2. s = [k \in DOMAIN ls |-> Write(ls[k], m[ls[k]])]
    BY DEF AdWrites
  <1>. HIDE DEF ls, rs, s
  <1>3. \A r \in rs : m[r] \in Byte
    BY <1>1
  <1>4. Writes(s, m, rs) /\ Len(s) = Len(ls) /\ \A k \in 1 .. Len(ls) : s[k].reg = ls[k]
    BY <1>1, <1>2, <1>3, ListedWrites
  <1>5. start \in Nat
    BY DEF AdRegs
  <1>6. \A k \in 2 .. Len(s) : s[k].reg # 0
    BY <1>1, <1>4, <1>5
  <1>. QED
    BY <1>4, <1>6 DEF ls, rs, s

(* The copy's type, and where the chips' registers are. *)
LEMMA CopyBounds ==
  ASSUME Typed, NEW l \in Lines
  PROVE  /\ mirror[l] \in [ChipRegs[l] -> Byte]
         /\ \A r \in ChipRegs[l] : mirror[l][r] \in Byte
         /\ l \in Clocks => AdRegs \subseteq ChipRegs[l]
         /\ l \in Adcs => IslaRegs \subseteq ChipRegs[l] /\ 0 \in ChipRegs[l]
         /\ l \in Clocks => l \notin Adcs
  <1>1. mirror[l] \in [ChipRegs[l] -> Byte]
    BY DEF Typed
  <1>2. l \in Clocks => AdRegs \subseteq ChipRegs[l]
    BY ChipsAssumption
  <1>3. l \in Adcs => IslaRegs \subseteq ChipRegs[l] /\ 0 \in ChipRegs[l]
    BY ChipsAssumption
  <1>4. Clocks \cap Adcs = {}
    BY ChipsAssumption
  <1>. QED
    BY <1>1, <1>2, <1>3, <1>4

(* The AD9510's calls (chip_ad9510.c). *)
LEMMA AdUploadOK ==
  ASSUME Typed, NEW l \in Clocks, NEW start \in AdRegs, NEW len \in Nat
  PROVE  CallOK("upload", l, start .. AdEnd(start, len), mirror[l], AdWrites(mirror[l], start, len))
  <1>1. l \in Lines
    BY ChipsAssumption
  <1>2. mirror[l] \in [ChipRegs[l] -> Byte] /\ AdRegs \subseteq ChipRegs[l]
        /\ \A r \in AdRegs : mirror[l][r] \in Byte
    BY <1>1, CopyBounds
  <1>. DEFINE rs == start .. AdEnd(start, len)
              s  == AdWrites(mirror[l], start, len)
  <1>3. Writes(s, mirror[l], rs) /\ \A k \in 2 .. Len(s) : s[k].reg # 0
    BY <1>2, AdWritesOK
  <1>4. rs \subseteq AdRegs
    BY AdLoop
  <1>. HIDE DEF rs, s
  <1>5. s \in Seq(Accesses) /\ \A k \in 1 .. Len(s) : s[k].reg \in rs
    BY <1>3 DEF Writes
  <1>6. CallOK("upload", l, rs, mirror[l], s)
    BY <1>1, <1>2, <1>3, <1>4, <1>5 DEF CallOK
  <1>. QED
    BY <1>6 DEF rs, s

(* A download reads the registers of its range (chip_ad9510.c:37-48).      *)
LEMMA AdDownloadOK ==
  ASSUME Typed, NEW l \in Clocks, NEW start \in AdRegs, NEW len \in Nat
  PROVE  LET rs == Ascending(start, AdEnd(start, len))
         IN CallOK("download", l, start .. AdEnd(start, len), mirror[l],
                   [k \in DOMAIN rs |-> Read(rs[k])])
  <1>1. l \in Lines
    BY ChipsAssumption
  <1>2. mirror[l] \in [ChipRegs[l] -> Byte] /\ AdRegs \subseteq ChipRegs[l]
    BY <1>1, CopyBounds
  <1>. DEFINE rs == start .. AdEnd(start, len)
              ls == Ascending(start, AdEnd(start, len))
              s  == [k \in DOMAIN ls |-> Read(ls[k])]
  <1>3. Lists(ls, rs) /\ rs \subseteq AdRegs
    BY AdLoop
  <1>4. s = [k \in DOMAIN ls |-> Read(ls[k])]
    OBVIOUS
  <1>. HIDE DEF rs, ls, s
  <1>5. /\ s \in Seq(Accesses)
        /\ \A k \in 1 .. Len(s) : s[k].rw = "read" /\ s[k].reg \in rs
        /\ \A r \in rs : \E k \in 1 .. Len(s) : s[k].reg = r
    BY <1>3, <1>4, ListedReads
  <1>6. CallOK("download", l, rs, mirror[l], s)
    BY <1>1, <1>2, <1>3, <1>5 DEF CallOK, Uploads
  <1>. QED
    BY <1>6 DEF rs, ls, s

(* Calls whose accesses are not taken from the copy's range: resets and    *)
(* the commit.                                                             *)
LEMMA FixedOK ==
  ASSUME NEW what \in {"reset", "commit"}, NEW l \in Lines, NEW m \in [ChipRegs[l] -> Byte],
         NEW s \in Seq(Accesses), \A k \in 1 .. Len(s) : s[k].reg \in ChipRegs[l]
  PROVE  CallOK(what, l, {}, m, s)
  BY DEF CallOK, Uploads

(* A write of a byte is an access.                                         *)
LEMMA OneWrite ==
  ASSUME NEW r \in 0 .. 255, NEW b \in Byte
  PROVE  Write(r, b) \in Accesses /\ Write(r, b).reg = r
  BY DEF Write, Accesses

(* Sequences of one access and of two.                                     *)
LEMMA FewAccesses ==
  ASSUME NEW x \in Accesses, NEW y \in Accesses
  PROVE  /\ <<x>> \in Seq(Accesses) /\ \A k \in 1 .. Len(<<x>>) : <<x>>[k].reg = x.reg
         /\ <<x, y>> \in Seq(Accesses)
         /\ x.reg = y.reg => \A k \in 1 .. Len(<<x, y>>) : <<x, y>>[k].reg = x.reg
  <1>1. <<x>> \in Seq(Accesses) /\ Len(<<x>>) = 1 /\ <<x>>[1] = x
    OBVIOUS
  <1>2. <<x, y>> \in Seq(Accesses) /\ Len(<<x, y>>) = 2 /\ <<x, y>>[1] = x /\ <<x, y>>[2] = y
    OBVIOUS
  <1>3. \A k \in 1 .. Len(<<x>>) : k = 1
    BY <1>1
  <1>4. \A k \in 1 .. Len(<<x, y>>) : k = 1 \/ k = 2
    BY <1>2
  <1>. QED
    BY <1>1, <1>2, <1>3, <1>4

(* The settings of a configuration are bytes and lie in what it uploads,   *)
(* register 0 not among them (chip_ad9510.c:77-153).                       *)
LEMMA OutputsOK ==
  ASSUME NEW l \in Lines, NEW m \in [ChipRegs[l] -> Byte], NEW on \in Byte, NEW divided
  PROVE  /\ Outputs(m, on, divided) \in [ChipRegs[l] -> Byte]
         /\ \A r \in ChipRegs[l] :
              r \notin 60 .. 67 /\ r # 69 /\ r \notin divided => Outputs(m, on, divided)[r] = m[r]
  <1>1. DOMAIN m = ChipRegs[l] /\ \A r \in ChipRegs[l] : m[r] \in Byte
    OBVIOUS
  <1>2. \A r \in ChipRegs[l] : Outputs(m, on, divided)[r] =
          CASE r \in 60 .. 63 -> on
            [] r = 64 -> 8
            [] r \in 65 .. 67 -> 3
            [] r = 69 -> 26
            [] r \in divided -> IF r % 2 = 0 THEN 0 ELSE 144
            [] OTHER -> m[r]
    BY <1>1 DEF Outputs
  <1>3. Outputs(m, on, divided) = [r \in ChipRegs[l] |-> Outputs(m, on, divided)[r]]
    BY <1>1 DEF Outputs
  <1>4. 8 \in Byte /\ 3 \in Byte /\ 26 \in Byte /\ 0 \in Byte /\ 144 \in Byte
    BY DEF Byte
  <1>5. \A r \in ChipRegs[l] : Outputs(m, on, divided)[r] \in Byte
    BY <1>1, <1>2, <1>4
  <1>6. \A r \in ChipRegs[l] :
          r \notin 60 .. 67 /\ r # 69 /\ r \notin divided => Outputs(m, on, divided)[r] = m[r]
    BY <1>2
  <1>. QED
    BY <1>3, <1>5, <1>6

ConfigRange(ranges) == UNION {ranges[k][1] .. AdEnd(ranges[k][1], ranges[k][2]) : k \in 1 .. 3}

ConfigWrites(m, ranges) ==
  AdWrites(m, ranges[1][1], ranges[1][2]) \o AdWrites(m, ranges[2][1], ranges[2][2])
    \o AdWrites(m, ranges[3][1], ranges[3][2])

(* A configuration uploads its three ranges of the copy. *)
LEMMA ConfigOK ==
  ASSUME Typed, NEW l \in Clocks, NEW m \in [ChipRegs[l] -> Byte], NEW ranges,
         \A k \in 1 .. 3 : ranges[k][1] \in AdRegs \ {0} /\ ranges[k][2] \in Nat,
         \A r \in AdRegs \ ConfigRange(ranges) : m[r] = mirror[l][r]
  PROVE  CallOK("config", l, ConfigRange(ranges), m, ConfigWrites(m, ranges))
  <1>1. l \in Lines
    BY ChipsAssumption
  <1>2. AdRegs \subseteq ChipRegs[l] /\ \A r \in AdRegs : m[r] \in Byte
    BY <1>1, CopyBounds
  <1>. DEFINE R(k) == ranges[k][1] .. AdEnd(ranges[k][1], ranges[k][2])
              W(k) == AdWrites(m, ranges[k][1], ranges[k][2])
              s    == ConfigWrites(m, ranges)
              rs   == ConfigRange(ranges)
  <1>3. ASSUME NEW k \in 1 .. 3
        PROVE  Writes(W(k), m, R(k)) /\ R(k) \subseteq AdRegs /\ 0 \notin R(k)
    <2>1. ranges[k][1] \in AdRegs /\ ranges[k][1] # 0 /\ ranges[k][2] \in Nat
      OBVIOUS
    <2>2. Writes(W(k), m, R(k)) /\ R(k) \subseteq AdRegs
      BY <1>2, <2>1, AdWritesOK, AdLoop
    <2>3. 0 \notin R(k)
      BY <2>1, AdLoop DEF AdRegs
    <2>. QED
      BY <2>2, <2>3
  <1>4. rs = R(1) \cup R(2) \cup R(3)
    <2>1. rs = UNION {R(k) : k \in 1 .. 3}
      BY DEF ConfigRange
    <2>2. \A k : k \in 1 .. 3 <=> k = 1 \/ k = 2 \/ k = 3
      OBVIOUS
    <2>. HIDE DEF R, rs
    <2>3. rs = {r \in rs : TRUE}
      OBVIOUS
    <2>4. \A r : r \in rs <=> \E k \in 1 .. 3 : r \in R(k)
      BY <2>1
    <2>5. \A r : (\E k \in 1 .. 3 : r \in R(k)) <=> r \in R(1) \/ r \in R(2) \/ r \in R(3)
      BY <2>2
    <2>. QED
      BY <2>4, <2>5
  <1>5. s = (W(1) \o W(2)) \o W(3)
    BY DEF ConfigWrites
  <1>. HIDE DEF R, W, s, rs
  <1>6. Writes(W(1) \o W(2), m, R(1) \cup R(2))
    BY <1>3, WritesConcat
  <1>7. Writes(s, m, rs)
    BY <1>3, <1>4, <1>5, <1>6, WritesConcat
  <1>8. 0 \notin rs /\ rs \subseteq AdRegs
    BY <1>3, <1>4
  <1>9. s \in Seq(Accesses) /\ Len(s) \in Nat /\ \A k \in 1 .. Len(s) : s[k].reg \in rs
    BY <1>7 DEF Writes
  <1>10. \A k \in 2 .. Len(s) : s[k].reg # 0
    BY <1>8, <1>9
  <1>11. \A r \in AdRegs \ rs : m[r] = mirror[l][r]
    BY DEF rs
  <1>12. CallOK("config", l, rs, m, s)
    BY <1>1, <1>2, <1>7, <1>8, <1>9, <1>10, <1>11 DEF CallOK
  <1>. QED
    BY <1>12 DEF rs, s

(* The ranges of the two configurations hold all that they edit.           *)
LEMMA ConfigsCovered ==
  /\ \A k \in 1 .. 3 : Config0Ranges[k][1] \in AdRegs \ {0} /\ Config0Ranges[k][2] \in Nat
  /\ \A k \in 1 .. 3 : Config1Ranges[k][1] \in AdRegs \ {0} /\ Config1Ranges[k][2] \in Nat
  /\ \A r : r \in 60 .. 67 \/ r = 69 \/ r \in 72 .. 87 => r \in ConfigRange(Config0Ranges)
  /\ \A r : r \in 60 .. 67 \/ r = 69 \/ r \in 72 .. 79 => r \in ConfigRange(Config1Ranges)
  <1>0. \A k \in 1 .. 3 : k = 1 \/ k = 2 \/ k = 3
    OBVIOUS
  <1>1. /\ Config0Ranges[1] = <<60, 8>> /\ Config0Ranges[2] = <<69, 1>>
        /\ Config0Ranges[3] = <<72, 16>>
    BY DEF Config0Ranges
  <1>2. /\ Config1Ranges[1] = <<60, 8>> /\ Config1Ranges[2] = <<69, 1>>
        /\ Config1Ranges[3] = <<72, 8>>
    BY DEF Config1Ranges
  <1>3. 60 \in AdRegs \ {0} /\ 69 \in AdRegs \ {0} /\ 72 \in AdRegs \ {0}
    BY DEF AdRegs, REG_LAST
  <1>4. /\ AdEnd(60, 8) = 68 /\ AdEnd(69, 1) = 70 /\ AdEnd(72, 16) = 88 /\ AdEnd(72, 8) = 80
    BY DEF AdEnd, REG_LAST
  <1>5. \A k \in 1 .. 3 : Config0Ranges[k][1] \in AdRegs \ {0} /\ Config0Ranges[k][2] \in Nat
    BY <1>0, <1>1, <1>3
  <1>6. \A k \in 1 .. 3 : Config1Ranges[k][1] \in AdRegs \ {0} /\ Config1Ranges[k][2] \in Nat
    BY <1>0, <1>2, <1>3
  <1>7. ASSUME NEW ranges, NEW k \in 1 .. 3, NEW a, NEW b, ranges[k] = <<a, b>>
        PROVE  a .. AdEnd(a, b) \subseteq ConfigRange(ranges)
    <2>1. ranges[k][1] = a /\ ranges[k][2] = b
      BY <1>7
    <2>. QED
      BY <2>1 DEF ConfigRange
  <1>8. /\ 60 .. 68 \subseteq ConfigRange(Config0Ranges) /\ 69 .. 70 \subseteq ConfigRange(Config0Ranges)
        /\ 72 .. 88 \subseteq ConfigRange(Config0Ranges)
    <2>1. /\ 60 .. AdEnd(60, 8) \subseteq ConfigRange(Config0Ranges)
          /\ 69 .. AdEnd(69, 1) \subseteq ConfigRange(Config0Ranges)
          /\ 72 .. AdEnd(72, 16) \subseteq ConfigRange(Config0Ranges)
      BY <1>1, <1>7
    <2>. QED
      BY <1>4, <2>1
  <1>9. /\ 60 .. 68 \subseteq ConfigRange(Config1Ranges) /\ 69 .. 70 \subseteq ConfigRange(Config1Ranges)
        /\ 72 .. 80 \subseteq ConfigRange(Config1Ranges)
    <2>1. /\ 60 .. AdEnd(60, 8) \subseteq ConfigRange(Config1Ranges)
          /\ 69 .. AdEnd(69, 1) \subseteq ConfigRange(Config1Ranges)
          /\ 72 .. AdEnd(72, 8) \subseteq ConfigRange(Config1Ranges)
      BY <1>2, <1>7
    <2>. QED
      BY <1>4, <2>1
  <1>10. /\ 60 .. 67 \subseteq 60 .. 68 /\ 69 \in 69 .. 70 /\ 72 .. 87 \subseteq 72 .. 88
         /\ 72 .. 79 \subseteq 72 .. 80
    OBVIOUS
  <1>11. \A r : r \in 60 .. 67 \/ r = 69 \/ r \in 72 .. 87 => r \in ConfigRange(Config0Ranges)
    BY <1>8, <1>10
  <1>12. \A r : r \in 60 .. 67 \/ r = 69 \/ r \in 72 .. 79 => r \in ConfigRange(Config1Ranges)
    BY <1>9, <1>10
  <1>. QED
    BY <1>5, <1>6, <1>11, <1>12

(* The register groups of a converter: where they are, and that register 0 *)
(* is in none (chip_isla216p.h:10-30).                                     *)
LEMMA Groups ==
  /\ DOMAIN Group = {"dut", "adc", "temp", "out", "cal", "test"}
  /\ \A g \in DOMAIN Group :
       /\ Group[g][1] \in 1 .. 192 /\ Group[g][2] \in 1 .. 17
       /\ GroupRegs(g) \subseteq 1 .. 255 /\ GroupRegs(g) \subseteq IslaRegs
  /\ TEST = 192 /\ Group["test"][2] = 17 /\ GroupRegs("test") = 192 .. 208
  <1>1. DOMAIN Group = {"dut", "adc", "temp", "out", "cal", "test"}
    BY DEF Group
  <1>2. /\ Group["dut"] = <<8, 2>> /\ Group["adc"] = <<32, 12>> /\ Group["temp"] = <<75, 3>>
        /\ Group["out"] = <<112, 5>> /\ Group["cal"] = <<182, 1>> /\ Group["test"] = <<192, 17>>
    BY DEF Group
  <1>3. ASSUME NEW g \in DOMAIN Group
        PROVE  Group[g][1] \in 1 .. 192 /\ Group[g][2] \in 1 .. 17
    <2>1. \/ g = "dut" \/ g = "adc" \/ g = "temp" \/ g = "out" \/ g = "cal" \/ g = "test"
      BY <1>1, <1>3
    <2>. QED
      BY <1>2, <2>1
  <1>4. \A g \in DOMAIN Group : GroupRegs(g) \subseteq 1 .. 255 /\ GroupRegs(g) \subseteq IslaRegs
    BY <1>3, SMTT(30) DEF GroupRegs, IslaRegs
  <1>5. TEST = 192 /\ Group["test"][2] = 17
    BY <1>2 DEF TEST
  <1>6. GroupRegs("test") = 192 .. 208
    BY <1>2 DEF GroupRegs
  <1>. QED
    BY <1>1, <1>3, <1>4, <1>5, <1>6

(* A sequence whose first element has been moved to its end.               *)
LEMMA Rotated ==
  ASSUME NEW ls, NEW rs, Lists(ls, rs), NEW n \in Nat, Len(ls) = n, n > 0
  PROVE  LET t == Tail(ls) \o <<Head(ls)>>
         IN /\ Lists(t, rs) /\ Len(t) = n /\ t[n] = ls[1]
            /\ \A k \in 1 .. n - 1 : t[k] = ls[k + 1]
  <1>. DEFINE u == Tail(ls)
              h == <<Head(ls)>>
              t == u \o h
  <1>1. ls \in Seq(0 .. 255) /\ ls # <<>>
    <2>1. ls \in Seq(0 .. 255)
      BY DEF Lists
    <2>. QED
      BY <2>1
  <1>2. u \in Seq(0 .. 255) /\ Len(u) = n - 1
    BY <1>1
  <1>3. \A k \in 1 .. n - 1 : u[k] = ls[k + 1]
    <2>1. \A k \in 1 .. Len(ls) - 1 : Tail(ls)[k] = ls[k + 1]
      BY <1>1, HeadTailProperties
    <2>. QED
      BY <2>1
  <1>4. h \in Seq(0 .. 255) /\ Len(h) = 1 /\ h[1] = ls[1]
    <2>1. Head(ls) \in 0 .. 255 /\ Head(ls) = ls[1]
      <3>1. Head(ls) \in 0 .. 255
        BY <1>1, HeadTailProperties
      <3>2. Head(ls) = ls[1]
        BY <1>1
      <3>. QED
        BY <3>1, <3>2
    <2>. DEFINE e == Head(ls)
    <2>. HIDE DEF e
    <2>2. <<e>> \in Seq(0 .. 255) /\ Len(<<e>>) = 1 /\ <<e>>[1] = e
      <3>1. e \in 0 .. 255
        BY <2>1 DEF e
      <3>. QED
        BY <3>1
    <2>. QED
      BY <2>1, <2>2 DEF e
  <1>. HIDE DEF u, h
  <1>5. t \in Seq(0 .. 255) /\ Len(t) = n
    <2>1. u \o h \in Seq(0 .. 255) /\ Len(u \o h) = Len(u) + Len(h)
      BY <1>2, <1>4, ConcatProperties
    <2>. QED
      BY <1>2, <1>4, <2>1
  <1>6. t[n] = ls[1]
    <2>1. t[n] = h[1]
      <3>1. n \in 1 .. Len(u) + Len(h) /\ n > Len(u) /\ n - Len(u) = 1
        BY <1>2, <1>4
      <3>. QED
        BY <1>2, <1>4, <3>1, ConcatProperties
    <2>. QED
      BY <1>4, <2>1
  <1>7. ASSUME NEW k \in 1 .. n - 1
        PROVE  t[k] = ls[k + 1]
    <2>1. t[k] = u[k]
      BY <1>2, <1>4
    <2>. QED
      BY <1>3, <2>1
  <1>. HIDE DEF t
  <1>8. ASSUME NEW k \in 1 .. n
        PROVE  t[k] \in rs
    <2>1. CASE k = n
      BY <1>6, <2>1 DEF Lists
    <2>2. CASE k # n
      <3>1. k \in 1 .. n - 1 /\ k + 1 \in 1 .. n
        BY <2>2
      <3>. QED
        BY <1>7, <3>1 DEF Lists
    <2>. QED
      BY <2>1, <2>2
  <1>9. ASSUME NEW r \in rs
        PROVE  \E k \in 1 .. n : t[k] = r
    <2>1. PICK k \in 1 .. n : ls[k] = r
      BY DEF Lists
    <2>2. CASE k = 1
      BY <1>6, <2>1, <2>2
    <2>3. CASE k # 1
      <3>1. k - 1 \in 1 .. n - 1 /\ k - 1 \in 1 .. n /\ (k - 1) + 1 = k
        BY <2>3
      <3>2. t[k - 1] = r
        BY <1>7, <2>1, <3>1
      <3>. QED
        BY <3>1, <3>2
    <2>. QED
      BY <2>2, <2>3
  <1>10. Lists(t, rs)
    BY <1>5, <1>8, <1>9 DEF Lists
  <1>. QED
    BY <1>5, <1>6, <1>7, <1>10 DEF t, u, h

(* A group is read in order, and written in order but for the test mode,   *)
(* which comes last (chip_isla216p.c:20-49, 90-113).                       *)
LEMMA OrdersList ==
  ASSUME NEW g \in DOMAIN Group
  PROVE  /\ Lists(DownloadOrder(g), GroupRegs(g)) /\ Lists(UploadOrder(g), GroupRegs(g))
         /\ g = "test" =>
              /\ Len(UploadOrder(g)) = 17 /\ UploadOrder(g)[17] = TEST
              /\ \A k \in 1 .. 16 : UploadOrder(g)[k] = TEST + k
  <1>. DEFINE a    == Group[g][1]
              n    == Group[g][2]
              last == a + n - 1
              rs   == DownloadOrder(g)
  <1>1. a \in 1 .. 192 /\ n \in 1 .. 17
    BY Groups
  <1>2. rs = Ascending(a, last) /\ GroupRegs(g) = a .. last
    BY DEF DownloadOrder, GroupRegs
  <1>3. UploadOrder(g) = IF g = "test" THEN Tail(rs) \o <<Head(rs)>> ELSE rs
    BY DEF UploadOrder
  <1>4. g = "test" => a = 192 /\ n = 17 /\ TEST = 192
    BY Groups DEF TEST
  <1>. HIDE DEF a, n, rs
  <1>5. a \in 0 .. 255 /\ last \in 0 .. 255 /\ a <= last /\ last - a + 1 = n /\ n \in Nat /\ n > 0
    BY <1>1
  <1>. HIDE DEF last
  <1>6. /\ Lists(rs, GroupRegs(g)) /\ Len(rs) = n
        /\ \A k \in 1 .. n : rs[k] = a + k - 1
    <2>1. /\ Lists(Ascending(a, last), a .. last) /\ Len(Ascending(a, last)) = last - a + 1
          /\ \A k \in 1 .. last - a + 1 : Ascending(a, last)[k] = a + k - 1
      BY <1>5, AscendingLists
    <2>2. last - a + 1 = n
      BY <1>5
    <2>. HIDE DEF Lists, Ascending
    <2>. QED
      BY <1>2, <2>1, <2>2
  <1>7. LET t == Tail(rs) \o <<Head(rs)>>
        IN /\ Lists(t, GroupRegs(g)) /\ Len(t) = n /\ t[n] = rs[1]
           /\ \A k \in 1 .. n - 1 : t[k] = rs[k + 1]
    BY <1>5, <1>6, Rotated
  <1>8. CASE g # "test"
    BY <1>3, <1>6, <1>8 DEF rs
  <1>9. CASE g = "test"
    <2>. DEFINE t == Tail(rs) \o <<Head(rs)>>
    <2>1. /\ Lists(t, GroupRegs(g)) /\ Len(t) = n /\ t[n] = rs[1]
          /\ \A k \in 1 .. n - 1 : t[k] = rs[k + 1]
      BY <1>7
    <2>2. UploadOrder(g) = t
      BY <1>3, <1>9
    <2>. HIDE DEF t
    <2>3. t[n] = a
      BY <1>5, <1>6, <2>1
    <2>4. \A k \in 1 .. n - 1 : t[k] = a + k
      <3>. SUFFICES ASSUME NEW k \in 1 .. n - 1 PROVE t[k] = a + k
        OBVIOUS
      <3>1. k + 1 \in 1 .. n /\ t[k] = rs[k + 1]
        BY <1>5, <2>1
      <3>. QED
        BY <1>5, <1>6, <3>1
    <2>5. a = TEST /\ n = 17 /\ n - 1 = 16
      BY <1>4, <1>9
    <2>6. Len(t) = 17 /\ t[17] = TEST /\ \A k \in 1 .. 16 : t[k] = TEST + k
      BY <2>1, <2>3, <2>4, <2>5
    <2>. QED
      BY <1>6, <2>1, <2>2, <2>6 DEF rs
  <1>. QED
    BY <1>8, <1>9

(* The groups of a mask, one after the other. *)
LEMMA FlatLists ==
  ASSUME NEW mask \in SUBSET DOMAIN Group, NEW order,
         \A g \in mask : Lists(order[g], GroupRegs(g))
  PROVE  Lists(Flat(mask, order), MaskRegs(mask))
  <1>. DEFINE P(g) == Part(mask, order, g)
              R(g) == IF g \in mask THEN GroupRegs(g) ELSE {}
  <1>1. \A g : Lists(P(g), R(g))
    <2>1. Lists(<<>>, {})
      BY DEF Lists
    <2>. QED
      BY <2>1 DEF Part
  <1>2. Flat(mask, order) = ((((P("dut") \o P("adc")) \o P("temp")) \o P("out")) \o P("cal")) \o P("test")
    BY DEF Flat
  <1>3. MaskRegs(mask) = ((((R("dut") \cup R("adc")) \cup R("temp")) \cup R("out")) \cup R("cal")) \cup R("test")
    <2>1. \A g \in mask : g \in {"dut", "adc", "temp", "out", "cal", "test"}
      BY Groups
    <2>2. \A r : r \in MaskRegs(mask) <=> \E g \in mask : r \in GroupRegs(g)
      BY DEF MaskRegs
    <2>3. \A r, g : r \in R(g) <=> g \in mask /\ r \in GroupRegs(g)
      OBVIOUS
    <2>. HIDE DEF R
    <2>4. \A r : r \in MaskRegs(mask) <=>
            r \in R("dut") \/ r \in R("adc") \/ r \in R("temp") \/ r \in R("out")
              \/ r \in R("cal") \/ r \in R("test")
      BY <2>1, <2>2, <2>3
    <2>. QED
      BY <2>4
  <1>. HIDE DEF P, R
  <1>4. Lists(P("dut") \o P("adc"), R("dut") \cup R("adc"))
    BY <1>1, ListsConcat
  <1>5. Lists((P("dut") \o P("adc")) \o P("temp"), (R("dut") \cup R("adc")) \cup R("temp"))
    BY <1>1, <1>4, ListsConcat
  <1>6. Lists(((P("dut") \o P("adc")) \o P("temp")) \o P("out"),
              ((R("dut") \cup R("adc")) \cup R("temp")) \cup R("out"))
    BY <1>1, <1>5, ListsConcat
  <1>7. Lists((((P("dut") \o P("adc")) \o P("temp")) \o P("out")) \o P("cal"),
              (((R("dut") \cup R("adc")) \cup R("temp")) \cup R("out")) \cup R("cal"))
    BY <1>1, <1>6, ListsConcat
  <1>8. Lists(((((P("dut") \o P("adc")) \o P("temp")) \o P("out")) \o P("cal")) \o P("test"),
              ((((R("dut") \cup R("adc")) \cup R("temp")) \cup R("out")) \cup R("cal")) \cup R("test"))
    BY <1>1, <1>7, ListsConcat
  <1>. QED
    BY <1>2, <1>3, <1>8

(* With the test group alone, its order is the order. *)
LEMMA FlatOfTest ==
  ASSUME NEW order, order["test"] \in Seq(0 .. 255)
  PROVE  Flat({"test"}, order) = order["test"]
  <1>1. /\ Part({"test"}, order, "dut") = <<>> /\ Part({"test"}, order, "adc") = <<>>
        /\ Part({"test"}, order, "temp") = <<>> /\ Part({"test"}, order, "out") = <<>>
        /\ Part({"test"}, order, "cal") = <<>> /\ Part({"test"}, order, "test") = order["test"]
    BY DEF Part
  <1>2. <<>> \o <<>> = <<>> /\ <<>> \in Seq(0 .. 255)
    BY ConcatEmptySeq, EmptySeq
  <1>3. <<>> \o order["test"] = order["test"]
    BY ConcatEmptySeq
  <1>. QED
    BY <1>1, <1>2, <1>3 DEF Flat

(* Registers of any groups are a converter's, and not register 0.          *)
LEMMA MaskBounds ==
  ASSUME NEW mask \in SUBSET DOMAIN Group
  PROVE  MaskRegs(mask) \subseteq IslaRegs /\ 0 \notin MaskRegs(mask)
  <1>1. \A g \in mask : GroupRegs(g) \subseteq 1 .. 255 /\ GroupRegs(g) \subseteq IslaRegs
    BY Groups
  <1>. QED
    BY <1>1 DEF MaskRegs

(* The ISLA216P's calls (chip_isla216p.c).                                 *)
LEMMA IslaWritesOK ==
  ASSUME NEW l \in Adcs, NEW m \in [ChipRegs[l] -> Byte], NEW mask \in SUBSET DOMAIN Group,
         NEW what \in {"upload", "test"}, what = "test" => mask = {"test"},
         NEW rs, rs = Flat(mask, [g \in mask |-> UploadOrder(g)]),
         NEW s, s = [k \in DOMAIN rs |-> Write(rs[k], m[rs[k]])]
  PROVE  CallOK(what, l, MaskRegs(mask), m, s)
  <1>1. l \in Lines /\ IslaRegs \subseteq ChipRegs[l]
    BY ChipsAssumption
  <1>2. MaskRegs(mask) \subseteq ChipRegs[l] /\ 0 \notin MaskRegs(mask)
    BY <1>1, MaskBounds
  <1>. DEFINE order == [g \in mask |-> UploadOrder(g)]
              range == MaskRegs(mask)
  <1>3. \A g \in mask : order[g] = UploadOrder(g)
    OBVIOUS
  <1>4. \A g \in mask : Lists(order[g], GroupRegs(g))
    BY <1>3, OrdersList
  <1>5. rs = Flat(mask, order)
    OBVIOUS
  <1>. HIDE DEF order
  <1>6. Lists(rs, range)
    BY <1>4, <1>5, FlatLists
  <1>. HIDE DEF range
  <1>7. \A r \in range : m[r] \in Byte
    BY <1>2 DEF range
  <1>8. Writes(s, m, range) /\ Len(s) = Len(rs) /\ \A k \in 1 .. Len(rs) : s[k].reg = rs[k]
    BY <1>6, <1>7, ListedWrites, SMTT(30)
  <1>9. s \in Seq(Accesses) /\ Len(s) \in Nat /\ \A k \in 1 .. Len(s) : s[k].reg \in range
    <2>1. s \in Seq(Accesses) /\ \A k \in 1 .. Len(s) : s[k].reg \in range
      BY <1>8 DEF Writes
    <2>2. Len(s) \in Nat
      BY <2>1, LenProperties
    <2>. QED
      BY <2>1, <2>2
  <1>10. \A k \in 1 .. Len(s) : s[k].reg \in ChipRegs[l] /\ s[k].reg # 0
    BY <1>2, <1>9 DEF range
  <1>11. what = "test" => /\ Len(s) = 17 /\ s[17].reg = TEST
                          /\ \A k \in 1 .. 16 : s[k].reg = TEST + k
    <2>. SUFFICES ASSUME what = "test"
                  PROVE  /\ Len(s) = 17 /\ s[17].reg = TEST
                         /\ \A k \in 1 .. 16 : s[k].reg = TEST + k
      OBVIOUS
    <2>1. mask = {"test"} /\ "test" \in DOMAIN Group
      BY Groups
    <2>2. order["test"] = UploadOrder("test") /\ UploadOrder("test") \in Seq(0 .. 255)
      BY <1>3, <2>1, OrdersList DEF Lists
    <2>3. rs = UploadOrder("test")
      BY <1>5, <2>1, <2>2, FlatOfTest
    <2>4. Len(rs) = 17 /\ rs[17] = TEST /\ \A k \in 1 .. 16 : rs[k] = TEST + k
      BY <2>1, <2>3, OrdersList
    <2>5. \A k : k \in 1 .. 16 => k \in 1 .. 17
      OBVIOUS
    <2>6. 17 \in 1 .. 17
      OBVIOUS
    <2>7. Len(s) = 17 /\ \A k \in 1 .. 17 : s[k].reg = rs[k]
      BY <1>8, <2>4
    <2>. QED
      BY <2>4, <2>5, <2>6, <2>7
  <1>12. \A k \in 2 .. Len(s) : s[k].reg # 0
    <2>1. \A k \in 2 .. Len(s) : k \in 1 .. Len(s)
      BY <1>9
    <2>. QED
      BY <1>10, <2>1
  <1>13. CallOK(what, l, range, m, s)
    BY <1>1, <1>2, <1>8, <1>9, <1>10, <1>11, <1>12 DEF CallOK, range
  <1>. QED
    BY <1>13 DEF range

(* A converter's groups, as a download reads them.                         *)
LEMMA FlatReads ==
  ASSUME NEW mask \in SUBSET DOMAIN Group
  PROVE  Lists(Flat(mask, [g \in mask |-> DownloadOrder(g)]), MaskRegs(mask))
  <1>. DEFINE order == [g \in mask |-> DownloadOrder(g)]
  <1>1. \A g \in mask : order[g] = DownloadOrder(g)
    OBVIOUS
  <1>2. \A g \in mask : Lists(order[g], GroupRegs(g))
    BY <1>1, OrdersList
  <1>. HIDE DEF order
  <1>3. Lists(Flat(mask, order), MaskRegs(mask))
    BY <1>2, FlatLists
  <1>. QED
    BY <1>3 DEF order

(* A converter's registers are read in the order of the list rs.           *)
LEMMA IslaReadsOK ==
  ASSUME NEW l \in Adcs, NEW m \in [ChipRegs[l] -> Byte], NEW mask \in SUBSET DOMAIN Group,
         NEW rs, Lists(rs, MaskRegs(mask)),
         NEW s, s = [k \in DOMAIN rs |-> Read(rs[k])]
  PROVE  CallOK("download", l, MaskRegs(mask), m, s)
  <1>1. l \in Lines /\ IslaRegs \subseteq ChipRegs[l]
    BY ChipsAssumption
  <1>. DEFINE range == MaskRegs(mask)
  <1>2. range \subseteq ChipRegs[l]
    BY <1>1, MaskBounds
  <1>. HIDE DEF range
  <1>3. /\ s \in Seq(Accesses)
        /\ \A k \in 1 .. Len(s) : s[k].rw = "read" /\ s[k].reg \in range
        /\ \A r \in range : \E k \in 1 .. Len(s) : s[k].reg = r
    <2>1. Lists(rs, range)
      BY DEF range
    <2>. QED
      BY <2>1, ListedReads
  <1>4. CallOK("download", l, range, m, s)
    BY <1>1, <1>2, <1>3 DEF CallOK, Uploads
  <1>. QED
    BY <1>4 DEF range

(* A copy with a test pattern in it, which is of bytes.                    *)
TestCopy(l, old, mode, patterns) ==
  [r \in ChipRegs[l] |->
     IF r = TEST THEN mode
     ELSE IF mode \in UserModes /\ r \in TEST + 1 .. TEST + 14 /\ (r - TEST) % 4 \in {1, 2}
       THEN LET b == patterns[((r - TEST) \div 4) + 1]
            IN IF (r - TEST) % 4 = 1 THEN b % 256 ELSE b \div 256
     ELSE old[r]]

(* It is of bytes (chip_isla216p.c:52-83).                                 *)
LEMMA PatternsAreBytes ==
  ASSUME NEW l, NEW old \in [ChipRegs[l] -> Byte], NEW mode \in Byte,
         NEW patterns, \A k \in 1 .. 4 : patterns[k] \in Nat /\ patterns[k] \div 256 \in Byte
  PROVE  TestCopy(l, old, mode, patterns) \in [ChipRegs[l] -> Byte]
  <1>. DEFINE m == TestCopy(l, old, mode, patterns)
  <1>1. ASSUME NEW r \in ChipRegs[l] PROVE m[r] \in Byte
    <2>1. CASE r \in TEST + 1 .. TEST + 14 /\ (r - TEST) % 4 \in {1, 2}
      <3>. DEFINE n == ((r - TEST) \div 4) + 1
                  b == patterns[n]
      <3>1. n \in 1 .. 4
        BY <2>1 DEF TEST, Group
      <3>2. m[r] = mode \/ m[r] = b % 256 \/ m[r] = b \div 256 \/ m[r] = old[r]
        BY DEF TestCopy
      <3>. HIDE DEF n
      <3>3. b \in Nat /\ b \div 256 \in Byte
        BY <3>1
      <3>. HIDE DEF b
      <3>4. b % 256 \in Byte /\ b \div 256 \in Byte
        BY <3>3 DEF Byte
      <3>5. old[r] \in Byte
        OBVIOUS
      <3>. QED
        BY <3>2, <3>4, <3>5
    <2>2. CASE ~(r \in TEST + 1 .. TEST + 14 /\ (r - TEST) % 4 \in {1, 2})
      BY <2>2 DEF TestCopy
    <2>. QED
      BY <2>1, <2>2
  <1>2. m = [r \in ChipRegs[l] |-> m[r]]
    BY DEF TestCopy
  <1>. HIDE DEF m
  <1>3. m \in [ChipRegs[l] -> Byte]
    BY <1>1, <1>2
  <1>. QED
    BY <1>3 DEF m

(* The calls of a clock divider. *)
LEMMA ClockJob ==
  ASSUME IInv, NEW l \in Clocks,
         \/ \E r \in Ranges : \/ chip_ad9510_registers_upload(l, r[1], r[2])
                              \/ chip_ad9510_registers_download(l, r[1], r[2])
         \/ chip_ad9510_soft_reset(l) \/ chip_ad9510_registers_commit(l)
         \/ chip_ad9510_config0(l) \/ chip_ad9510_config1(l)
  PROVE  IInv'
  <1>0. l \in Lines
    BY ChipsAssumption
  <1>1. Typed
    BY DEF IInv
  <1>2. /\ mirror[l] \in [ChipRegs[l] -> Byte] /\ AdRegs \subseteq ChipRegs[l]
    BY <1>0, <1>1, CopyBounds
  <1>3. 0 \in AdRegs /\ REG_UPDATE_REGISTERS \in AdRegs /\ REG_UPDATE_REGISTERS \in 0 .. 255
    BY DEF AdRegs, REG_LAST, REG_UPDATE_REGISTERS
  <1>4. 60 \in Byte /\ 24 \in Byte /\ 1 \in Byte /\ 10 \in Byte /\ 8 \in Byte
    BY DEF Byte
  <1>5. ASSUME NEW r \in Ranges, chip_ad9510_registers_upload(l, r[1], r[2])
        PROVE  IInv'
    <2>1. r[1] \in AdRegs /\ r[2] \in Nat
      BY ChipsAssumption
    <2>2. CallOK("upload", l, r[1] .. AdEnd(r[1], r[2]), mirror[l], AdWrites(mirror[l], r[1], r[2]))
      BY <1>1, <2>1, AdUploadOK
    <2>3. Call("upload", l, r[1] .. AdEnd(r[1], r[2]), mirror[l], AdWrites(mirror[l], r[1], r[2]))
      BY <1>5 DEF chip_ad9510_registers_upload
    <2>. QED
      BY <2>2, <2>3, CallKeeps
  <1>6. ASSUME NEW r \in Ranges, chip_ad9510_registers_download(l, r[1], r[2])
        PROVE  IInv'
    <2>1. r[1] \in AdRegs /\ r[2] \in Nat
      BY ChipsAssumption
    <2>. DEFINE rs == Ascending(r[1], AdEnd(r[1], r[2]))
                s  == [k \in DOMAIN rs |-> Read(rs[k])]
                range == r[1] .. AdEnd(r[1], r[2])
    <2>2. CallOK("download", l, range, mirror[l], s)
      BY <1>1, <2>1, AdDownloadOK
    <2>3. Call("download", l, range, mirror[l], s)
      BY <1>6 DEF chip_ad9510_registers_download
    <2>. HIDE DEF s, range
    <2>. QED
      BY <2>2, <2>3, CallKeeps
  <1>7. CASE chip_ad9510_soft_reset(l)
    <2>. DEFINE m == [mirror[l] EXCEPT ![0] = 24]
                s == <<Write(0, 60), Write(0, 24)>>
    <2>1. m \in [ChipRegs[l] -> Byte]
      BY <1>2, <1>3, <1>4
    <2>2. s \in Seq(Accesses) /\ \A k \in 1 .. Len(s) : s[k].reg = 0
      <3>. DEFINE x == Write(0, 60)
                  y == Write(0, 24)
      <3>1. x \in Accesses /\ x.reg = 0 /\ y \in Accesses /\ y.reg = 0
        <4>1. 60 \in Byte /\ 24 \in Byte /\ 0 \in 0 .. 255
          BY DEF Byte
        <4>. QED
          BY <4>1, OneWrite
      <3>2. s = <<x, y>>
        OBVIOUS
      <3>. HIDE DEF s, x, y
      <3>3. /\ <<x, y>> \in Seq(Accesses)
            /\ \A k \in 1 .. Len(<<x, y>>) : <<x, y>>[k].reg = x.reg
        BY <3>1, FewAccesses
      <3>. QED
        BY <3>1, <3>2, <3>3
    <2>3. Call("reset", l, {}, m, s)
      BY <1>7 DEF chip_ad9510_soft_reset
    <2>. HIDE DEF m, s
    <2>4. \A k \in 1 .. Len(s) : s[k].reg \in ChipRegs[l]
      BY <1>2, <1>3, <2>2
    <2>5. CallOK("reset", l, {}, m, s)
      BY <1>0, <2>1, <2>2, <2>4, FixedOK
    <2>. QED
      BY <2>3, <2>5, CallKeeps
  <1>8. CASE chip_ad9510_registers_commit(l)
    <2>. DEFINE s == <<Write(REG_UPDATE_REGISTERS, 1)>>
    <2>1. s \in Seq(Accesses) /\ \A k \in 1 .. Len(s) : s[k].reg = REG_UPDATE_REGISTERS
      <3>. DEFINE x == Write(REG_UPDATE_REGISTERS, 1)
      <3>1. x \in Accesses /\ x.reg = REG_UPDATE_REGISTERS /\ s = <<x>>
        BY <1>3, <1>4, OneWrite
      <3>. HIDE DEF s, x
      <3>2. <<x>> \in Seq(Accesses) /\ \A k \in 1 .. Len(<<x>>) : <<x>>[k].reg = x.reg
        BY <3>1, FewAccesses
      <3>. QED
        BY <3>1, <3>2
    <2>2. Call("commit", l, {}, mirror[l], s)
      BY <1>8 DEF chip_ad9510_registers_commit
    <2>. HIDE DEF s
    <2>3. \A k \in 1 .. Len(s) : s[k].reg \in ChipRegs[l]
      BY <1>2, <1>3, <2>1
    <2>4. CallOK("commit", l, {}, mirror[l], s)
      BY <1>0, <1>2, <2>1, <2>3, FixedOK
    <2>. QED
      BY <2>2, <2>4, CallKeeps
  <1>9. ASSUME NEW m, NEW ranges, Configure(l, m, ranges),
               m \in [ChipRegs[l] -> Byte],
               \A k \in 1 .. 3 : ranges[k][1] \in AdRegs \ {0} /\ ranges[k][2] \in Nat,
               \A r \in AdRegs \ ConfigRange(ranges) : m[r] = mirror[l][r]
        PROVE  IInv'
    <2>1. Call("config", l, ConfigRange(ranges), m, ConfigWrites(m, ranges))
      BY <1>9 DEF Configure, ConfigRange, ConfigWrites
    <2>2. CallOK("config", l, ConfigRange(ranges), m, ConfigWrites(m, ranges))
      BY <1>1, <1>9, ConfigOK
    <2>. QED
      BY <2>1, <2>2, CallKeeps
  <1>10. CASE chip_ad9510_config0(l)
    <2>. DEFINE m == Outputs(mirror[l], 10, 72 .. 87)
    <2>1. /\ m \in [ChipRegs[l] -> Byte]
          /\ \A r \in ChipRegs[l] :
               r \notin 60 .. 67 /\ r # 69 /\ r \notin 72 .. 87 => m[r] = mirror[l][r]
      BY <1>0, <1>2, <1>4, OutputsOK
    <2>2. Configure(l, m, Config0Ranges)
      BY <1>10 DEF chip_ad9510_config0
    <2>. HIDE DEF m
    <2>3. \A r \in AdRegs \ ConfigRange(Config0Ranges) : m[r] = mirror[l][r]
      BY <1>2, <2>1, ConfigsCovered
    <2>. QED
      BY <1>9, <2>1, <2>2, <2>3, ConfigsCovered
  <1>11. CASE chip_ad9510_config1(l)
    <2>. DEFINE m == Outputs(mirror[l], 8, 72 .. 79)
    <2>1. /\ m \in [ChipRegs[l] -> Byte]
          /\ \A r \in ChipRegs[l] :
               r \notin 60 .. 67 /\ r # 69 /\ r \notin 72 .. 79 => m[r] = mirror[l][r]
      BY <1>0, <1>2, <1>4, OutputsOK
    <2>2. Configure(l, m, Config1Ranges)
      BY <1>11 DEF chip_ad9510_config1
    <2>. HIDE DEF m
    <2>3. \A r \in AdRegs \ ConfigRange(Config1Ranges) : m[r] = mirror[l][r]
      BY <1>2, <2>1, ConfigsCovered
    <2>. QED
      BY <1>9, <2>1, <2>2, <2>3, ConfigsCovered
  <1>. QED
    BY <1>5, <1>6, <1>7, <1>8, <1>10, <1>11

(* The calls of a converter. *)
LEMMA AdcJob ==
  ASSUME IInv, NEW l \in Adcs,
         NEW patterns, \A k \in 1 .. 4 : patterns[k] \in Nat /\ patterns[k] \div 256 \in Byte,
         \/ \E mask \in Masks : \/ chip_isla216p_registers_upload(l, mask)
                                \/ chip_isla216p_registers_download(l, mask)
         \/ \E mode \in TestModes : chip_isla216p_test_path(l, mode, patterns)
         \/ chip_isla216p_soft_reset(l)
  PROVE  IInv'
  <1>0. l \in Lines
    BY ChipsAssumption
  <1>1. Typed
    BY DEF IInv
  <1>2. mirror[l] \in [ChipRegs[l] -> Byte] /\ 0 \in ChipRegs[l]
    BY <1>0, <1>1, CopyBounds
  <1>3. ASSUME NEW what \in {"upload", "test"}, NEW mask \in SUBSET DOMAIN Group,
               what = "test" => mask = {"test"}, NEW m \in [ChipRegs[l] -> Byte],
               IslaUpload(what, l, mask, m)
        PROVE  IInv'
    <2>. DEFINE rs == Flat(mask, [g \in mask |-> UploadOrder(g)])
                s  == [k \in DOMAIN rs |-> Write(rs[k], m[rs[k]])]
    <2>1. Call(what, l, MaskRegs(mask), m, s)
      BY <1>3 DEF IslaUpload
    <2>2. rs = Flat(mask, [g \in mask |-> UploadOrder(g)])
      OBVIOUS
    <2>. HIDE DEF rs
    <2>3. s = [k \in DOMAIN rs |-> Write(rs[k], m[rs[k]])]
      OBVIOUS
    <2>. HIDE DEF s
    <2>4. CallOK(what, l, MaskRegs(mask), m, s)
      BY <1>3, <2>2, <2>3, IslaWritesOK
    <2>. QED
      BY <2>1, <2>4, CallKeeps
  <1>4. ASSUME NEW mask \in Masks, chip_isla216p_registers_upload(l, mask)
        PROVE  IInv'
    <2>1. mask \in SUBSET DOMAIN Group
      BY ChipsAssumption
    <2>2. IslaUpload("upload", l, mask, mirror[l])
      BY <1>4 DEF chip_isla216p_registers_upload
    <2>. QED
      BY <1>2, <1>3, <2>1, <2>2
  <1>5. ASSUME NEW mask \in Masks, chip_isla216p_registers_download(l, mask)
        PROVE  IInv'
    <2>1. mask \in SUBSET DOMAIN Group
      BY ChipsAssumption
    <2>. DEFINE rs == Flat(mask, [g \in mask |-> DownloadOrder(g)])
                s  == [k \in DOMAIN rs |-> Read(rs[k])]
    <2>2. Call("download", l, MaskRegs(mask), mirror[l], s)
      BY <1>5 DEF chip_isla216p_registers_download
    <2>3. Lists(rs, MaskRegs(mask))
      BY <2>1, FlatReads
    <2>. HIDE DEF rs
    <2>4. s = [k \in DOMAIN rs |-> Read(rs[k])]
      OBVIOUS
    <2>. HIDE DEF s
    <2>5. CallOK("download", l, MaskRegs(mask), mirror[l], s)
      BY <1>2, <2>1, <2>3, <2>4, IslaReadsOK
    <2>. QED
      BY <2>2, <2>5, CallKeeps
  <1>6. ASSUME NEW mode \in TestModes,
               chip_isla216p_test_path(l, mode, patterns)
        PROVE  IInv'
    <2>1. mode \in Byte
      BY ChipsAssumption
    <2>2. IslaUpload("test", l, {"test"}, TestCopy(l, mirror[l], mode, patterns))
      BY <1>6 DEF chip_isla216p_test_path, TestCopy
    <2>3. TestCopy(l, mirror[l], mode, patterns) \in [ChipRegs[l] -> Byte]
      BY <1>2, <2>1, PatternsAreBytes
    <2>4. {"test"} \in SUBSET DOMAIN Group
      BY Groups
    <2>. QED
      BY <1>3, <2>2, <2>3, <2>4
  <1>7. CASE chip_isla216p_soft_reset(l)
    <2>. DEFINE s == <<Write(0, 165), Write(0, 129)>>
    <2>1. s \in Seq(Accesses) /\ \A k \in 1 .. Len(s) : s[k].reg = 0
      <3>. DEFINE x == Write(0, 165)
                  y == Write(0, 129)
      <3>1. x \in Accesses /\ x.reg = 0 /\ y \in Accesses /\ y.reg = 0
        <4>1. 165 \in Byte /\ 129 \in Byte /\ 0 \in 0 .. 255
          BY DEF Byte
        <4>. QED
          BY <4>1, OneWrite
      <3>2. s = <<x, y>>
        OBVIOUS
      <3>. HIDE DEF s, x, y
      <3>3. /\ <<x, y>> \in Seq(Accesses)
            /\ \A k \in 1 .. Len(<<x, y>>) : <<x, y>>[k].reg = x.reg
        BY <3>1, FewAccesses
      <3>. QED
        BY <3>1, <3>2, <3>3
    <2>2. Call("reset", l, {}, mirror[l], s)
      BY <1>7 DEF chip_isla216p_soft_reset
    <2>. HIDE DEF s
    <2>3. \A k \in 1 .. Len(s) : s[k].reg \in ChipRegs[l]
      BY <1>2, <2>1
    <2>4. CallOK("reset", l, {}, mirror[l], s)
      BY <1>0, <1>2, <2>1, <2>3, FixedOK
    <2>. QED
      BY <2>2, <2>4, CallKeeps
  <1>. QED
    BY <1>4, <1>5, <1>6, <1>7

---------------------------------------------------------------------------
(* The invariant. *)

(* It holds at first. *)
LEMMA Starting ==
  ASSUME Init
  PROVE  IInv
  <1>1. /\ pc = "idle" /\ then = <<>> /\ i = 0 /\ op = NoOp /\ go = FALSE /\ selected = {}
        /\ rxtx = 0 /\ frame = [l \in Lines |-> <<>>] /\ regs = PowerOn
        /\ mirror = Zeroed /\ script = <<>> /\ jobs = 0 /\ kills = 0 /\ job = NoJob
    BY DEF Init
  <1>2. NoOp \in Op /\ NoOp.ss \in Lines
    BY SomeOp
  <1>3. /\ job.what = "none" /\ job.ss = NoOp.ss /\ job.order = <<>>
        /\ job.left = {} /\ job.range = {}
    BY <1>1 DEF NoJob
  <1>4. /\ mirror = [l \in Lines |-> mirror[l]]
        /\ \A l \in Lines : mirror[l] \in [ChipRegs[l] -> Byte]
    BY <1>1 DEF Zeroed, Byte
  <1>5. Typed
    <2>1. jobs \in 0 .. MaxJobs /\ kills \in 0 .. MaxKills
      BY <1>1, ChipsAssumption
    <2>2. <<>> \in Seq(Op) /\ <<>> \in Seq(Accesses) /\ <<>> \in Seq(0 .. 255) /\ <<>> \in Seq(Byte)
      OBVIOUS
    <2>3. frame \in [Lines -> Seq(Byte)]
      BY <1>1, <2>2
    <2>4. regs = [l \in Lines |-> regs[l]] /\ \A l \in Lines : regs[l] \in [ChipRegs[l] -> Byte]
      BY <1>1, ChipsAssumption
    <2>5. 0 \in Byte
      BY DEF Byte
    <2>. QED
      BY <1>1, <1>2, <1>3, <1>4, <2>1, <2>2, <2>3, <2>4, <2>5 DEF Typed
  <1>6. Planned
    <2>1. Len(script) = 0 /\ Len(job.order) = 0
      BY <1>1, <1>3
    <2>. QED
      BY <1>3, <2>1 DEF Planned, Uploads
  <1>7. Placed
    BY <1>1 DEF Placed, InAccess
  <1>8. Framed /\ Agreed /\ Kept
    BY <1>1, <1>3 DEF Framed, Agreed, Kept, Touched, InAccess, Uploads
  <1>. QED
    BY <1>5, <1>6, <1>7, <1>8 DEF IInv

(* What the steps of Transfer are to the call: only the last step of an    *)
(* access takes it from the script.                                        *)
LEMMA TransferCases ==
  ASSUME Transfer
  PROVE  /\ UNCHANGED <<mirror, job, jobs, kills>>
         /\ \/ (Ctrl \/ Select \/ Put \/ Go \/ Poll) /\ pc # "deselect" /\ script' = script
            \/ Deselect /\ script' = (IF then = <<>> THEN Tail(script) ELSE script)
  <1>1. /\ UNCHANGED <<mirror, job, jobs, kills>>
        /\ script' = IF pc = "deselect" /\ then = <<>> THEN Tail(script) ELSE script
        /\ Ctrl \/ Select \/ Put \/ Go \/ Poll \/ Deselect
    BY DEF Transfer, TransferStep
  <1>2. (Ctrl \/ Select \/ Put \/ Go \/ Poll) => pc # "deselect"
    BY DEF Ctrl, Select, Put, Go, Poll, AfterShift
  <1>3. Deselect => pc = "deselect"
    BY DEF Deselect
  <1>. QED
    BY <1>1, <1>2, <1>3

(* Every step keeps it. *)
LEMMA Stepping ==
  ASSUME IInv, [Next]_vars
  PROVE  IInv'
  <1>1. CASE Job
    <2>1. \A k \in 1 .. 4 : Patterns[k] \in Nat /\ Patterns[k] \div 256 \in Byte
      <3>1. Patterns[1] = 513 /\ Patterns[2] = 1027 /\ Patterns[3] = 1541 /\ Patterns[4] = 2055
        BY DEF Patterns
      <3>2. \A k \in 1 .. 4 : k = 1 \/ k = 2 \/ k = 3 \/ k = 4
        OBVIOUS
      <3>. QED
        BY <3>1, <3>2, SMT DEF Byte
    <2>2. CASE \E l \in Clocks :
                 \/ \E r \in Ranges : \/ chip_ad9510_registers_upload(l, r[1], r[2])
                                      \/ chip_ad9510_registers_download(l, r[1], r[2])
                 \/ chip_ad9510_soft_reset(l) \/ chip_ad9510_registers_commit(l)
                 \/ chip_ad9510_config0(l) \/ chip_ad9510_config1(l)
      BY <2>2, ClockJob
    <2>3. CASE \E l \in Adcs :
                 \/ \E mask \in Masks : \/ chip_isla216p_registers_upload(l, mask)
                                        \/ chip_isla216p_registers_download(l, mask)
                 \/ \E mode \in TestModes : chip_isla216p_test_path(l, mode, Patterns)
                 \/ chip_isla216p_soft_reset(l)
      BY <2>1, <2>3, AdcJob
    <2>. QED
      BY <1>1, <2>2, <2>3 DEF Job
  <1>2. CASE Begin
    BY <1>2, BeginKeeps
  <1>3. CASE Transfer
    <2>1. UNCHANGED <<mirror, job, jobs, kills>>
      BY <1>3, TransferCases
    <2>2. CASE Ctrl /\ script' = script
      BY <2>1, <2>2, CtrlKeeps
    <2>3. CASE Select /\ script' = script
      BY <2>1, <2>3, SelectKeeps
    <2>4. CASE Put /\ script' = script
      BY <2>1, <2>4, PutKeeps
    <2>5. CASE Go /\ script' = script
      BY <2>1, <2>5, GoKeeps
    <2>6. CASE Poll /\ script' = script
      BY <2>1, <2>6, PollKeeps
    <2>7. CASE Deselect /\ script' = (IF then = <<>> THEN Tail(script) ELSE script)
      BY <2>1, <2>7, DeselectKeeps
    <2>. QED
      BY <1>3, <2>2, <2>3, <2>4, <2>5, <2>6, <2>7, TransferCases
  <1>4. CASE FetchStep
    BY <1>4, FetchKeeps
  <1>5. CASE Core
    BY <1>5, ShiftKeeps DEF Core
  <1>6. CASE Kill
    BY <1>6, KillKeeps
  <1>7. CASE Restart
    BY <1>7, RestartKeeps
  <1>8. CASE UNCHANGED vars
    <2>1. UNCHANGED <<pc, op, then, i, go, selected, rxtx, frame, regs,
                      mirror, script, job, jobs, kills>>
      BY <1>8 DEF vars, spi_vars
    <2>2. Typed' /\ Planned'
      BY <2>1, PlanStands DEF IInv, Typed
    <2>3. Placed'
      BY <2>1 DEF IInv, Placed, InAccess, Current, Shifted
    <2>4. (Touched' <=> Touched) /\ (Clean' <=> Clean) /\ Shifted' = Shifted /\ Over' = Over
          /\ Current' = Current /\ (InFirst' <=> InFirst) /\ (Fresh' <=> Fresh)
          /\ (Resetting' <=> Resetting) /\ (InAccess' <=> InAccess)
      BY <2>1 DEF Touched, Clean, Shifted, Over, Current, InFirst, Fresh, Resetting, InAccess
    <2>5. Taken3' = Taken3 /\ Fetched' = Fetched
      BY <2>1, <2>4 DEF Taken3, Fetched
    <2>6. Framed' /\ Agreed' /\ Kept'
      BY <2>1, <2>4, <2>5 DEF IInv, Framed, Agreed, Kept
    <2>. QED
      BY <2>2, <2>3, <2>6 DEF IInv
  <1>. QED
    BY <1>1, <1>2, <1>3, <1>4, <1>5, <1>6, <1>7, <1>8 DEF Next, Driver

(* The invariant of the chips over the SPI master: types, the rest of the  *)
(* call, the place in the access, what the chip has been sent of it, and   *)
(* what chips and copy hold (wb_spi.c, pghal_spi.c, chip_ad9510.c,         *)
(* chip_isla216p.c).                                                       *)
THEOREM Invariance == Spec => []IInv
  <1>. QED
    BY Starting, Stepping, PTL DEF Spec

(* The driver and the core keep to their types (wb_spi.c:21-106). *)
THEOREM TypeCorrect == Spec => []TypeOK
  <1>1. IInv => TypeOK
    <2>. SUFFICES ASSUME IInv PROVE TypeOK
      OBVIOUS
    <2>1. Typed /\ Placed
      BY DEF IInv
    <2>2. \A l \in Lines : regs[l] \in [ChipRegs[l] -> Byte] /\ mirror[l] \in [ChipRegs[l] -> Byte]
      BY <2>1 DEF Typed
    <2>3. pc \in {"put", "go", "poll", "fetch"} => i < TransferLen(op)
      BY <2>1 DEF Placed, InAccess
    <2>4. script \in Seq([rw : {"write", "read"}, reg : 0 .. 8191, byte : Byte])
      <3>. DEFINE R == 0 .. 8191
                  S == [rw : {"write", "read"}, reg : R, byte : Byte]
      <3>1. \A r \in 0 .. 255 : r \in R
        BY SMT
      <3>. HIDE DEF R
      <3>2. \A a \in Accesses : a \in S
        BY <3>1 DEF Accesses
      <3>3. script \in Seq(Accesses)
        BY <2>1 DEF Typed
      <3>. HIDE DEF S
      <3>4. script \in Seq(S)
        BY <3>2, <3>3
      <3>. QED
        BY <3>4 DEF S, R
    <2>5. SpiTypeOK
      BY <2>1, <2>2 DEF SpiTypeOK, Typed
    <2>6. job.ss \in Lines /\ job.range \subseteq ChipRegs[job.ss]
          /\ jobs \in 0 .. MaxJobs /\ kills \in 0 .. MaxKills
      BY <2>1 DEF Typed
    <2>. QED
      BY <2>2, <2>3, <2>4, <2>5, <2>6 DEF TypeOK
  <1>. QED
    BY <1>1, Invariance, PTL

---------------------------------------------------------------------------
(* What chips and copy hold when a call returns. *)

(* A call that is over has been at all its registers. *)
LEMMA AllOver ==
  ASSUME IInv, Returned
  PROVE  /\ Over = Len(job.order) /\ Taken3 = Over /\ Fetched = Over /\ Len(job.order) \in Nat
         /\ job.what \in Uploads \cup {"download"} =>
              /\ job.range = {job.order[k] : k \in 1 .. Len(job.order)}
              /\ \A k \in 1 .. Len(job.order) : k > 1 \/ Fresh =>
                   regs[job.ss][job.order[k]] = mirror[job.ss][job.order[k]]
  <1>1. pc = "idle" /\ script = <<>> /\ Len(script) = 0
    BY DEF Returned
  <1>2. Len(job.order) \in Nat
    <2>1. job.order \in Seq(0 .. 255)
      BY DEF IInv, Typed
    <2>. QED
      BY <2>1
  <1>3. Over = Len(job.order)
    BY <1>1, <1>2 DEF Over
  <1>4. Taken3 = Over /\ Fetched = Over
    BY <1>1, <1>2, <1>3 DEF Taken3, Fetched, InAccess
  <1>5. job.what \in Uploads \cup {"download"} =>
          job.range = {job.order[k] : k \in 1 .. Len(job.order)}
    BY DEF IInv, Planned
  <1>6. job.what \in Uploads \cup {"download"} =>
          \A k \in 1 .. Len(job.order) : k > 1 \/ Fresh =>
            regs[job.ss][job.order[k]] = mirror[job.ss][job.order[k]]
    BY <1>3, <1>4 DEF IInv, Agreed
  <1>. QED
    BY <1>2, <1>3, <1>4, <1>5, <1>6

(* After an upload, a configuration or a test pattern the chip holds what  *)
(* the copy holds in the range of the call, and what it held before        *)
(* everywhere else (chip_ad9510.c:22-35, chip_isla216p.c:15-50).           *)
THEOREM AlwaysUploadExact == Spec => []UploadExact
  <1>1. IInv => UploadExact
    <2>. SUFFICES ASSUME IInv, Returned, job.what \in {"upload", "config", "test"}, Fresh,
                         NEW l \in Lines, NEW r \in ChipRegs[l]
                  PROVE  regs[l][r] = IF l # job.ss THEN job.was[l][r]
                                      ELSE IF r \in job.range THEN mirror[l][r]
                                      ELSE IF Resetting THEN 0 ELSE job.was[l][r]
      BY DEF UploadExact
    <2>1. job.what \in Uploads
      BY DEF Uploads
    <2>2. /\ Taken3 = Len(job.order) /\ Len(job.order) \in Nat
          /\ job.range = {job.order[k] : k \in 1 .. Len(job.order)}
          /\ \A k \in 1 .. Len(job.order) :
               regs[job.ss][job.order[k]] = mirror[job.ss][job.order[k]]
      BY <2>1, AllOver
    <2>3. l # job.ss \/ (\A k \in 1 .. Taken3 : job.order[k] # r) =>
            regs[l][r] = IF l = job.ss /\ Taken3 > 0 /\ Resetting THEN 0 ELSE job.was[l][r]
      BY <2>1 DEF IInv, Kept
    <2>4. CASE l # job.ss
      BY <2>3, <2>4
    <2>5. CASE l = job.ss /\ r \in job.range
      <3>1. PICK k \in 1 .. Len(job.order) : job.order[k] = r
        BY <2>2, <2>5
      <3>. QED
        BY <2>2, <2>5, <3>1
    <2>6. CASE l = job.ss /\ r \notin job.range
      <3>1. \A k \in 1 .. Taken3 : job.order[k] # r
        BY <2>2, <2>6
      <3>2. Resetting => Taken3 > 0
        <4>. SUFFICES ASSUME Resetting PROVE Taken3 > 0
          OBVIOUS
        <4>1. PICK k \in 1 .. Len(job.order) : job.order[k] = 0
          BY <2>2 DEF Resetting
        <4>. QED
          BY <2>2, <4>1
      <3>. QED
        BY <2>3, <2>6, <3>1, <3>2
    <2>. QED
      BY <2>4, <2>5, <2>6
  <1>. QED
    BY <1>1, Invariance, PTL

(* A configuration leaves nothing of what it edited in the copy alone      *)
(* (chip_ad9510.c:77-153).                                                 *)
THEOREM AlwaysNothingLeftOut == Spec => []NothingLeftOut
  <1>1. IInv => NothingLeftOut
    <2>. SUFFICES ASSUME IInv, Returned, job.what = "config", Fresh, NEW r \in AdRegs,
                         mirror[job.ss][r] # job.copy[r] \/ job.copy[r] = job.was[job.ss][r]
                  PROVE  regs[job.ss][r] = mirror[job.ss][r]
      BY DEF NothingLeftOut
    <2>1. job.what \in Uploads
      BY DEF Uploads
    <2>2. /\ Taken3 = Len(job.order) /\ Len(job.order) \in Nat
          /\ job.range = {job.order[k] : k \in 1 .. Len(job.order)}
          /\ \A k \in 1 .. Len(job.order) :
               regs[job.ss][job.order[k]] = mirror[job.ss][job.order[k]]
      BY <2>1, AllOver
    <2>3. /\ job.ss \in Clocks /\ 0 \notin job.range
          /\ \A q \in AdRegs \ job.range : mirror[job.ss][q] = job.copy[q]
      BY DEF IInv, Planned
    <2>4. job.ss \in Lines /\ r \in ChipRegs[job.ss]
      BY <2>3, ChipsAssumption
    <2>5. CASE r \in job.range
      <3>1. PICK k \in 1 .. Len(job.order) : job.order[k] = r
        BY <2>2, <2>5
      <3>. QED
        BY <2>2, <3>1
    <2>6. CASE r \notin job.range
      <3>1. \A k \in 1 .. Taken3 : job.order[k] # r
        BY <2>2, <2>6
      <3>2. ~ Resetting
        BY <2>3 DEF Resetting
      <3>3. regs[job.ss][r] = job.was[job.ss][r]
        BY <2>1, <2>4, <3>1, <3>2 DEF IInv, Kept
      <3>. QED
        BY <2>3, <2>6, <3>3
    <2>. QED
      BY <2>5, <2>6
  <1>. QED
    BY <1>1, Invariance, PTL

(* A download leaves the chip alone and the copy right                     *)
(* (chip_ad9510.c:37-48, chip_isla216p.c:85-114).                          *)
THEOREM AlwaysDownloadExact == Spec => []DownloadExact
  <1>1. IInv => DownloadExact
    <2>. SUFFICES ASSUME IInv, Returned, job.what = "download", Fresh
                  PROVE  /\ \A r \in job.range : mirror[job.ss][r] = regs[job.ss][r]
                         /\ regs = job.was
      BY DEF DownloadExact
    <2>1. /\ job.range = {job.order[k] : k \in 1 .. Len(job.order)}
          /\ \A k \in 1 .. Len(job.order) :
               regs[job.ss][job.order[k]] = mirror[job.ss][job.order[k]]
      BY AllOver
    <2>2. regs = job.was
      BY DEF IInv, Kept
    <2>. QED
      BY <2>1, <2>2
  <1>. QED
    BY <1>1, Invariance, PTL

(* After a killed program only the first access of the next call can be    *)
(* wrong (wb_spi.c:57, 88, pghal_spi.c:38-45).                             *)
THEOREM AlwaysKillCostsOneAccess == Spec => []KillCostsOneAccess
  <1>1. IInv => KillCostsOneAccess
    <2>. SUFFICES ASSUME IInv, Returned, job.what \in {"upload", "config", "test", "download"},
                         NEW r \in job.range \ {job.order[1]}
                  PROVE  regs[job.ss][r] = mirror[job.ss][r]
      BY DEF KillCostsOneAccess
    <2>1. job.what \in Uploads \cup {"download"}
      BY DEF Uploads
    <2>2. /\ job.range = {job.order[k] : k \in 1 .. Len(job.order)} /\ Len(job.order) \in Nat
          /\ \A k \in 1 .. Len(job.order) : k > 1 =>
               regs[job.ss][job.order[k]] = mirror[job.ss][job.order[k]]
      BY <2>1, AllOver
    <2>3. PICK k \in 1 .. Len(job.order) : job.order[k] = r
      BY <2>2
    <2>4. k > 1
      BY <2>2, <2>3
    <2>. QED
      BY <2>2, <2>3, <2>4
  <1>. QED
    BY <1>1, Invariance, PTL

---------------------------------------------------------------------------
(* What no step does. *)

(* A call begins between accesses and leaves the core and the chips alone. *)
LEMMA JobIdle ==
  ASSUME Job
  PROVE  pc = "idle" /\ UNCHANGED <<pc, op, then, i, go, selected, rxtx, frame, regs>>
  <1>. DEFINE Idle == pc = "idle" /\ UNCHANGED <<pc, op, then, i, go, selected, rxtx, frame, regs>>
  <1>1. ASSUME NEW what, NEW l, NEW range, NEW m, NEW s, Call(what, l, range, m, s)
        PROVE  Idle
    BY <1>1 DEF Call, spi_vars
  <1>. HIDE DEF Idle
  <1>2. ASSUME NEW what, NEW l, NEW mask, NEW m, IslaUpload(what, l, mask, m)
        PROVE  Idle
    <2>. DEFINE rs == Flat(mask, [g \in mask |-> UploadOrder(g)])
                s  == [k \in DOMAIN rs |-> Write(rs[k], m[rs[k]])]
    <2>1. Call(what, l, MaskRegs(mask), m, s)
      BY <1>2 DEF IslaUpload
    <2>. HIDE DEF s
    <2>. QED
      BY <1>1, <2>1
  <1>3. ASSUME NEW l \in Clocks,
               \/ \E r \in Ranges : \/ chip_ad9510_registers_upload(l, r[1], r[2])
                                    \/ chip_ad9510_registers_download(l, r[1], r[2])
               \/ chip_ad9510_soft_reset(l) \/ chip_ad9510_registers_commit(l)
               \/ chip_ad9510_config0(l) \/ chip_ad9510_config1(l)
        PROVE  Idle
    <2>1. ASSUME NEW r \in Ranges, chip_ad9510_registers_upload(l, r[1], r[2]) PROVE Idle
      BY <1>1, <2>1 DEF chip_ad9510_registers_upload
    <2>2. ASSUME NEW r \in Ranges, chip_ad9510_registers_download(l, r[1], r[2]) PROVE Idle
      <3>. DEFINE rs == Ascending(r[1], AdEnd(r[1], r[2]))
                  s  == [k \in DOMAIN rs |-> Read(rs[k])]
      <3>1. Call("download", l, r[1] .. AdEnd(r[1], r[2]), mirror[l], s)
        BY <2>2 DEF chip_ad9510_registers_download
      <3>. HIDE DEF s
      <3>. QED
        BY <1>1, <3>1
    <2>3. CASE chip_ad9510_soft_reset(l)
      BY <1>1, <2>3 DEF chip_ad9510_soft_reset
    <2>4. CASE chip_ad9510_registers_commit(l)
      BY <1>1, <2>4 DEF chip_ad9510_registers_commit
    <2>5. ASSUME NEW m, NEW ranges, Configure(l, m, ranges) PROVE Idle
      BY <1>1, <2>5 DEF Configure
    <2>6. CASE chip_ad9510_config0(l)
      BY <2>5, <2>6 DEF chip_ad9510_config0
    <2>7. CASE chip_ad9510_config1(l)
      BY <2>5, <2>7 DEF chip_ad9510_config1
    <2>. QED
      BY <1>3, <2>1, <2>2, <2>3, <2>4, <2>6, <2>7
  <1>4. ASSUME NEW l \in Adcs,
               \/ \E mask \in Masks : \/ chip_isla216p_registers_upload(l, mask)
                                      \/ chip_isla216p_registers_download(l, mask)
               \/ \E mode \in TestModes : chip_isla216p_test_path(l, mode, Patterns)
               \/ chip_isla216p_soft_reset(l)
        PROVE  Idle
    <2>1. ASSUME NEW mask \in Masks, chip_isla216p_registers_upload(l, mask) PROVE Idle
      BY <1>2, <2>1 DEF chip_isla216p_registers_upload
    <2>2. ASSUME NEW mask \in Masks, chip_isla216p_registers_download(l, mask) PROVE Idle
      <3>. DEFINE rs == Flat(mask, [g \in mask |-> DownloadOrder(g)])
                  s  == [k \in DOMAIN rs |-> Read(rs[k])]
      <3>1. Call("download", l, MaskRegs(mask), mirror[l], s)
        BY <2>2 DEF chip_isla216p_registers_download
      <3>. HIDE DEF s
      <3>. QED
        BY <1>1, <3>1
    <2>3. ASSUME NEW mode \in TestModes, chip_isla216p_test_path(l, mode, Patterns) PROVE Idle
      <3>1. IslaUpload("test", l, {"test"}, TestCopy(l, mirror[l], mode, Patterns))
        BY <2>3 DEF chip_isla216p_test_path, TestCopy
      <3>. QED
        BY <1>2, <3>1
    <2>4. CASE chip_isla216p_soft_reset(l)
      BY <1>1, <2>4 DEF chip_isla216p_soft_reset
    <2>. QED
      BY <1>4, <2>1, <2>2, <2>3, <2>4
  <1>5. Idle
    BY <1>3, <1>4 DEF Job
  <1>. QED
    BY <1>5 DEF Idle

(* Only two steps move the select lines, and one changes registers.        *)
LEMMA Movers ==
  ASSUME Next
  PROVE  /\ selected' # selected => Select \/ (Deselect /\ UNCHANGED job)
         /\ regs' # regs => Core
  <1>1. CASE Job
    BY <1>1, JobIdle
  <1>2. CASE Begin
    BY <1>2 DEF Begin, Access
  <1>3. CASE Transfer
    BY <1>3 DEF Transfer, TransferStep, Ctrl, Select, Put, Go, Poll, AfterShift, Deselect
  <1>4. CASE FetchStep
    BY <1>4 DEF FetchStep, Fetch
  <1>5. CASE Core
    BY <1>5 DEF Core, Shift
  <1>6. CASE Kill
    BY <1>6 DEF Kill, Die
  <1>7. CASE Restart
    BY <1>7 DEF Restart, wb_spi_init
  <1>. QED
    BY <1>1, <1>2, <1>3, <1>4, <1>5, <1>6, <1>7 DEF Next, Driver

(* Nothing writes the data register or the select lines while the core     *)
(* shifts (wb_spi.c:70-83).                                                *)
THEOREM AlwaysShiftUndisturbed == Spec => ShiftUndisturbed
  <1>. DEFINE A == go /\ go' => selected' = selected /\ rxtx' = rxtx
  <1>1. ASSUME IInv, Next PROVE A
    <2>. SUFFICES ASSUME go, go' PROVE selected' = selected /\ rxtx' = rxtx
      OBVIOUS
    <2>1. pc \in {"poll", "dead"}
      BY <1>1 DEF IInv, Placed
    <2>2. CASE Job
      BY <2>1, <2>2, JobIdle
    <2>3. CASE Begin
      BY <2>1, <2>3 DEF Begin, Access
    <2>4. CASE Transfer
      BY <2>1, <2>4
         DEF Transfer, TransferStep, Ctrl, Select, Put, Go, Poll, AfterShift, Deselect
    <2>5. CASE FetchStep
      BY <2>1, <2>5 DEF FetchStep, Fetch
    <2>6. CASE Core
      BY <2>6 DEF Core, Shift
    <2>7. CASE Kill
      BY <2>7 DEF Kill, Die
    <2>8. CASE Restart
      BY <2>8 DEF Restart, wb_spi_init
    <2>. QED
      BY <1>1, <2>2, <2>3, <2>4, <2>5, <2>6, <2>7, <2>8 DEF Next, Driver
  <1>2. IInv /\ [Next]_vars => [A]_vars
    BY <1>1
  <1>. QED
    BY <1>2, Invariance, PTL DEF Spec, ShiftUndisturbed

(* A chip that is released has been sent one whole access, but for the     *)
(* first one after a killed program (wb_spi.c:57, 88, pghal_spi.c:28-66).  *)
THEOREM AlwaysWholeAccess == Spec => WholeAccess
  <1>. DEFINE A == \A l \in selected \ selected' :
                     LET a == Head(script)
                     IN \/ InFirst /\ l \in job.left
                        \/ /\ l = job.ss
                           /\ frame[l] = IF a.rw = "write"
                                           THEN <<a.reg \div 256, a.reg % 256, a.byte>>
                                           ELSE <<128 + (a.reg \div 256), a.reg % 256, 255>>
  <1>1. ASSUME IInv, Next PROVE A
    <2>. SUFFICES ASSUME NEW l \in selected, l \notin selected', ~ (InFirst /\ l \in job.left)
                  PROVE  /\ l = job.ss
                         /\ frame[l] = IF Current.rw = "write"
                              THEN <<Current.reg \div 256, Current.reg % 256, Current.byte>>
                              ELSE <<128 + (Current.reg \div 256), Current.reg % 256, 255>>
      BY DEF Current
    <2>1. InAccess /\ (Select \/ Deselect)
      BY <1>1, Movers DEF InAccess, Select, Deselect
    <2>2. /\ script # <<>> /\ Current \in Accesses /\ job.ss \in Lines /\ Over \in Nat
          /\ Leg(job.ss, Current, op, then) /\ op.ss = job.ss /\ op.start \in BOOLEAN
          /\ TransferLen(op) = IF Current.rw = "read" THEN 3 ELSE IF op.start THEN 2 ELSE 1
          /\ Earlier(op) = IF op.start THEN 0 ELSE 2
      BY <1>1, <2>1, Inside DEF IInv
    <2>3. ~ Select
      <3>. SUFFICES ASSUME Select PROVE FALSE
        OBVIOUS
      <3>1. pc = "select" /\ selected' = {op.ss}
        BY DEF Select
      <3>2. op.start
        BY <1>1, <2>1, <3>1 DEF IInv, Placed
      <3>3. ~ Touched
        BY <3>1, <3>2 DEF Touched
      <3>4. selected = IF InFirst THEN job.left ELSE {}
        BY <1>1, <2>2, <3>3 DEF IInv, Framed
      <3>. QED
        BY <3>4
    <2>4. pc = "deselect" /\ op.stop /\ i = TransferLen(op)
      <3>1. pc = "deselect" /\ selected' = IF op.stop THEN {} ELSE selected
        BY <2>1, <2>3 DEF Deselect
      <3>2. op.stop
        BY <3>1
      <3>3. i = TransferLen(op)
        BY <1>1, <2>1, <3>1 DEF IInv, Placed
      <3>. QED
        BY <3>1, <3>2, <3>3
    <2>5. Touched /\ selected = {job.ss} /\ l = job.ss
      <3>1. Touched
        BY <2>1, <2>4 DEF Touched
      <3>. QED
        BY <1>1, <3>1 DEF IInv, Framed
    <2>6. Shifted = 3
      <3>1. Shifted = Earlier(op) + TransferLen(op)
        BY <2>4 DEF Shifted, Rounds
      <3>2. (Current.rw = "read" /\ op.start) \/ (Current.rw = "write" /\ ~op.start)
        <4>1. \/ Current.rw = "write" /\ op.start /\ ~op.stop
              \/ Current.rw = "write" /\ ~op.start /\ op.stop
              \/ Current.rw = "read" /\ op.start /\ op.stop
          BY <2>2, LegKinds
        <4>. QED
          BY <2>4, <4>1
      <3>. QED
        BY <2>2, <3>1, <3>2
    <2>7. Clean
      <3>. SUFFICES ASSUME job.ss \in job.left PROVE Over > 0
        BY DEF Clean
      <3>1. Len(script) # Len(job.order)
        BY <2>2, <2>5 DEF InFirst
      <3>2. Len(script) \in Nat /\ Len(job.order) \in Nat
        BY <1>1, <2>2, UnderWay DEF IInv
      <3>. QED
        BY <2>2, <3>1, <3>2 DEF Over
    <2>8. /\ Len(frame[l]) = 3 /\ frame[l] \in Seq(Byte)
          /\ \A k \in 1 .. 3 : frame[l][k] = Sent(Current)[k]
      <3>1. /\ Len(frame[job.ss]) = Shifted
            /\ \A k \in 1 .. Shifted : frame[job.ss][k] = Sent(Current)[k]
        BY <1>1, <2>5, <2>7 DEF IInv, Framed
      <3>2. frame[job.ss] \in Seq(Byte)
        BY <1>1, <2>2 DEF IInv, Typed
      <3>. QED
        BY <2>5, <2>6, <3>1, <3>2
    <2>9. Current.rw \in {"write", "read"} /\ Current.reg \in 0 .. 255
      BY <2>2, SentBytes
    <2>10. Current.reg \div 256 = 0 /\ Current.reg % 256 = Current.reg
      BY <2>9
    <2>11. \A x, y, z : Len(<<x, y, z>>) = 3 /\ <<x, y, z>>[1] = x /\ <<x, y, z>>[2] = y
                        /\ <<x, y, z>>[3] = z
      OBVIOUS
    <2>12. frame[l] = <<frame[l][1], frame[l][2], frame[l][3]>>
      <3>. DEFINE f == frame[l]
      <3>1. f \in Seq(Byte) /\ Len(f) = 3
        BY <2>8
      <3>. HIDE DEF f
      <3>2. f = <<f[1], f[2], f[3]>>
        BY <3>1
      <3>. QED
        BY <3>2 DEF f
    <2>13. frame[l][1] = Sent(Current)[1] /\ frame[l][2] = Sent(Current)[2]
           /\ frame[l][3] = Sent(Current)[3]
      BY <2>8
    <2>14. CASE Current.rw = "write"
      <3>1. frame[l][1] = 0 /\ frame[l][2] = Current.reg /\ frame[l][3] = Current.byte
        BY <2>2, <2>13, <2>14, SentBytes
      <3>2. frame[l] = <<0, Current.reg, Current.byte>>
        BY <2>12, <3>1
      <3>. QED
        BY <2>5, <2>10, <2>14, <3>2
    <2>15. CASE Current.rw = "read"
      <3>1. frame[l][1] = 128 /\ frame[l][2] = Current.reg /\ frame[l][3] = 255
        BY <2>2, <2>13, <2>15, SentBytes
      <3>2. frame[l] = <<128, Current.reg, 255>>
        BY <2>12, <3>1
      <3>3. 128 + (Current.reg \div 256) = 128
        BY <2>10
      <3>. QED
        BY <2>5, <2>10, <2>15, <3>2, <3>3
    <2>. QED
      BY <2>9, <2>14, <2>15
  <1>2. IInv /\ [Next]_vars => [A]_vars
    BY <1>1
  <1>. QED
    BY <1>2, Invariance, PTL DEF Spec, WholeAccess

(* The test mode of a converter changes only when its patterns are in      *)
(* place (chip_isla216p.c:40-49).                                          *)
THEOREM AlwaysPatternsBeforeMode == Spec => PatternsBeforeMode
  <1>. DEFINE A == \A l \in Adcs :
                     regs'[l][TEST] # regs[l][TEST] /\ job.what = "test" /\ Fresh =>
                       \A r \in GroupRegs("test") \ {TEST} : regs[l][r] = mirror[l][r]
  <1>1. ASSUME IInv, Next PROVE A
    <2>. SUFFICES ASSUME NEW l \in Adcs, regs'[l][TEST] # regs[l][TEST], job.what = "test", Fresh,
                         NEW r \in GroupRegs("test") \ {TEST}
                  PROVE  regs[l][r] = mirror[l][r]
      OBVIOUS
    <2>1. Shift /\ UNCHANGED <<mirror, script, job, jobs, kills>>
      BY <1>1, Movers DEF Core
    <2>2. pc = "poll"
      <3>1. go
        BY <2>1 DEF Shift
      <3>. QED
        BY <1>1, <3>1 DEF IInv, Placed
    <2>3. job.what \in Uploads /\ Clean
      BY DEF Uploads, Clean, Fresh
    <2>4. /\ Shifted \in 0 .. 2 /\ script # <<>> /\ Over \in Nat /\ InAccess /\ l \in Lines
          /\ job.ss \in Lines
          /\ regs' = [q \in Lines |-> IF q = job.ss THEN Taken(q, rxtx) ELSE regs[q]]
          /\ regs'[job.ss] =
               IF Shifted = 2 /\ Current.rw = "write"
               THEN IF Resets(Current.reg, Current.byte)
                    THEN [q \in ChipRegs[job.ss] |-> IF q = 0 THEN Current.byte ELSE 0]
                    ELSE [regs[job.ss] EXCEPT ![Current.reg] = Current.byte]
               ELSE regs[job.ss]
      <3>1. l \in Lines
        BY ChipsAssumption
      <3>. QED
        BY <1>1, <2>1, <2>2, <2>3, <3>1, ShiftInAccess
    <2>5. l = job.ss
      BY <2>4
    <2>6. /\ Over < Len(job.order) /\ Current.reg = job.order[Over + 1]
      BY <1>1, <2>4, UnderWay DEF IInv
    <2>7. /\ Len(job.order) = 17 /\ \A k \in 1 .. 16 : job.order[k] = TEST + k
          /\ job.order[17] = TEST
      BY <1>1 DEF IInv, Planned
    <2>8. TEST = 192 /\ GroupRegs("test") = 192 .. 208
      BY Groups
    <2>9. Current.reg # 0 /\ (Current.reg = TEST => Over = 16)
      <3>1. Over + 1 \in 1 .. 16 \/ Over + 1 = 17
        BY <2>4, <2>6, <2>7
      <3>2. CASE Over + 1 = 17
        BY <2>4, <2>6, <2>7, <2>8, <3>2
      <3>3. CASE Over + 1 \in 1 .. 16
        <4>1. Current.reg = 192 + (Over + 1)
          BY <2>6, <2>7, <2>8, <3>3
        <4>. QED
          BY <2>4, <2>8, <4>1
      <3>. QED
        BY <3>1, <3>2, <3>3
    <2>10. ~ Resets(Current.reg, Current.byte)
      BY <2>9 DEF Resets
    <2>11. Shifted = 2 /\ Current.reg = TEST
      <3>1. regs[job.ss] \in [ChipRegs[job.ss] -> Byte]
        BY <1>1, <2>4 DEF IInv, Typed
      <3>2. Shifted = 2
        BY <2>4, <2>5
      <3>3. regs'[job.ss] = regs[job.ss] \/ regs'[job.ss] = [regs[job.ss] EXCEPT ![Current.reg] = Current.byte]
        BY <2>4, <2>10
      <3>4. TEST \in ChipRegs[job.ss]
        <4>1. IslaRegs \subseteq ChipRegs[l]
          BY ChipsAssumption
        <4>2. "test" \in DOMAIN Group /\ TEST \in GroupRegs("test")
          BY <2>8, Groups
        <4>3. TEST \in IslaRegs
          BY <4>2 DEF IslaRegs
        <4>. QED
          BY <2>5, <4>1, <4>3
      <3>5. Current.reg # TEST => regs'[job.ss][TEST] = regs[job.ss][TEST]
        BY <3>1, <3>3, <3>4
      <3>. QED
        BY <2>5, <3>2, <3>5
    <2>12. Taken3 = 16
      BY <2>4, <2>9, <2>11 DEF Taken3
    <2>13. \A k \in 1 .. 16 : regs[job.ss][job.order[k]] = mirror[job.ss][job.order[k]]
      BY <1>1, <2>3, <2>12 DEF IInv, Agreed
    <2>14. r - 192 \in 1 .. 16 /\ 192 + (r - 192) = r
      BY <2>8
    <2>15. job.order[r - 192] = r
      BY <2>7, <2>8, <2>14
    <2>. QED
      BY <2>5, <2>13, <2>14, <2>15
  <1>2. IInv /\ [Next]_vars => [A]_vars
    BY <1>1
  <1>. QED
    BY <1>2, Invariance, PTL DEF Spec, PatternsBeforeMode
=============================================================================
