------------------------------ MODULE SpiChips ----------------------------
(***************************************************************************)
(* chip_ad9510.c and chip_isla216p.c over the SPI transfers of WbSpi: each *)
(* driver keeps a copy of its chip's registers in memory, edits the copy,  *)
(* and uploads or downloads ranges of it one register at a time.  A job is *)
(* one call of such a function; it fixes the accesses it will make, which  *)
(* are then carried out register access by register access of the core.    *)
(***************************************************************************)
EXTENDS WbSpi

CONSTANTS
  Clocks,      \* the lines of the AD9510 clock dividers
  Adcs,        \* the lines of the ISLA216P converters
  PowerOn,     \* what the chips' registers hold at first
  Ranges,      \* the start and length arguments of uploads and downloads
  Masks,       \* the register group masks given to the ISLA216P functions
  TestModes,   \* the mode argument of chip_isla216p_test_path
  MaxJobs,     \* calls made (bound)
  MaxKills     \* programs killed, each in the first access of a call (bound)

REG_LAST == 90                  \* 0x5A
REG_UPDATE_REGISTERS == 90

AdRegs == 0 .. REG_LAST

(* The register groups of an ISLA216P: first register and length. *)
Group == [dut |-> <<8, 2>>, adc |-> <<32, 12>>, temp |-> <<75, 3>>,
          out |-> <<112, 5>>, cal |-> <<182, 1>>, test |-> <<192, 17>>]

GroupRegs(g) == Group[g][1] .. Group[g][1] + Group[g][2] - 1
TEST == Group.test[1]

IslaRegs == UNION {GroupRegs(g) : g \in DOMAIN Group}

ASSUME ChipsAssumption ==
  /\ Clocks \cap Adcs = {} /\ Lines = Clocks \cup Adcs
  /\ \A l \in Clocks : AdRegs \subseteq ChipRegs[l]
  /\ \A l \in Adcs : IslaRegs \cup {0} \subseteq ChipRegs[l]
  /\ PowerOn = [l \in Lines |-> PowerOn[l]]
  /\ \A l \in Lines : PowerOn[l] \in [ChipRegs[l] -> Byte]
  /\ \A r \in Ranges : r[1] \in AdRegs /\ r[2] \in Nat
  /\ Masks \subseteq SUBSET DOMAIN Group
  /\ TestModes \subseteq Byte /\ MaxJobs \in Nat /\ MaxKills \in Nat

VARIABLES
  mirror,      \* chip->regs and chip->reg_current
  script,      \* the accesses the call has still to make
  job,         \* the last call: what it is for, its registers in the order of its
               \* accesses, and as it began the chips, the copy and the select lines
  jobs,        \* calls made so far
  kills        \* programs killed so far

vars == <<spi_vars, mirror, script, job, jobs, kills>>

(* Both structs begin zeroed (pghal_alloc). *)
Zeroed == [l \in Lines |-> [r \in ChipRegs[l] |-> 0]]

NoJob == [what |-> "none", ss |-> NoOp.ss, range |-> {}, order |-> <<>>, was |-> PowerOn,
          copy |-> Zeroed[NoOp.ss], left |-> {}]

Init ==
  /\ pc = "idle" /\ then = <<>> /\ i = 0
  /\ op = NoOp
  /\ go = FALSE /\ selected = {} /\ rxtx = 0
  /\ frame = [l \in Lines |-> <<>>]
  /\ regs = PowerOn
  /\ mirror = Zeroed
  /\ script = <<>> /\ jobs = 0 /\ kills = 0
  /\ job = NoJob

Write(r, byte) == [rw |-> "write", reg |-> r, byte |-> byte]
Read(r)        == [rw |-> "read", reg |-> r, byte |-> 0]

TypeOK ==
  /\ SpiTypeOK
  /\ pc \in {"put", "go", "poll", "fetch"} => i < TransferLen(op)
  /\ \A l \in Lines : mirror[l] \in [ChipRegs[l] -> Byte]
  /\ script \in Seq([rw : {"write", "read"}, reg : 0 .. 8191, byte : Byte])
  /\ job.ss \in Lines /\ job.range \subseteq ChipRegs[job.ss]
  /\ jobs \in 0 .. MaxJobs /\ kills \in 0 .. MaxKills

(***************************************************************************)
(* The calls.                                                              *)
(***************************************************************************)
Ascending(first, last) == [k \in 1 .. last - first + 1 |-> first + k - 1]

(* A call is made while no other is under way: the program has one thread. *)
Call(what, l, range, newMirror, accesses) ==
  /\ pc = "idle" /\ script = <<>> /\ jobs < MaxJobs
  /\ jobs' = jobs + 1
  /\ script' = accesses
  /\ mirror' = [mirror EXCEPT ![l] = newMirror]
  /\ job' = [what |-> what, ss |-> l, range |-> range,
              order |-> [k \in DOMAIN accesses |-> accesses[k].reg],
              was |-> regs, copy |-> mirror[l], left |-> selected]
  /\ UNCHANGED <<spi_vars, kills>>

(* The loop includes its end, so it takes one register more than len. *)
AdEnd(start, len) == IF start + len > REG_LAST THEN REG_LAST ELSE start + len

(* Mutant: the loop excludes its end. *)
AdWritesExclusive(m, start, len) ==
  LET rs == Ascending(start, AdEnd(start, len) - 1)
  IN [k \in DOMAIN rs |-> Write(rs[k], m[rs[k]])]

AdWrites(m, start, len) ==
  LET rs == Ascending(start, AdEnd(start, len))
  IN [k \in DOMAIN rs |-> Write(rs[k], m[rs[k]])]

chip_ad9510_registers_upload(l, start, len) ==
  Call("upload", l, start .. AdEnd(start, len), mirror[l], AdWrites(mirror[l], start, len))

chip_ad9510_registers_download(l, start, len) ==
  LET rs == Ascending(start, AdEnd(start, len))
  IN Call("download", l, start .. AdEnd(start, len), mirror[l], [k \in DOMAIN rs |-> Read(rs[k])])

chip_ad9510_soft_reset(l) ==
  Call("reset", l, {}, [mirror[l] EXCEPT ![0] = 24], <<Write(0, 60), Write(0, 24)>>)

chip_ad9510_registers_commit(l) ==
  Call("commit", l, {}, mirror[l], <<Write(REG_UPDATE_REGISTERS, 1)>>)

(* The settings of the two configurations, and the ranges they upload. *)
Outputs(m, on, divided) ==
  [r \in DOMAIN m |->
    CASE r \in 60 .. 63 -> on
      [] r = 64 -> 8
      [] r \in 65 .. 67 -> 3
      [] r = 69 -> 26
      [] r \in divided -> IF r % 2 = 0 THEN 0 ELSE 144
      [] OTHER -> m[r]]

Config0Ranges == << <<60, 8>>, <<69, 1>>, <<72, 16>> >>

(* Mutant: the last dividers are not uploaded. *)
Config1RangesShort == << <<60, 8>>, <<69, 1>>, <<72, 6>> >>

Config1Ranges == << <<60, 8>>, <<69, 1>>, <<72, 8>> >>

Configure(l, m, ranges) ==
  Call("config", l, UNION {ranges[k][1] .. AdEnd(ranges[k][1], ranges[k][2]) : k \in 1 .. 3}, m,
       AdWrites(m, ranges[1][1], ranges[1][2]) \o AdWrites(m, ranges[2][1], ranges[2][2])
         \o AdWrites(m, ranges[3][1], ranges[3][2]))

chip_ad9510_config0(l) == Configure(l, Outputs(mirror[l], 10, 72 .. 87), Config0Ranges)
chip_ad9510_config1(l) == Configure(l, Outputs(mirror[l], 8, 72 .. 79), Config1Ranges)

(* The groups asked for, in order; the test mode goes in after its patterns. *)
DownloadOrder(g) == Ascending(Group[g][1], Group[g][1] + Group[g][2] - 1)

UploadOrder(g) ==
  LET rs == DownloadOrder(g)
  IN IF g = "test" THEN Tail(rs) \o <<Head(rs)>> ELSE rs

Part(mask, order, g) == IF g \in mask THEN order[g] ELSE <<>>

Flat(mask, order) ==
  Part(mask, order, "dut") \o Part(mask, order, "adc") \o Part(mask, order, "temp")
    \o Part(mask, order, "out") \o Part(mask, order, "cal") \o Part(mask, order, "test")

MaskRegs(mask) == UNION {GroupRegs(g) : g \in mask}

IslaUpload(what, l, mask, m) ==
  LET rs == Flat(mask, [g \in mask |-> UploadOrder(g)])
  IN Call(what, l, MaskRegs(mask), m, [k \in DOMAIN rs |-> Write(rs[k], m[rs[k]])])

chip_isla216p_registers_upload(l, mask) == IslaUpload("upload", l, mask, mirror[l])

chip_isla216p_registers_download(l, mask) ==
  LET rs == Flat(mask, [g \in mask |-> DownloadOrder(g)])
  IN Call("download", l, MaskRegs(mask), mirror[l], [k \in DOMAIN rs |-> Read(rs[k])])

PlainModes == {0, 32, 48, 160}
UserModes  == 128 .. 131

(* Each user pattern is a low and a high byte, four registers apart. *)
chip_isla216p_test_path(l, mode, patterns) ==
  /\ mode \in PlainModes \cup UserModes
  /\ IslaUpload("test", l, {"test"},
       [r \in ChipRegs[l] |->
          IF r = TEST THEN mode
          ELSE IF mode \in UserModes /\ r \in TEST + 1 .. TEST + 14 /\ (r - TEST) % 4 \in {1, 2}
            THEN LET b == patterns[((r - TEST) \div 4) + 1]
                 IN IF (r - TEST) % 4 = 1 THEN b % 256 ELSE b \div 256
          ELSE mirror[l][r]])

chip_isla216p_soft_reset(l) ==
  Call("reset", l, {}, mirror[l], <<Write(0, 165), Write(0, 129)>>)

(* The user patterns of the calls. *)
Patterns == <<513, 1027, 1541, 2055>>

Job ==
  \/ \E l \in Clocks :
       \/ \E r \in Ranges : \/ chip_ad9510_registers_upload(l, r[1], r[2])
                            \/ chip_ad9510_registers_download(l, r[1], r[2])
       \/ chip_ad9510_soft_reset(l) \/ chip_ad9510_registers_commit(l)
       \/ chip_ad9510_config0(l) \/ chip_ad9510_config1(l)
  \/ \E l \in Adcs :
       \/ \E mask \in Masks : \/ chip_isla216p_registers_upload(l, mask)
                              \/ chip_isla216p_registers_download(l, mask)
       \/ \E mode \in TestModes : chip_isla216p_test_path(l, mode, Patterns)
       \/ chip_isla216p_soft_reset(l)

(* The next access of the call: one byte of data each. *)
Transfers(l, a) ==
  IF a.rw = "write" THEN pghal_spi_a16_write(l, a.reg, <<a.byte>>)
  ELSE pghal_spi_a16_read(l, a.reg, 1)

Begin ==
  /\ script # <<>>
  /\ Access(Transfers(job.ss, Head(script)))
  /\ UNCHANGED <<mirror, script, job, jobs, kills>>

(* A download reads straight into the copy. *)
FetchStep ==
  /\ Fetch
  /\ mirror' = [mirror EXCEPT ![job.ss][Head(script).reg] = rxtx]
  /\ UNCHANGED <<script, job, jobs, kills>>

Transfer ==
  /\ TransferStep
  /\ script' = IF pc = "deselect" /\ then = <<>> THEN Tail(script) ELSE script
  /\ UNCHANGED <<mirror, job, jobs, kills>>

Core == Shift /\ UNCHANGED <<mirror, script, job, jobs, kills>>

Driver == Begin \/ Transfer \/ FetchStep

(* In the first access of the call, which stands for the others: an access *)
(* is the same wherever in a call it comes.                                *)
InFirst == script # <<>> /\ Len(script) = Len(job.order)

Kill ==
  /\ InFirst /\ kills < MaxKills
  /\ kills' = kills + 1
  /\ Die
  /\ script' = <<>> /\ mirror' = Zeroed /\ job' = NoJob
  /\ UNCHANGED jobs

Restart == wb_spi_init /\ UNCHANGED <<mirror, script, job, jobs, kills>>

Next == Job \/ Driver \/ Core \/ Kill \/ Restart

Spec == Init /\ [][Next]_vars

(* The program keeps running its call, and the core ends every shift. *)
FairSpec == Spec /\ WF_vars(Driver) /\ WF_vars(Core)

(***************************************************************************)
(* Properties.                                                             *)
(***************************************************************************)
Returned == pc = "idle" /\ script = <<>>

(* No killed program has left the chip of this call selected. *)
Fresh == job.ss \notin job.left

(* While the core shifts a byte the driver leaves the data and the select  *)
(* lines alone: it polls after every GO (wb_spi.c:70-83).                  *)
ShiftUndisturbed == [][go /\ go' => selected' = selected /\ rxtx' = rxtx]_vars

(* What a chip has been sent when it is released is one whole access: its  *)
(* header, its address and one byte, and no other chip sees any of it,     *)
(* although a write is two transfers and a read one (pghal_spi.c:28-66).   *)
(* Only the first access after a killed program ends its frame, not one of *)
(* its own.                                                                *)
WholeAccess ==
  [][\A l \in selected \ selected' :
       LET a == Head(script)
       IN \/ InFirst /\ l \in job.left
          \/ /\ l = job.ss
             /\ frame[l] = IF a.rw = "write"
                             THEN <<a.reg \div 256, a.reg % 256, a.byte>>
                             ELSE <<128 + (a.reg \div 256), a.reg % 256, 255>>]_vars

(* The upload begins with register 0 and the copy has its reset bit set.   *)
Resetting == 0 \in job.range /\ Resets(0, mirror[job.ss][0])

(* When an upload, a configuration or a test pattern returns, every        *)
(* register of its range holds what the copy holds, and no other register  *)
(* of any chip has changed, unless the upload had a reset bit in it, which *)
(* clears the others (chip_ad9510.c:22-35, chip_isla216p.c:15-50).         *)
UploadExact ==
  Returned /\ job.what \in {"upload", "config", "test"} /\ Fresh =>
    \A l \in Lines : \A r \in ChipRegs[l] :
      regs[l][r] = IF l # job.ss THEN job.was[l][r]
                   ELSE IF r \in job.range THEN mirror[l][r]
                   ELSE IF Resetting THEN 0 ELSE job.was[l][r]

(* A configuration edits the copy and uploads three ranges of it: what it  *)
(* edited is on the chip, whether or not the copy was downloaded before,   *)
(* and what was in step before is in step after (chip_ad9510.c:77-153).    *)
NothingLeftOut ==
  Returned /\ job.what = "config" /\ Fresh =>
    \A r \in AdRegs :
      mirror[job.ss][r] # job.copy[r] \/ job.copy[r] = job.was[job.ss][r]
        => regs[job.ss][r] = mirror[job.ss][r]

(* When a download returns the copy of its range is the chip's registers,  *)
(* and the chip is as it was (chip_ad9510.c:37-48, chip_isla216p.c:85-114).*)
DownloadExact ==
  Returned /\ job.what = "download" /\ Fresh =>
    /\ \A r \in job.range : mirror[job.ss][r] = regs[job.ss][r]
    /\ regs = job.was

(* The converter is switched to a test mode only when all its patterns are *)
(* in place (chip_isla216p.c:40-49).                                       *)
PatternsBeforeMode ==
  [][\A l \in Adcs :
       regs'[l][TEST] # regs[l][TEST] /\ job.what = "test" /\ Fresh =>
         \A r \in GroupRegs("test") \ {TEST} : regs[l][r] = mirror[l][r]]_vars

(* A program killed inside an access leaves its chip selected, and nothing *)
(* releases it: the first access of the next program is taken for the rest *)
(* of that one, and may write or reset what nobody asked for.  That first  *)
(* access is all it costs: every other register of an upload or a download *)
(* is right when it returns (wb_spi.c:57, 88, pghal_spi.c:38-45).          *)
KillCostsOneAccess ==
  Returned /\ job.what \in {"upload", "config", "test", "download"} /\ ~Fresh =>
    \A r \in job.range \ {job.order[1]} : regs[job.ss][r] = mirror[job.ss][r]

(* Every call returns, or its program is killed: no poll waits for ever    *)
(* (wb_spi.c:73-76).                                                       *)
CallReturns == script # <<>> ~> script = <<>>

=============================================================================
