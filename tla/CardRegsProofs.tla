--------------------------- MODULE CardRegsProofs -------------------------
(***************************************************************************)
(* Proofs about CardRegs, for any programs, any bits of the port and any   *)
(* arguments of the calls.                                                 *)
(***************************************************************************)
EXTENDS CardRegs, SequenceTheorems, TLAPS

---------------------------------------------------------------------------
(* The inductive invariant. *)

Reads  == [k : {"read"}, val : {{}},
           reg : {"ddr", "reg0", "reg1", "gain", "offset", "csr", "start", "end", "ctl1",
                  "dna", "cnt", "tms", "tdi", "tdo", "ctl"}]
Writes == [k : {"write"}, reg : {"ddr"}, val : SUBSET Bits]
            \cup [k : {"write"}, val : Word,
                  reg : {"gain", "offset", "start", "end", "cnt", "tms", "tdi"}]
            \cup [k : {"write"}, reg : {"csr"}, val : Csr]
            \cup [k : {"write"}, reg : {"ctl1"}, val : {0, 16}]
Fields == [k : {"avg"}, reg : {"reg0", "reg1"}, val : 0 .. AvgTop]
            \cup [k : {"trig"}, reg : {"reg1"}, val : Int \X Int]
Start  == [k : {"start"}, reg : {"ctl"}, val : {{}}]

(* The transfers of the cores other than the port, and those of the port.  *)
Elsewhere == Reads \cup Writes \cup Fields \cup Start
OnPort    == [k : {"set", "clear"}, reg : {"out"}, val : SUBSET Bits]

Scripts == {s \in Seq(Elsewhere) \cup Seq(OnPort) : Len(s) <= 6}

(* The calls, by name.                                                     *)
Functions == {"none", "set_port_value", "set_port_direction", "set_avg", "set_trig",
              "set_calib", "get_calib", "shot", "stop", "registers_download",
              "set_address_range", "enable", "dna_download", "jtag_upload", "jtag_start",
              "jtag_download"}

Typed ==
  /\ card \in Card
  /\ calls \in 0 .. MaxCalls
  /\ script \in [Procs -> Scripts]
  /\ got \in [Procs -> Card]
  /\ call \in [Procs -> [fn : Functions, core : Cores, was : Promise]]
  /\ port \in [Procs -> SUBSET Bits]
  /\ asked \in Promise
  /\ overlapped \subseteq Cores

(* What is left of a call on the port makes the program's own bits what it *)
(* asked for, and touches no others.                                       *)
Set(v)   == Transfer("set", "out", v)
Clear(v) == Transfer("clear", "out", v)

Setting(p) ==
  \E s, c \in SUBSET Mine[p] :
    /\ script[p] = <<Set(s), Clear(c)>>
    /\ ((card.out \cap Mine[p]) \cup s) \ c = port[p]

Clearing(p) ==
  \E c \in SUBSET Mine[p] :
    /\ script[p] = <<Clear(c)>>
    /\ (card.out \cap Mine[p]) \ c = port[p]

Kept(p) == card.out \cap Mine[p] = port[p]

PortSteps ==
  \A p \in Procs :
    /\ port[p] \subseteq Mine[p]
    /\ IF call[p].core = "port"
       THEN Setting(p) \/ Clearing(p) \/ (script[p] = <<>> /\ Kept(p))
       ELSE script[p] \in Seq(Elsewhere) /\ Kept(p)

IInv == Typed /\ PortSteps

---------------------------------------------------------------------------
(* Transfers. *)

(* What the proofs use of the assumptions on the constants.                *)
LEMMA Constants ==
  /\ Fix \in Nat \ {0} /\ Half \in Nat \ {0} /\ Half = 2 * Fix
  /\ ByteMod \in Nat \ {0} /\ ByteMod * ByteMod = Half /\ 0 \in Byte
  /\ WordMod \in Nat /\ WordMod > Half
  /\ 0 \in Word /\ 1 \in Word /\ NoShift \in Word \X Word \X Word
  /\ MaxCalls \in Nat /\ AvgTop \in Nat
  /\ Avgs \subseteq Int /\ Trigs \subseteq Int
  BY CardAssumption DEF Word, NoShift, Byte, Half

(* The mask of a byte leaves a byte.                                       *)
LEMMA LowByte ==
  ASSUME NEW x \in Int
  PROVE  x % ByteMod \in Byte
  <1>1. ByteMod \in Nat \ {0}
    BY Constants
  <1>. QED
    BY <1>1 DEF Byte

(* The bits of a program are bits of the port and nobody else's.           *)
LEMMA OwnBits ==
  ASSUME NEW p \in Procs
  PROVE  /\ Mine[p] \subseteq Bits
         /\ \A q \in Procs \ {p} : Mine[p] \cap Mine[q] = {}
  BY CardAssumption DEF Bits

(* A register that is read holds a value that register can hold.           *)
LEMMA ReadKeepsCard ==
  ASSUME NEW c \in Card, NEW g \in Card, NEW t \in Reads
  PROVE  [g EXCEPT ![t.reg] = c[t.reg]] \in Card
  BY DEF Card, Reads

(* What is put above m values and what is put into them stay apart.        *)
LEMMA Split ==
  ASSUME NEW m \in Nat \ {0}, NEW q \in Nat, NEW r \in 0 .. m - 1
  PROVE  (q * m) + r \in Nat /\ ((q * m) + r) \div m = q /\ ((q * m) + r) % m = r
  <1>. DEFINE x == (q * m) + r
              y == x \div m
  <1>1. x \in Nat
    OBVIOUS
  <1>. HIDE DEF x
  <1>2. y \in Nat /\ x % m \in 0 .. m - 1 /\ x = (m * y) + (x % m)
    BY <1>1
  <1>. HIDE DEF y
  <1>3. ASSUME NEW a \in Nat, NEW b \in Nat, a + 1 <= b PROVE (m * a) + m <= m * b
    <2>1. m * (a + 1) <= m * b
      BY <1>3
    <2>. QED
      BY <2>1
  <1>4. x = (m * q) + r /\ m * q \in Nat /\ m * y \in Nat
    BY <1>2 DEF x
  <1>5. ~ (y + 1 <= q) /\ ~ (q + 1 <= y)
    BY <1>2, <1>3, <1>4
  <1>6. y = q
    BY <1>2, <1>5
  <1>7. x % m = r
    BY <1>2, <1>4, <1>6
  <1>. QED
    BY <1>1, <1>6, <1>7 DEF x, y

(* A register of two halves is a word, if its upper half is.               *)
LEMMA HalvesFit ==
  ASSUME NEW q \in Nat, NEW r \in 0 .. Half - 1, (q + 1) * Half <= WordMod
  PROVE  (q * Half) + r \in Word
  <1>1. (q + 1) * Half = (q * Half) + Half /\ q * Half \in Nat
    BY Constants
  <1>. QED
    BY <1>1, Constants DEF Word

(* The fields of a parameter register.                                     *)
LEMMA Halves ==
  ASSUME NEW word \in Word
  PROVE  /\ word \div Half \in Nat /\ word % Half \in 0 .. Half - 1
         /\ word = ((word \div Half) * Half) + (word % Half)
         /\ ((word \div Half) + 1) * Half <= WordMod
  <1>. DEFINE q == word \div Half
              k == WordMod \div Half
  <1>1. word \in Nat /\ word < WordMod /\ WordMod \in Nat /\ WordMod % Half = 0
    BY CardAssumption DEF Word
  <1>2. /\ q \in Nat /\ word % Half \in 0 .. Half - 1 /\ word = (q * Half) + (word % Half)
        /\ k \in Nat /\ WordMod = k * Half
    BY <1>1, Constants
  <1>. HIDE DEF q, k
  <1>3. ~ (k <= q)
    <2>. SUFFICES ASSUME k <= q PROVE FALSE
      OBVIOUS
    <2>1. k * Half <= q * Half
      BY <1>2, Constants
    <2>. QED
      BY <1>1, <1>2, <2>1, Constants
  <1>4. (q + 1) * Half <= k * Half
    <2>1. q + 1 <= k
      BY <1>2, <1>3
    <2>. QED
      BY <1>2, <2>1, Constants
  <1>. QED
    BY <1>2, <1>4 DEF q

(* The lower half is what the trigger's fields are read from.              *)
LEMMA TriggerBelow ==
  ASSUME NEW q \in Nat, NEW x \in Byte, NEW y \in Byte
  PROVE  /\ (y * ByteMod) + x \in 0 .. Half - 1
         /\ get_trig((q * Half) + ((y * ByteMod) + x)) = <<x, y>>
  <1>. DEFINE B == ByteMod
              low == (y * B) + x
              z == (q * B) + y
  <1>1. /\ B \in Nat \ {0} /\ x \in 0 .. B - 1 /\ y \in 0 .. B - 1 /\ B * B = Half
        /\ x \in Nat /\ y \in Nat
    BY Constants DEF Byte
  <1>. HIDE DEF B
  <1>2. low \in 0 .. Half - 1
    <2>1. (y + 1) * B <= B * B
      BY <1>1
    <2>2. (y + 1) * B = (y * B) + B /\ y * B \in Nat
      BY <1>1
    <2>. QED
      BY <1>1, <2>1, <2>2
  <1>3. z \in Nat /\ z % B = y
    BY <1>1, Split
  <1>4. (q * Half) + low = (z * B) + x
    <2>1. z * B = ((q * B) * B) + (y * B) /\ (q * B) * B = q * (B * B)
      BY <1>1
    <2>2. q * (B * B) \in Nat /\ y * B \in Nat
      BY <1>1
    <2>. QED
      BY <1>1, <2>1, <2>2
  <1>. HIDE DEF z
  <1>5. ((z * B) + x) \div B = z /\ ((z * B) + x) % B = x
    BY <1>1, <1>3, Split
  <1>6. get_trig((q * Half) + low) = <<x, y>>
    BY <1>3, <1>4, <1>5 DEF get_trig, B
  <1>. QED
    BY <1>2, <1>6 DEF B

(* The average is changed and the trigger left alone.                      *)
LEMMA AvgChanged ==
  ASSUME NEW word \in Word, NEW field \in 0 .. AvgTop
  PROVE  /\ with_avg(word, field) \in Word
         /\ get_avg(with_avg(word, field)) = field + 1
         /\ get_trig(with_avg(word, field)) = get_trig(word)
  <1>. DEFINE B == ByteMod
              q == word \div Half
              low == word % Half
              x == low % B
              y == low \div B
  <1>1. /\ q \in Nat /\ low \in 0 .. Half - 1 /\ word = (q * Half) + low
    BY Halves
  <1>. HIDE DEF q, low
  <1>2. field \in Nat /\ (field + 1) * Half <= WordMod
    <2>1. field \in Nat /\ field + 1 <= AvgTop + 1 /\ AvgTop \in Nat
      BY Constants
    <2>2. (field + 1) * Half <= (AvgTop + 1) * Half
      BY <2>1, Constants
    <2>3. (field + 1) * Half \in Nat /\ (AvgTop + 1) * Half \in Nat
      BY <2>1, Constants
    <2>. QED
      BY <2>1, <2>2, <2>3, CardAssumption
  <1>3. with_avg(word, field) = (field * Half) + low
    BY DEF with_avg, low
  <1>4. with_avg(word, field) \in Word
    BY <1>1, <1>2, <1>3, HalvesFit
  <1>5. get_avg(with_avg(word, field)) = field + 1
    <2>1. with_avg(word, field) \div Half = field
      BY <1>1, <1>2, <1>3, Split, Constants
    <2>. QED
      BY <2>1 DEF get_avg
  <1>6. x \in Byte /\ y \in Byte /\ low = (y * B) + x
    <2>1. low \in Nat /\ B \in Nat \ {0} /\ B * B = Half /\ low < B * B
      BY <1>1, Constants
    <2>. HIDE DEF B
    <2>2. x \in 0 .. B - 1 /\ y \in Nat /\ low = (y * B) + x
      BY <2>1
    <2>. HIDE DEF x, y
    <2>3. ~ (B <= y)
      <3>. SUFFICES ASSUME B <= y PROVE FALSE
        OBVIOUS
      <3>1. B * B <= y * B
        BY <2>1, <2>2
      <3>. QED
        BY <2>1, <2>2, <3>1
    <2>. QED
      BY <2>1, <2>2, <2>3 DEF Byte, B
  <1>. HIDE DEF x, y
  <1>7. /\ get_trig((q * Half) + ((y * B) + x)) = <<x, y>>
        /\ get_trig((field * Half) + ((y * B) + x)) = <<x, y>>
    BY <1>1, <1>2, <1>6, TriggerBelow
  <1>. HIDE DEF B
  <1>. QED
    BY <1>1, <1>3, <1>4, <1>5, <1>6, <1>7

(* The trigger is changed, to a byte of each argument, and the average     *)
(* left alone.                                                             *)
LEMMA TrigChanged ==
  ASSUME NEW word \in Word, NEW trig \in Int, NEW rf \in Int
  PROVE  /\ with_trig(word, trig, rf) \in Word
         /\ get_avg(with_trig(word, trig, rf)) = get_avg(word)
         /\ get_trig(with_trig(word, trig, rf)) = <<trig % ByteMod, rf % ByteMod>>
  <1>. DEFINE q == word \div Half
              x == trig % ByteMod
              y == rf % ByteMod
              low == (y * ByteMod) + x
  <1>1. q \in Nat /\ (q + 1) * Half <= WordMod
    BY Halves
  <1>2. x \in Byte /\ y \in Byte
    BY Constants DEF Byte
  <1>3. with_trig(word, trig, rf) = (q * Half) + low
    <2>1. with_trig(word, trig, rf) = ((q * Half) + (y * ByteMod)) + x
      BY DEF with_trig
    <2>. HIDE DEF q, x, y
    <2>2. q * Half \in Int /\ y * ByteMod \in Int /\ x \in Int
      BY <1>1, <1>2, Constants DEF Byte
    <2>. QED
      BY <2>1, <2>2
  <1>4. get_avg(word) = q + 1
    BY DEF get_avg
  <1>. HIDE DEF q, x, y
  <1>5. low \in 0 .. Half - 1 /\ get_trig((q * Half) + low) = <<x, y>>
    BY <1>1, <1>2, TriggerBelow
  <1>. HIDE DEF low
  <1>6. (q * Half) + low \in Word
    BY <1>1, <1>5, HalvesFit
  <1>7. get_avg((q * Half) + low) = q + 1
    <2>1. ((q * Half) + low) \div Half = q
      BY <1>1, <1>5, Split, Constants
    <2>. QED
      BY <2>1 DEF get_avg
  <1>. QED
    BY <1>3, <1>4, <1>5, <1>6, <1>7 DEF x, y

(* A transfer leaves the registers with values they can hold; only those   *)
(* to the port move its bits.                                              *)
LEMMA AfterKeepsCard ==
  ASSUME NEW c \in Card, NEW g \in Card, NEW t \in Elsewhere
  PROVE  After(c, t, g) \in Card /\ After(c, t, g).out = c.out
  <1>1. CASE t \in Reads
    <2>1. After(c, t, g) = c
      BY <1>1 DEF Reads, After
    <2>. QED
      BY <2>1
  <1>2. CASE t \in Writes
    <2>1. After(c, t, g) = [c EXCEPT ![t.reg] = t.val]
      BY <1>2 DEF Writes, After
    <2>2. [c EXCEPT ![t.reg] = t.val] \in Card /\ [c EXCEPT ![t.reg] = t.val].out = c.out
      BY <1>2 DEF Writes, Card
    <2>. QED
      BY <2>1, <2>2
  <1>3. CASE t \in Fields
    <2>1. /\ t.k = "avg" => After(c, t, g) = [c EXCEPT ![t.reg] = with_avg(g[t.reg], t.val)]
          /\ t.k = "trig" => After(c, t, g) = [c EXCEPT ![t.reg] = with_trig(g[t.reg], t.val[1], t.val[2])]
          /\ t.k \in {"avg", "trig"}
      BY <1>3 DEF Fields, After
    <2>2. t.reg \in {"reg0", "reg1"} /\ g[t.reg] \in Word
      BY <1>3 DEF Fields, Card
    <2>3. /\ t.k = "avg" => with_avg(g[t.reg], t.val) \in Word
          /\ t.k = "trig" => with_trig(g[t.reg], t.val[1], t.val[2]) \in Word
      <3>1. t.k = "avg" => t.val \in 0 .. AvgTop
        BY <1>3 DEF Fields
      <3>2. t.k = "trig" => t.val[1] \in Int /\ t.val[2] \in Int
        BY <1>3 DEF Fields
      <3>. QED
        BY <2>2, <3>1, <3>2, AvgChanged, TrigChanged
    <2>4. \A v \in Word : [c EXCEPT ![t.reg] = v] \in Card /\ [c EXCEPT ![t.reg] = v].out = c.out
      BY <2>2 DEF Card
    <2>. QED
      BY <2>1, <2>3, <2>4
  <1>4. CASE t \in Start
    <2>1. After(c, t, g) = [c EXCEPT !.ctl = 1, !.shifting = <<c.cnt, c.tms, c.tdi>>]
      BY <1>4 DEF Start, After
    <2>2. <<c.cnt, c.tms, c.tdi>> \in Word \X Word \X Word
      BY DEF Card
    <2>3. \A v \in Word \X Word \X Word :
            /\ [c EXCEPT !.ctl = 1, !.shifting = v] \in Card
            /\ [c EXCEPT !.ctl = 1, !.shifting = v].out = c.out
      BY DEF Card
    <2>. QED
      BY <2>1, <2>2, <2>3
  <1>. QED
    BY <1>1, <1>2, <1>3, <1>4 DEF Elsewhere

(* Setting and clearing bits of the port.                                  *)
LEMMA AfterOnPort ==
  ASSUME NEW c \in Card, NEW g, NEW v \in SUBSET Bits
  PROVE  /\ After(c, Set(v), g) \in Card /\ After(c, Set(v), g).out = c.out \cup v
         /\ After(c, Clear(v), g) \in Card /\ After(c, Clear(v), g).out = c.out \ v
  <1>1. /\ After(c, Set(v), g) = [c EXCEPT !.out = @ \cup v]
        /\ After(c, Clear(v), g) = [c EXCEPT !.out = @ \ v]
    BY DEF After, Set, Clear, Transfer
  <1>. QED
    BY <1>1, SMTT(30) DEF Card

---------------------------------------------------------------------------
(* The calls. *)

(* An address range is two words, also where its end wraps around.         *)
LEMMA RangeWords ==
  ASSUME NEW r \in Ranges
  PROVE  r[1] \in Word /\ (r[1] + r[2] - 1) % WordMod \in Word
  <1>1. r \in Word \X Word
    BY CardAssumption
  <1>2. r[1] \in Word /\ r[2] \in Word
    BY <1>1
  <1>3. r[1] + r[2] - 1 \in Int
    BY <1>2, Constants DEF Word
  <1>. QED
    BY <1>2, <1>3, Constants DEF Word

(* Every call is a few transfers, all to the port or all to other cores.   *)
LEMMA ScriptsElsewhere ==
  /\ \A v \in PortValues : set_port_direction(v) \in Seq(Elsewhere)
  /\ \A reg \in {"reg0", "reg1"}, a \in Avgs : set_avg(reg, a) \in Seq(Elsewhere)
  /\ \A trig, rf \in Trigs : set_trig(trig, rf) \in Seq(Elsewhere)
  /\ \A c \in Calibs : set_calib(c[1], c[2]) \in Seq(Elsewhere)
  /\ get_calib \in Seq(Elsewhere)
  /\ \A mode \in Modes : shot(mode) \in Seq(Elsewhere)
  /\ stop \in Seq(Elsewhere) /\ registers_download \in Seq(Elsewhere)
  /\ \A r \in Ranges : set_address_range(r[1], r[2]) \in Seq(Elsewhere)
  /\ \A flag \in BOOLEAN : fmc_csr_enable(flag) \in Seq(Elsewhere)
  /\ dna_registers_download \in Seq(Elsewhere)
  /\ \A s \in Shifts : jtag_registers_upload(s[1], s[2], s[3]) \in Seq(Elsewhere)
  /\ jtag_start \in Seq(Elsewhere) /\ jtag_registers_download \in Seq(Elsewhere)
  <1>1. \A reg : reg \in {"reg0", "reg1", "gain", "offset", "csr", "start", "end",
                          "dna", "tdo", "ctl"} => Read(reg) \in Elsewhere
    BY DEF Read, Transfer, Elsewhere, Reads
  <1>2. \A v \in PortValues : Write("ddr", v) \in Elsewhere
    BY CardAssumption DEF Write, Transfer, Elsewhere, Writes
  <1>3. \A reg, v : reg \in {"gain", "offset", "start", "end", "cnt", "tms", "tdi"} /\ v \in Word
                     => Write(reg, v) \in Elsewhere
    BY DEF Write, Transfer, Elsewhere, Writes
  <1>4. \A mode \in Modes, arm \in BOOLEAN : ScopeCsr(mode, arm) \in Elsewhere
    BY DEF ScopeCsr, Write, Transfer, Elsewhere, Writes, Csr
  <1>5. \A flag \in BOOLEAN : Write("ctl1", IF flag THEN 16 ELSE 0) \in Elsewhere
    BY DEF Write, Transfer, Elsewhere, Writes
  <1>6. Transfer("start", "ctl", {}) \in Elsewhere
    BY DEF Transfer, Elsewhere, Start
  <1>7. /\ \A reg \in {"reg0", "reg1"}, a \in Avgs : Transfer("avg", reg, AvgField(a)) \in Elsewhere
        /\ \A trig, rf \in Trigs : Transfer("trig", "reg1", <<trig, rf>>) \in Elsewhere
    <2>1. \A a \in Avgs : AvgField(a) \in 0 .. AvgTop
      BY CardAssumption DEF AvgField, Clamp
    <2>. QED
      BY <2>1, Constants DEF Transfer, Elsewhere, Fields
  <1>8. \A x \in Int : gain_fix(x) \in Word /\ offset_fix(x) % WordMod \in Word
    <2>. TAKE x \in Int
    <2>1. gain_fix(x) \in Word
      BY Constants DEF gain_fix, Clamp, Word
    <2>2. offset_fix(x) \in Int
      BY Constants DEF offset_fix, Clamp
    <2>. QED
      BY <2>1, <2>2, Constants DEF Word
  <1>9. \A v \in PortValues : set_port_direction(v) \in Seq(Elsewhere)
    BY <1>2 DEF set_port_direction
  <1>10. /\ \A reg \in {"reg0", "reg1"}, a \in Avgs : set_avg(reg, a) \in Seq(Elsewhere)
         /\ \A trig, rf \in Trigs : set_trig(trig, rf) \in Seq(Elsewhere)
    BY <1>1, <1>7 DEF set_avg, set_trig
  <1>11. /\ \A c \in Calibs : set_calib(c[1], c[2]) \in Seq(Elsewhere)
         /\ get_calib \in Seq(Elsewhere)
    BY <1>1, <1>3, <1>8, CardAssumption DEF set_calib, get_calib
  <1>12. /\ \A mode \in Modes : shot(mode) \in Seq(Elsewhere)
         /\ stop \in Seq(Elsewhere) /\ registers_download \in Seq(Elsewhere)
    <2>1. "multi" \in Modes
      BY DEF Modes
    <2>2. \A mode \in Modes : ScopeCsr(mode, FALSE) \in Elsewhere /\ ScopeCsr(mode, TRUE) \in Elsewhere
      BY <1>4
    <2>3. \A mode \in Modes : shot(mode) \in Seq(Elsewhere)
      <3>1. \A x, y \in Elsewhere : <<x, y>> \in Seq(Elsewhere)
        OBVIOUS
      <3>. QED
        BY <2>2, <3>1, Zenon DEF shot
    <2>4. stop \in Seq(Elsewhere)
      <3>1. \A x \in Elsewhere : <<x>> \in Seq(Elsewhere)
        OBVIOUS
      <3>. QED
        BY <2>1, <2>2, <3>1, Zenon DEF stop
    <2>5. registers_download \in Seq(Elsewhere)
      BY <1>1 DEF registers_download
    <2>. QED
      BY <2>3, <2>4, <2>5
  <1>13. \A r \in Ranges : set_address_range(r[1], r[2]) \in Seq(Elsewhere)
    <2>. TAKE r \in Ranges
    <2>1. r[1] \in Word /\ (r[1] + r[2] - 1) % WordMod \in Word
      BY RangeWords
    <2>2. <<Write("start", r[1]), Write("end", (r[1] + r[2] - 1) % WordMod)>> \in Seq(Elsewhere)
      BY <1>3, <2>1
    <2>. QED
      BY <1>12, <2>2, ConcatProperties DEF set_address_range
  <1>14. /\ \A flag \in BOOLEAN : fmc_csr_enable(flag) \in Seq(Elsewhere)
         /\ dna_registers_download \in Seq(Elsewhere)
    BY <1>1, <1>5 DEF fmc_csr_enable, dna_registers_download
  <1>15. /\ \A s \in Shifts : jtag_registers_upload(s[1], s[2], s[3]) \in Seq(Elsewhere)
         /\ jtag_start \in Seq(Elsewhere) /\ jtag_registers_download \in Seq(Elsewhere)
    BY <1>1, <1>3, <1>6, CardAssumption DEF jtag_registers_upload, jtag_start, jtag_registers_download
  <1>. QED
    BY <1>9, <1>10, <1>11, <1>12, <1>13, <1>14, <1>15

(* A call makes at most six transfers.                                     *)
LEMMA SixTransfers ==
  /\ \A v, mask : Len(set_port_value(v, mask)) <= 6 /\ Len(set_port_direction(v)) <= 6
  /\ \A reg, a, rf : Len(set_avg(reg, a)) <= 6 /\ Len(set_trig(a, rf)) <= 6
  /\ \A a, b : Len(set_calib(a, b)) <= 6 /\ Len(shot(a)) <= 6 /\ Len(fmc_csr_enable(a)) <= 6
  /\ Len(get_calib) <= 6 /\ Len(stop) <= 6 /\ Len(registers_download) <= 6
  /\ \A r \in Ranges : Len(set_address_range(r[1], r[2])) <= 6
  /\ \A a, b, c : Len(jtag_registers_upload(a, b, c)) <= 6
  /\ Len(jtag_start) <= 6 /\ Len(jtag_registers_download) <= 6 /\ Len(dna_registers_download) <= 6
  <1>1. /\ \A v, mask : Len(set_port_value(v, mask)) = 2 /\ Len(set_port_direction(v)) = 1
        /\ \A reg, a, rf : Len(set_avg(reg, a)) = 2 /\ Len(set_trig(a, rf)) = 2
        /\ \A a, b : Len(set_calib(a, b)) = 2 /\ Len(shot(a)) = 2 /\ Len(fmc_csr_enable(a)) = 1
    BY DEF set_port_value, set_port_direction, set_avg, set_trig, set_calib, shot, fmc_csr_enable
  <1>2. /\ Len(get_calib) = 2 /\ Len(stop) = 1 /\ Len(registers_download) = 3
        /\ \A a, b, c : Len(jtag_registers_upload(a, b, c)) = 3
        /\ Len(jtag_start) = 1 /\ Len(jtag_registers_download) = 2 /\ Len(dna_registers_download) = 1
    BY DEF get_calib, stop, registers_download, jtag_registers_upload, jtag_start,
           jtag_registers_download, dna_registers_download
  <1>3. \A r \in Ranges : Len(set_address_range(r[1], r[2])) = 6
    <2>. TAKE r \in Ranges
    <2>. DEFINE bounds == <<Write("start", r[1]), Write("end", (r[1] + r[2] - 1) % WordMod)>>
    <2>1. bounds \in Seq(Elsewhere) /\ Len(bounds) = 2
      BY RangeWords DEF Write, Transfer, Elsewhere, Writes
    <2>2. stop \in Seq(Elsewhere) /\ registers_download \in Seq(Elsewhere)
      BY ScriptsElsewhere
    <2>. HIDE DEF bounds
    <2>3. bounds \o stop \in Seq(Elsewhere) /\ Len(bounds \o stop) = 3
      <3>1. Len(bounds \o stop) = Len(bounds) + Len(stop) /\ bounds \o stop \in Seq(Elsewhere)
        BY <2>1, <2>2, ConcatProperties
      <3>. QED
        BY <1>2, <2>1, <3>1
    <2>4. Len((bounds \o stop) \o registers_download) = 6
      <3>1. Len((bounds \o stop) \o registers_download) = Len(bounds \o stop) + Len(registers_download)
        BY <2>2, <2>3, ConcatProperties
      <3>. QED
        BY <1>2, <2>3, <3>1
    <2>. QED
      BY <2>4 DEF set_address_range, bounds
  <1>4. 1 <= 6 /\ 2 <= 6 /\ 3 <= 6 /\ 6 <= 6
    OBVIOUS
  <1>5. /\ \A v, mask : Len(set_port_value(v, mask)) <= 6 /\ Len(set_port_direction(v)) <= 6
        /\ \A reg, a, rf : Len(set_avg(reg, a)) <= 6 /\ Len(set_trig(a, rf)) <= 6
        /\ \A a, b : Len(set_calib(a, b)) <= 6 /\ Len(shot(a)) <= 6 /\ Len(fmc_csr_enable(a)) <= 6
    BY <1>1, <1>4, Zenon
  <1>6. /\ Len(get_calib) <= 6 /\ Len(stop) <= 6 /\ Len(registers_download) <= 6
        /\ \A a, b, c : Len(jtag_registers_upload(a, b, c)) <= 6
        /\ Len(jtag_start) <= 6 /\ Len(jtag_registers_download) <= 6
        /\ Len(dna_registers_download) <= 6
    BY <1>2, <1>4, Zenon
  <1>. QED
    BY <1>3, <1>4, <1>5, <1>6, Zenon

---------------------------------------------------------------------------
(* Every step keeps the invariant. *)

(* The names the calls on the port use.                                    *)
LEMMA PortIsCore == "port" \in Cores /\ "none" \in Functions /\ "set_port_value" \in Functions
  BY DEF Cores, Functions

(* At the start no program drives a bit and no call is on its way.         *)
LEMMA InitInv == Init => IInv
  <1>. SUFFICES ASSUME Init PROVE IInv
    OBVIOUS
  <1>1. card \in Card /\ card.out = {}
    <2>1. Dna \in Seq(Word)
      BY CardAssumption
    <2>2. card = [out |-> {}, ddr |-> {}, gain |-> 0, offset |-> 0, start |-> 0, end |-> 0,
                  reg0 |-> 0, reg1 |-> 0,
                  csr |-> [mode |-> "multi", state |-> "idle"], ctl1 |-> 0, dna |-> Dna,
                  cnt |-> 0, tms |-> 0, tdi |-> 0, tdo |-> NoShift, ctl |-> 0,
                  shifting |-> NoShift]
      BY DEF Init
    <2>3. [mode |-> "multi", state |-> "idle"] \in Csr
      BY DEF Csr, Modes
    <2>. QED
      BY <2>1, <2>2, <2>3, Constants DEF Card
  <1>2. asked \in Promise
    <2>1. asked = [ddr |-> {}, reg0 |-> 1, reg1 |-> 1, trig |-> <<0, 0>>, calib |-> <<0, 0>>,
                   mode |-> "multi", armed |-> FALSE, range |-> <<0, 0>>,
                   enabled |-> FALSE, jtag |-> NoShift, shifted |-> NoShift, settled |-> TRUE]
      BY DEF Init
    <2>2. /\ <<0, 0>> \in Int \X Int /\ <<0, 0>> \in Word \X Word /\ "multi" \in Modes
          /\ <<0, 0>> \in Byte \X Byte
      BY Constants DEF Modes
    <2>. QED
      BY <2>1, <2>2, Constants DEF Promise
  <1>3. script = [p \in Procs |-> <<>>] /\ <<>> \in Scripts
    BY DEF Init, Scripts
  <1>4. /\ call = [p \in Procs |-> [fn |-> "none", core |-> "port", was |-> asked]]
        /\ got = [p \in Procs |-> card] /\ port = [p \in Procs |-> {}] /\ overlapped = {}
        /\ calls = 0
    BY DEF Init
  <1>5. call \in [Procs -> [fn : Functions, core : Cores, was : Promise]]
    <2>1. [fn |-> "none", core |-> "port", was |-> asked] \in [fn : Functions, core : Cores, was : Promise]
      BY <1>2, PortIsCore
    <2>. QED
      BY <1>4, <2>1
  <1>6. Typed
    BY <1>1, <1>2, <1>3, <1>4, <1>5, Constants DEF Typed
  <1>7. PortSteps
    BY <1>1, <1>3, <1>4 DEF PortSteps, Kept
  <1>. QED
    BY <1>6, <1>7 DEF IInv

(* A program with nothing left to transfer is not on the port.             *)
LEMMA EmptyScript ==
  ASSUME NEW p \in Procs, script[p] = <<>>
  PROVE  ~ Setting(p) /\ ~ Clearing(p)
  <1>1. \A a, b : <<a, b>> # <<>> /\ <<a>> # <<>>
    OBVIOUS
  <1>. QED
    BY <1>1 DEF Setting, Clearing

(* A call on another core begins: the program's bits are as they were.     *)
LEMMA BeginElsewhere ==
  ASSUME IInv, NEW p \in Procs, NEW fn \in Functions, NEW core \in Cores \ {"port"},
         NEW transfers \in Seq(Elsewhere), Len(transfers) <= 6,
         NEW promise \in Promise, Begin(p, fn, core, transfers, port[p], promise)
  PROVE  IInv'
  <1>1. transfers \in Scripts
    BY DEF Scripts
  <1>2. /\ script[p] = <<>> /\ calls < MaxCalls /\ calls' = calls + 1
        /\ call' = [call EXCEPT ![p] = [fn |-> fn, core |-> core, was |-> promise]]
        /\ script' = [script EXCEPT ![p] = transfers]
        /\ port' = [port EXCEPT ![p] = port[p]]
        /\ asked' = promise
        /\ overlapped' \in {overlapped, overlapped \cup {core}}
        /\ UNCHANGED <<card, got>>
    BY DEF Begin
  <1>3. Typed'
    BY <1>1, <1>2, Constants DEF IInv, Typed
  <1>4. PortSteps'
    <2>1. port' = port /\ \A q \in Procs : q # p => call'[q] = call[q] /\ script'[q] = script[q]
      BY <1>2 DEF IInv, Typed
    <2>2. call'[p].core # "port" /\ script'[p] \in Seq(Elsewhere)
      BY <1>2 DEF IInv, Typed
    <2>3. Kept(p)
      BY <1>2, EmptyScript DEF IInv, PortSteps
    <2>. QED
      BY <1>2, <2>1, <2>2, <2>3, SMTT(30) DEF IInv, PortSteps, Setting, Clearing, Kept
  <1>. QED
    BY <1>3, <1>4 DEF IInv


(* A call on the port begins: its set and its clear make the program's     *)
(* bits what it asks for.                                                  *)
LEMMA BeginOnPort ==
  ASSUME IInv, NEW p \in Procs, NEW v \in PortValues, NEW mask \in SUBSET Mine[p],
         Begin(p, "set_port_value", "port", set_port_value(v, mask),
               (port[p] \ mask) \cup (v \cap mask), asked)
  PROVE  IInv'
  <1>. DEFINE bits == (port[p] \ mask) \cup (v \cap mask)
              s == v \cap mask
              c == mask \ v
  <1>1. set_port_value(v, mask) = <<Set(s), Clear(c)>>
    BY DEF set_port_value, Set, Clear
  <1>2. s \in SUBSET Mine[p] /\ c \in SUBSET Mine[p] /\ Mine[p] \subseteq Bits
    BY OwnBits
  <1>3. port[p] \subseteq Mine[p] /\ bits \subseteq Mine[p] /\ bits \subseteq Bits
    BY <1>2 DEF IInv, PortSteps
  <1>4. <<Set(s), Clear(c)>> \in Scripts
    <2>1. Set(s) \in OnPort /\ Clear(c) \in OnPort
      BY <1>2 DEF OnPort, Set, Clear, Transfer
    <2>2. \A x, y \in OnPort : <<x, y>> \in Seq(OnPort) /\ Len(<<x, y>>) <= 6
      OBVIOUS
    <2>. QED
      BY <2>1, <2>2 DEF Scripts
  <1>5. /\ script[p] = <<>> /\ calls < MaxCalls /\ calls' = calls + 1
        /\ call' = [call EXCEPT ![p] = [fn |-> "set_port_value", core |-> "port", was |-> asked]]
        /\ script' = [script EXCEPT ![p] = <<Set(s), Clear(c)>>]
        /\ port' = [port EXCEPT ![p] = bits]
        /\ asked' = asked
        /\ overlapped' \in {overlapped, overlapped \cup {"port"}}
        /\ UNCHANGED <<card, got>>
    BY <1>1 DEF Begin
  <1>6. Kept(p)
    BY <1>5, EmptyScript DEF IInv, PortSteps
  <1>7. ((card.out \cap Mine[p]) \cup s) \ c = bits
    BY <1>6 DEF Kept
  <1>. HIDE DEF bits, s, c
  <1>8. Typed'
    <2>1. call' \in [Procs -> [fn : Functions, core : Cores, was : Promise]]
      <3>1. [fn |-> "set_port_value", core |-> "port", was |-> asked]
              \in [fn : Functions, core : Cores, was : Promise]
        BY PortIsCore DEF IInv, Typed
      <3>. QED
        BY <1>5, <3>1 DEF IInv, Typed
    <2>2. calls' \in 0 .. MaxCalls
      BY <1>5, Constants DEF IInv, Typed
    <2>. QED
      BY <1>3, <1>4, <1>5, <2>1, <2>2, PortIsCore DEF IInv, Typed
  <1>9. PortSteps'
    <2>1. \A q \in Procs : q # p => /\ call'[q] = call[q] /\ script'[q] = script[q]
                                   /\ port'[q] = port[q]
      BY <1>5 DEF IInv, Typed
    <2>2. call'[p].core = "port" /\ script'[p] = <<Set(s), Clear(c)>> /\ port'[p] = bits
      BY <1>5 DEF IInv, Typed
    <2>3. Setting(p)'
      BY <1>2, <1>5, <1>7, <2>2 DEF Setting
    <2>4. ASSUME NEW q \in Procs, q # p
          PROVE  /\ port'[q] \subseteq Mine[q]
                 /\ IF call'[q].core = "port"
                    THEN Setting(q)' \/ Clearing(q)' \/ (script'[q] = <<>> /\ Kept(q)')
                    ELSE script'[q] \in Seq(Elsewhere) /\ Kept(q)'
      BY <1>5, <2>1, <2>4 DEF IInv, PortSteps, Setting, Clearing, Kept
    <2>. QED
      BY <1>3, <2>2, <2>3, <2>4 DEF PortSteps
  <1>. QED
    BY <1>8, <1>9 DEF IInv

(* A transfer to another core moves no bit of the port, and one to the     *)
(* port moves no bit of another program.                                   *)
LEMMA StepInv ==
  ASSUME IInv, NEW p \in Procs, Step(p)
  PROVE  IInv'
  <1>. DEFINE t == Head(script[p])
  <1>1. /\ script[p] # <<>>
        /\ script' = [script EXCEPT ![p] = Tail(@)]
        /\ card' = After(card, t, got[p])
        /\ got' = IF t.k = "read" THEN [got EXCEPT ![p][t.reg] = card[t.reg]] ELSE got
        /\ UNCHANGED <<calls, call, port, asked, overlapped>>
    BY DEF Step, history
  <1>2. script[p] \in Scripts /\ card \in Card /\ got[p] \in Card
    BY DEF IInv, Typed
  <1>3. Tail(script[p]) \in Scripts /\ (t \in Elsewhere \/ t \in OnPort)
    <2>1. ASSUME NEW S, script[p] \in Seq(S)
          PROVE  t \in S /\ Tail(script[p]) \in Seq(S) /\ Len(Tail(script[p])) = Len(script[p]) - 1
      BY <1>1, <2>1, HeadTailProperties
    <2>2. Len(script[p]) \in Nat /\ Len(script[p]) <= 6
      BY <1>2, LenProperties DEF Scripts
    <2>3. CASE script[p] \in Seq(Elsewhere)
      <3>1. t \in Elsewhere /\ Tail(script[p]) \in Seq(Elsewhere) /\ Len(Tail(script[p])) = Len(script[p]) - 1
        BY <2>1, <2>3
      <3>. QED
        BY <2>2, <3>1 DEF Scripts
    <2>4. CASE script[p] \in Seq(OnPort)
      <3>1. t \in OnPort /\ Tail(script[p]) \in Seq(OnPort) /\ Len(Tail(script[p])) = Len(script[p]) - 1
        BY <2>1, <2>4
      <3>. QED
        BY <2>2, <3>1 DEF Scripts
    <2>. QED
      BY <1>2, <2>3, <2>4 DEF Scripts
  <1>. HIDE DEF t
  <1>4. \A q \in Procs : q # p => script'[q] = script[q]
    BY <1>1 DEF IInv, Typed
  <1>5. script'[p] = Tail(script[p])
    BY <1>1 DEF IInv, Typed
  <1>6. card' \in Card /\ got' \in [Procs -> Card]
    <2>1. CASE t \in Elsewhere
      <3>1. card' \in Card
        BY <1>1, <1>2, <2>1, AfterKeepsCard
      <3>2. CASE t.k # "read"
        BY <1>1, <3>1, <3>2 DEF IInv, Typed
      <3>3. CASE t.k = "read"
        <4>1. t \in Reads
          BY <2>1, <3>3 DEF Elsewhere, Writes, Fields, Start
        <4>2. [got[p] EXCEPT ![t.reg] = card[t.reg]] \in Card
          BY <1>2, <4>1, ReadKeepsCard
        <4>3. got' = [got EXCEPT ![p] = [got[p] EXCEPT ![t.reg] = card[t.reg]]]
          BY <1>1, <3>3
        <4>. QED
          BY <3>1, <4>2, <4>3 DEF IInv, Typed
      <3>. QED
        BY <3>2, <3>3
    <2>2. CASE t \in OnPort
      <3>1. t.val \in SUBSET Bits /\ (t = Set(t.val) \/ t = Clear(t.val)) /\ t.k # "read"
        BY <2>2 DEF OnPort, Set, Clear, Transfer
      <3>2. card' \in Card
        BY <1>1, <1>2, <3>1, AfterOnPort
      <3>. QED
        BY <1>1, <3>1, <3>2 DEF IInv, Typed
    <2>. QED
      BY <1>3, <2>1, <2>2
  <1>7. Typed'
    <2>1. script' \in [Procs -> Scripts]
      BY <1>1, <1>3 DEF IInv, Typed
    <2>. QED
      BY <1>1, <1>6, <2>1 DEF IInv, Typed
  <1>8. ASSUME NEW q \in Procs, q # p, card'.out \cap Mine[q] = card.out \cap Mine[q]
        PROVE  /\ port'[q] \subseteq Mine[q]
               /\ IF call'[q].core = "port"
                  THEN Setting(q)' \/ Clearing(q)' \/ (script'[q] = <<>> /\ Kept(q)')
                  ELSE script'[q] \in Seq(Elsewhere) /\ Kept(q)'
    BY <1>1, <1>4, <1>8 DEF IInv, PortSteps, Setting, Clearing, Kept
  <1>9. PortSteps'
    <2>1. CASE call[p].core # "port"
      <3>1. script[p] \in Seq(Elsewhere) /\ Kept(p) /\ port[p] \subseteq Mine[p]
        BY <2>1 DEF IInv, PortSteps
      <3>2. t \in Elsewhere /\ Tail(script[p]) \in Seq(Elsewhere)
        BY <1>1, <3>1, HeadTailProperties DEF t
      <3>3. card'.out = card.out
        BY <1>1, <1>2, <3>2, AfterKeepsCard
      <3>4. \A q \in Procs : card'.out \cap Mine[q] = card.out \cap Mine[q]
        BY <3>3
      <3>. QED
        BY <1>1, <1>5, <1>8, <2>1, <3>1, <3>2, <3>4 DEF PortSteps, Kept
    <2>2. ASSUME call[p].core = "port", Setting(p) PROVE PortSteps'
      <3>1. PICK s \in SUBSET Mine[p], c \in SUBSET Mine[p] :
              /\ script[p] = <<Set(s), Clear(c)>>
              /\ ((card.out \cap Mine[p]) \cup s) \ c = port[p]
        BY <2>2 DEF Setting
      <3>2. t = Set(s) /\ script'[p] = <<Clear(c)>>
        BY <1>5, <3>1 DEF t
      <3>3. card'.out = card.out \cup s
        BY <1>1, <1>2, <3>2, OwnBits, AfterOnPort
      <3>4. \A q \in Procs : q # p => card'.out \cap Mine[q] = card.out \cap Mine[q]
        BY <3>3, OwnBits
      <3>5. Clearing(p)'
        <4>1. (card'.out \cap Mine[p]) \ c = port'[p]
          BY <1>1, <3>1, <3>3
        <4>. QED
          BY <3>2, <4>1 DEF Clearing
      <3>. QED
        BY <1>1, <1>8, <2>2, <3>4, <3>5 DEF IInv, PortSteps
    <2>3. ASSUME call[p].core = "port", Clearing(p) PROVE PortSteps'
      <3>1. PICK c \in SUBSET Mine[p] :
              /\ script[p] = <<Clear(c)>>
              /\ (card.out \cap Mine[p]) \ c = port[p]
        BY <2>3 DEF Clearing
      <3>2. t = Clear(c) /\ script'[p] = <<>>
        BY <1>5, <3>1 DEF t
      <3>3. card'.out = card.out \ c
        BY <1>1, <1>2, <3>2, OwnBits, AfterOnPort
      <3>4. \A q \in Procs : q # p => card'.out \cap Mine[q] = card.out \cap Mine[q]
        BY <3>3, OwnBits
      <3>5. Kept(p)'
        BY <1>1, <3>1, <3>3 DEF Kept
      <3>. QED
        BY <1>1, <1>8, <2>3, <3>2, <3>4, <3>5 DEF IInv, PortSteps
    <2>. QED
      BY <1>1, <2>1, <2>2, <2>3 DEF IInv, PortSteps
  <1>. QED
    BY <1>7, <1>9 DEF IInv

(* What the cores do by themselves moves no bit of the port.               *)
LEMMA CoreInv ==
  ASSUME IInv, Trigger \/ ShiftDone
  PROVE  IInv'
  <1>1. card' \in Card /\ card'.out = card.out
    <2>1. CASE Trigger
      <3>1. card \in Card /\ card' = [card EXCEPT !.csr = [card.csr EXCEPT !.state = "triggered"]]
        BY <2>1 DEF Trigger, IInv, Typed
      <3>2. card.csr \in Csr
        BY <3>1 DEF Card
      <3>3. [card.csr EXCEPT !.state = "triggered"] \in Csr
        BY <3>2 DEF Csr
      <3>4. \A v \in Csr : [card EXCEPT !.csr = v] \in Card /\ [card EXCEPT !.csr = v].out = card.out
        BY <3>1 DEF Card
      <3>. QED
        BY <3>1, <3>3, <3>4
    <2>2. CASE ShiftDone
      <3>1. card \in Card /\ card' = [card EXCEPT !.ctl = 0, !.tdo = card.shifting]
        BY <2>2 DEF ShiftDone, IInv, Typed
      <3>2. card.shifting \in Word \X Word \X Word
        BY <3>1 DEF Card
      <3>3. \A v \in Word \X Word \X Word :
              /\ [card EXCEPT !.ctl = 0, !.tdo = v] \in Card
              /\ [card EXCEPT !.ctl = 0, !.tdo = v].out = card.out
        BY <3>1 DEF Card
      <3>. QED
        BY <3>1, <3>2, <3>3
    <2>. QED
      BY <2>1, <2>2
  <1>2. UNCHANGED <<calls, call, script, got, port, asked, overlapped>>
    BY DEF Trigger, ShiftDone, history
  <1>3. Typed'
    BY <1>1, <1>2 DEF IInv, Typed
  <1>4. PortSteps'
    BY <1>1, <1>2 DEF IInv, PortSteps, Setting, Clearing, Kept
  <1>. QED
    BY <1>3, <1>4 DEF IInv


(* The calls, each on one core: they begin with the program's bits as they *)
(* are, but for the one on the port, and ask for what their core can hold. *)
LEMMA CallInv ==
  ASSUME IInv, NEW p \in Procs, Gpio(p) \/ BpmParams(p) \/ XwbScope(p) \/ SmallCores(p)
  PROVE  IInv'
  <1>. USE ScriptsElsewhere, SixTransfers
  <1>1. asked \in Promise /\ card \in Card
    BY DEF IInv, Typed
  <1>2. \A x, low, high \in Int : Clamp(x, low, high) \in Int
    BY DEF Clamp
  <1>3. CASE Gpio(p)
    <2>1. PICK v \in PortValues :
            \/ \E mask \in SUBSET Mine[p] :
                 Begin(p, "set_port_value", "port", set_port_value(v, mask),
                       (port[p] \ mask) \cup (v \cap mask), asked)
            \/ Begin(p, "set_port_direction", "ddr", set_port_direction(v), port[p],
                     [asked EXCEPT !.ddr = v])
      BY <1>3 DEF Gpio
    <2>2. [asked EXCEPT !.ddr = v] \in Promise
      BY <1>1, CardAssumption DEF Promise
    <2>3. "ddr" \in Cores \ {"port"}
      BY DEF Cores
    <2>. QED
      BY <2>1, <2>2, <2>3, BeginOnPort, BeginElsewhere DEF Functions
  <1>4. CASE BpmParams(p)
    <2>1. ASSUME NEW reg \in {"reg0", "reg1"}, NEW a \in Avgs,
                 Begin(p, "set_avg", reg, set_avg(reg, a), port[p],
                       [asked EXCEPT ![reg] = Clamp(a, 1, AvgTop + 1)])
          PROVE  IInv'
      <3>1. Clamp(a, 1, AvgTop + 1) \in Int
        <4>1. a \in Int /\ 1 \in Int /\ AvgTop + 1 \in Int
          BY CardAssumption
        <4>. QED
          BY <1>2, <4>1
      <3>2. [asked EXCEPT ![reg] = Clamp(a, 1, AvgTop + 1)] \in Promise
        BY <1>1, <3>1 DEF Promise
      <3>3. reg \in Cores \ {"port"}
        BY DEF Cores
      <3>. QED
        BY <2>1, <3>2, <3>3, BeginElsewhere DEF Functions
    <2>2. ASSUME NEW trig \in Trigs, NEW rf \in Trigs,
                 Begin(p, "set_trig", "reg1", set_trig(trig, rf), port[p],
                       [asked EXCEPT !.trig = <<trig % ByteMod, rf % ByteMod>>])
          PROVE  IInv'
      <3>1. [asked EXCEPT !.trig = <<trig % ByteMod, rf % ByteMod>>] \in Promise
        <4>1. trig \in Int /\ rf \in Int
          BY Constants
        <4>2. trig % ByteMod \in Byte /\ rf % ByteMod \in Byte
          BY <4>1, LowByte
        <4>3. <<trig % ByteMod, rf % ByteMod>> \in Byte \X Byte
          BY <4>2
        <4>4. \A v \in Byte \X Byte : [asked EXCEPT !.trig = v] \in Promise
          BY <1>1 DEF Promise
        <4>. QED
          BY <4>3, <4>4
      <3>2. "reg1" \in Cores \ {"port"}
        BY DEF Cores
      <3>. QED
        BY <2>2, <3>1, <3>2, BeginElsewhere DEF Functions
    <2>3. ASSUME NEW c \in Calibs,
                 Begin(p, "set_calib", "calib", set_calib(c[1], c[2]), port[p],
                       [asked EXCEPT !.calib = <<Clamp(c[1], 0, Half - 1),
                                                 Clamp(c[2], -Fix, Fix - 1)>>])
          PROVE  IInv'
      <3>1. Clamp(c[1], 0, Half - 1) \in Int /\ Clamp(c[2], -Fix, Fix - 1) \in Int
        <4>1. c[1] \in Int /\ c[2] \in Int
          BY CardAssumption
        <4>2. 0 \in Int /\ Half - 1 \in Int /\ -Fix \in Int /\ Fix - 1 \in Int
          BY Constants
        <4>. QED
          BY <1>2, <4>1, <4>2
      <3>2. \A v \in Int \X Int : [asked EXCEPT !.calib = v] \in Promise
        BY <1>1 DEF Promise
      <3>3. "calib" \in Cores \ {"port"}
        BY DEF Cores
      <3>. QED
        BY <2>3, <3>1, <3>2, <3>3, BeginElsewhere DEF Functions
    <2>4. ASSUME Begin(p, "get_calib", "calib", get_calib, port[p], asked)
          PROVE  IInv'
      <3>1. "calib" \in Cores \ {"port"}
        BY DEF Cores
      <3>. QED
        BY <1>1, <2>4, <3>1, BeginElsewhere DEF Functions
    <2>. QED
      BY <1>4, <2>1, <2>2, <2>3, <2>4 DEF BpmParams
  <1>5. CASE XwbScope(p)
    <2>1. "scope" \in Cores \ {"port"} /\ "multi" \in Modes
      BY DEF Cores, Modes
    <2>2. ASSUME NEW mode \in Modes,
                 Begin(p, "shot", "scope", shot(mode), port[p],
                       [asked EXCEPT !.mode = mode, !.armed = TRUE])
          PROVE  IInv'
      <3>1. [asked EXCEPT !.mode = mode, !.armed = TRUE] \in Promise
        BY <1>1 DEF Promise
      <3>. QED
        BY <2>1, <2>2, <3>1, BeginElsewhere DEF Functions
    <2>3. ASSUME Begin(p, "stop", "scope", stop, port[p],
                       [asked EXCEPT !.mode = "multi", !.armed = FALSE])
          PROVE  IInv'
      <3>1. [asked EXCEPT !.mode = "multi", !.armed = FALSE] \in Promise
        BY <1>1, <2>1 DEF Promise
      <3>. QED
        BY <2>1, <2>3, <3>1, BeginElsewhere DEF Functions
    <2>4. ASSUME Begin(p, "registers_download", "scope", registers_download, port[p], asked)
          PROVE  IInv'
      BY <1>1, <2>1, <2>4, BeginElsewhere DEF Functions
    <2>5. ASSUME NEW r \in Ranges,
                 Begin(p, "set_address_range", "scope", set_address_range(r[1], r[2]), port[p],
                       [asked EXCEPT !.mode = "multi", !.armed = FALSE,
                                     !.range = <<r[1], (r[1] + r[2] - 1) % WordMod>>])
          PROVE  IInv'
      <3>1. <<r[1], (r[1] + r[2] - 1) % WordMod>> \in Word \X Word
        BY RangeWords
      <3>2. \A v \in Word \X Word :
              [asked EXCEPT !.mode = "multi", !.armed = FALSE, !.range = v] \in Promise
        BY <1>1, <2>1 DEF Promise
      <3>. QED
        BY <2>1, <2>5, <3>1, <3>2, BeginElsewhere DEF Functions
    <2>. QED
      BY <1>5, <2>2, <2>3, <2>4, <2>5 DEF XwbScope
  <1>6. CASE SmallCores(p)
    <2>1. {"fmc_csr", "dna", "jtag"} \subseteq Cores \ {"port"}
      BY DEF Cores
    <2>2. ASSUME NEW flag \in BOOLEAN,
                 Begin(p, "enable", "fmc_csr", fmc_csr_enable(flag), port[p],
                       [asked EXCEPT !.enabled = flag])
          PROVE  IInv'
      <3>1. [asked EXCEPT !.enabled = flag] \in Promise
        BY <1>1 DEF Promise
      <3>. QED
        BY <2>1, <2>2, <3>1, BeginElsewhere DEF Functions
    <2>3. ASSUME Begin(p, "dna_download", "dna", dna_registers_download, port[p], asked)
          PROVE  IInv'
      BY <1>1, <2>1, <2>3, BeginElsewhere DEF Functions
    <2>4. ASSUME NEW s \in Shifts,
                 Begin(p, "jtag_upload", "jtag", jtag_registers_upload(s[1], s[2], s[3]), port[p],
                       [asked EXCEPT !.jtag = s])
          PROVE  IInv'
      <3>1. [asked EXCEPT !.jtag = s] \in Promise
        BY <1>1, CardAssumption DEF Promise
      <3>. QED
        BY <2>1, <2>4, <3>1, BeginElsewhere DEF Functions
    <2>5. ASSUME Begin(p, "jtag_start", "jtag", jtag_start, port[p],
                       [asked EXCEPT !.shifted = asked.jtag])
          PROVE  IInv'
      <3>1. [asked EXCEPT !.shifted = asked.jtag] \in Promise
        BY <1>1 DEF Promise
      <3>. QED
        BY <2>1, <2>5, <3>1, BeginElsewhere DEF Functions
    <2>6. ASSUME Begin(p, "jtag_download", "jtag", jtag_registers_download, port[p],
                       [asked EXCEPT !.settled = (card.ctl = 0)])
          PROVE  IInv'
      <3>1. [asked EXCEPT !.settled = (card.ctl = 0)] \in Promise
        BY <1>1 DEF Promise
      <3>. QED
        BY <2>1, <2>6, <3>1, BeginElsewhere DEF Functions
    <2>. QED
      BY <1>6, <2>2, <2>3, <2>4, <2>5, <2>6 DEF SmallCores
  <1>. QED
    BY <1>3, <1>4, <1>5, <1>6

(* Every step keeps the invariant.                                         *)
LEMMA NextInv == IInv /\ [Next]_vars => IInv'
  <1>. SUFFICES ASSUME IInv, [Next]_vars PROVE IInv'
    OBVIOUS
  <1>1. CASE UNCHANGED vars
    BY <1>1 DEF IInv, Typed, PortSteps, Setting, Clearing, Kept, vars, history
  <1>2. CASE Next
    BY <1>2, CallInv, StepInv, CoreInv DEF Next
  <1>. QED
    BY <1>1, <1>2

(* Every reachable state satisfies the inductive invariant.                *)
THEOREM Invariance == Spec => []IInv
  <1>. QED
    BY InitInv, NextInv, PTL DEF Spec

(* The registers hold what they can hold, also where arguments are out of  *)
(* range or wrap around, and no call makes more than six transfers.        *)
THEOREM TypeCorrect == Spec => []TypeOK
  <1>1. IInv => TypeOK
    <2>. SUFFICES ASSUME IInv PROVE TypeOK
      OBVIOUS
    <2>1. \A p \in Procs : Len(script[p]) <= 6 /\ got[p] \in Card /\ call[p].core \in Cores
      BY DEF IInv, Typed, Scripts
    <2>. QED
      BY <2>1 DEF IInv, Typed, TypeOK
  <1>. QED
    BY <1>1, Invariance, PTL

(* The bits a program drives stay as it asked, whatever the other programs *)
(* do to the port and to the other cores at the same time.                 *)
THEOREM AlwaysPortKept == Spec => []PortKept
  <1>1. IInv => PortKept
    <2>. SUFFICES ASSUME IInv, NEW p \in Procs, ~ Busy(p, "port") PROVE Kept(p)
      BY DEF PortKept, Kept
    <2>1. script[p] = <<>> \/ call[p].core # "port"
      BY DEF Busy
    <2>. QED
      BY <2>1, EmptyScript DEF IInv, PortSteps
  <1>. QED
    BY <1>1, Invariance, PTL

---------------------------------------------------------------------------
(* What the calls have asked for, and how much of it is there. *)

(* The registers of a core, and what the calls on it ask for.              *)
RegsOf(core) ==
  CASE core = "port"    -> {"out"}
    [] core = "ddr"     -> {"ddr"}
    [] core = "reg0"    -> {"reg0"}
    [] core = "reg1"    -> {"reg1"}
    [] core = "calib"   -> {"gain", "offset"}
    [] core = "scope"   -> {"csr", "start", "end"}
    [] core = "fmc_csr" -> {"ctl1"}
    [] core = "dna"     -> {"dna"}
    [] core = "jtag"    -> {"cnt", "tms", "tdi", "tdo", "ctl", "shifting"}

AsksOf(core) ==
  CASE core = "port"    -> {}
    [] core = "ddr"     -> {"ddr"}
    [] core = "reg0"    -> {"reg0"}
    [] core = "reg1"    -> {"reg1", "trig"}
    [] core = "calib"   -> {"calib"}
    [] core = "scope"   -> {"mode", "armed", "range"}
    [] core = "fmc_csr" -> {"enabled"}
    [] core = "dna"     -> {}
    [] core = "jtag"    -> {"jtag", "shifted", "settled"}

CsrAs(c, a)   == c.csr.mode = a.mode /\ (c.csr.state # "idle" <=> a.armed)
RangeAs(c, a) == <<c.start, c.end>> = a.range
CalibAs(c, a) == <<c.gain, int16(c.offset)>> = a.calib
JtagAs(c, a)  ==
  /\ <<c.cnt, c.tms, c.tdi>> = a.jtag
  /\ c.ctl = 0 => c.tdo = a.shifted
  /\ c.ctl = 1 => c.shifting = a.shifted

(* Says, for registers c and promises a, with the shift under way.         *)
Holds(core, c, a) ==
  /\ core = "ddr"     => c.ddr = a.ddr
  /\ core = "reg0"    => get_avg(c.reg0) = a.reg0
  /\ core = "reg1"    => get_avg(c.reg1) = a.reg1 /\ get_trig(c.reg1) = a.trig
  /\ core = "calib"   => CalibAs(c, a)
  /\ core = "scope"   => CsrAs(c, a) /\ RangeAs(c, a)
  /\ core = "fmc_csr" => (c.ctl1 # 0 <=> a.enabled)
  /\ core = "dna"     => c.dna = Dna
  /\ core = "jtag"    => JtagAs(c, a)

(* What call fn has brought its program, which has read the words g.       *)
Brought(fn, g, w) ==
  /\ fn = "get_calib" => <<g.gain, int16(g.offset)>> = w.calib
  /\ fn \in {"registers_download", "set_address_range"} => <<g.start, g.end>> = w.range
  /\ fn = "dna_download" => g.dna = Dna
  /\ fn = "jtag_download" /\ w.settled => <<g.tdo, g.ctl>> = <<w.shifted, 0>>

(* The places inside a call fn that was promised w, has the transfers s    *)
(* left to make and has read g: what is already there, and that the rest   *)
(* of it makes the rest.                                                   *)
DdrPlace(fn, c, a, s, g, w) ==
  fn = "set_port_direction" /\ s = <<Write("ddr", a.ddr)>>

ParamPlace(reg, fn, c, a, s, g, w) ==
  \/ /\ fn = "set_avg" /\ (reg = "reg1" => get_trig(c.reg1) = a.trig)
     /\ \E v \in 0 .. AvgTop :
          /\ v + 1 = a[reg]
          /\ \/ s = <<Read(reg), Transfer("avg", reg, v)>>
             \/ s = <<Transfer("avg", reg, v)>> /\ g[reg] = c[reg]
  \/ /\ fn = "set_trig" /\ reg = "reg1" /\ get_avg(c.reg1) = a.reg1
     /\ \E v \in Int \X Int :
          /\ <<v[1] % ByteMod, v[2] % ByteMod>> = a.trig
          /\ \/ s = <<Read(reg), Transfer("trig", reg, v)>>
             \/ s = <<Transfer("trig", reg, v)>> /\ g[reg] = c[reg]

CalibPlace(fn, c, a, s, g, w) ==
  \/ /\ fn = "set_calib"
     /\ \E gain, offset \in Word :
          /\ a.calib = <<gain, int16(offset)>>
          /\ \/ s = <<Write("gain", gain), Write("offset", offset)>>
             \/ s = <<Write("offset", offset)>> /\ c.gain = gain
  \/ /\ fn = "get_calib" /\ CalibAs(c, a) /\ w.calib = a.calib
     /\ \/ s = <<Read("gain"), Read("offset")>>
        \/ s = <<Read("offset")>> /\ g.gain = c.gain

Downloading(c, a, s, g, w) ==
  /\ CsrAs(c, a) /\ RangeAs(c, a) /\ w.range = a.range
  /\ \/ s = <<Read("csr"), Read("start"), Read("end")>>
     \/ s = <<Read("start"), Read("end")>>
     \/ s = <<Read("end")>> /\ g.start = c.start

Rested(mode) == ScopeCsr(mode, FALSE)
Armed(mode)  == ScopeCsr(mode, TRUE)
Stop         == Rested("multi")

ScopePlace(fn, c, a, s, g, w) ==
  \/ /\ fn = "shot" /\ a.armed /\ RangeAs(c, a)
     /\ \/ s = <<Rested(a.mode), Armed(a.mode)>>
        \/ s = <<Armed(a.mode)>>
  \/ fn = "stop" /\ a.mode = "multi" /\ ~ a.armed /\ RangeAs(c, a) /\ s = <<Stop>>
  \/ fn \in {"registers_download", "set_address_range"} /\ Downloading(c, a, s, g, w)
  \/ /\ fn = "set_address_range" /\ a.mode = "multi" /\ ~ a.armed /\ w.range = a.range
     /\ \/ s = <<Write("start", a.range[1]), Write("end", a.range[2]), Stop,
                 Read("csr"), Read("start"), Read("end")>>
        \/ /\ s = <<Write("end", a.range[2]), Stop, Read("csr"), Read("start"), Read("end")>>
           /\ c.start = a.range[1]
        \/ s = <<Stop, Read("csr"), Read("start"), Read("end")>> /\ RangeAs(c, a)

CsrPlace(fn, c, a, s, g, w) ==
  fn = "enable" /\ s = <<Write("ctl1", IF a.enabled THEN 16 ELSE 0)>>

DnaPlace(fn, c, a, s, g, w) ==
  fn = "dna_download" /\ c.dna = Dna /\ s = <<Read("dna")>>

JtagPlace(fn, c, a, s, g, w) ==
  \/ /\ fn = "jtag_upload" /\ (c.ctl = 0 => c.tdo = a.shifted) /\ (c.ctl = 1 => c.shifting = a.shifted)
     /\ \/ s = <<Write("cnt", a.jtag[1]), Write("tms", a.jtag[2]), Write("tdi", a.jtag[3])>>
        \/ s = <<Write("tms", a.jtag[2]), Write("tdi", a.jtag[3])>> /\ c.cnt = a.jtag[1]
        \/ s = <<Write("tdi", a.jtag[3])>> /\ c.cnt = a.jtag[1] /\ c.tms = a.jtag[2]
  \/ /\ fn = "jtag_start" /\ <<c.cnt, c.tms, c.tdi>> = a.jtag /\ a.shifted = a.jtag
     /\ s = <<Transfer("start", "ctl", {})>>
  \/ /\ fn = "jtag_download" /\ JtagAs(c, a)
     /\ w.settled => c.ctl = 0 /\ w.shifted = a.shifted
     /\ \/ s = <<Read("tdo"), Read("ctl")>>
        \/ s = <<Read("ctl")>> /\ (w.settled => g.tdo = c.tdo)

Place(core, fn, c, a, s, g, w) ==
  /\ core = "ddr"     => DdrPlace(fn, c, a, s, g, w)
  /\ core = "reg0"    => ParamPlace("reg0", fn, c, a, s, g, w)
  /\ core = "reg1"    => ParamPlace("reg1", fn, c, a, s, g, w)
  /\ core = "calib"   => CalibPlace(fn, c, a, s, g, w)
  /\ core = "scope"   => ScopePlace(fn, c, a, s, g, w)
  /\ core = "fmc_csr" => CsrPlace(fn, c, a, s, g, w)
  /\ core = "dna"     => DnaPlace(fn, c, a, s, g, w)
  /\ core = "jtag"    => JtagPlace(fn, c, a, s, g, w)
  /\ core = "port"    => fn = "set_port_value"

(* A call transfers to and from the registers of its core only.            *)
Homed(s, core) == \A n \in 1 .. Len(s) : s[n].reg \in RegsOf(core)

PlaceOf(p) == Place(call[p].core, call[p].fn, card, asked, script[p], got[p], call[p].was)

AtHome   == \A p \in Procs : Homed(script[p], call[p].core)
Settled  == \A core \in Cores \ overlapped :
              (\A p \in Procs : ~ Busy(p, core)) => Holds(core, card, asked)
OneCall  == \A core \in Cores \ overlapped : \A p \in Procs :
              Busy(p, core) => PlaceOf(p) /\ \A q \in Procs : Busy(q, core) => q = p
Answered == \A p \in Procs :
              script[p] = <<>> /\ call[p].core \notin overlapped => Brought(call[p].fn, got[p], call[p].was)

(* Where no calls have overlapped a call under way is at one of its        *)
(* places, and otherwise all is as asked.                                  *)
Promised == AtHome /\ Settled /\ OneCall /\ Answered

---------------------------------------------------------------------------
(* A transfer brings a call from one of its places to the next. *)

(* The words a program has read after transfer t.                          *)
Taken(g, c, t) == IF t.k = "read" THEN [g EXCEPT ![t.reg] = c[t.reg]] ELSE g

Follows(core, fn, c, a, s, g, w) ==
  LET d == After(c, Head(s), g)
      h == Taken(g, c, Head(s))
  IN  IF Tail(s) = <<>> THEN Holds(core, d, a) /\ Brought(fn, h, w)
      ELSE Place(core, fn, d, a, Tail(s), h, w)

(* The first transfer and the rest of a few.                               *)
LEMMA Rests ==
  /\ \A x : Head(<<x>>) = x /\ Tail(<<x>>) = <<>>
  /\ \A x, y : Head(<<x, y>>) = x /\ Tail(<<x, y>>) = <<y>>
  /\ \A x : <<x>> # <<>>
  OBVIOUS

(* The same of the longest calls.                                          *)
LEMMA RestOfFour ==
  \A x, y, z, u : /\ Head(<<x, y, z, u>>) = x /\ Tail(<<x, y, z, u>>) = <<y, z, u>>
                  /\ <<y, z, u>> # <<>>
  OBVIOUS

(* Of five.                                                                *)
LEMMA RestOfFive ==
  \A x, y, z, u, v : /\ Head(<<x, y, z, u, v>>) = x
                     /\ Tail(<<x, y, z, u, v>>) = <<y, z, u, v>> /\ <<y, z, u, v>> # <<>>
  OBVIOUS

(* Of six.                                                                 *)
LEMMA RestOfSix ==
  \A x, y, z, u, v, m : /\ Head(<<x, y, z, u, v, m>>) = x
                        /\ Tail(<<x, y, z, u, v, m>>) = <<y, z, u, v, m>>
                        /\ <<y, z, u, v, m>> # <<>>
  OBVIOUS

(* A register that is read is one of the words read after it, and the      *)
(* others are as they were.                                                *)
LEMMA TakenWords ==
  ASSUME NEW c \in Card, NEW g \in Card
  PROVE  /\ \A reg \in DOMAIN g : [g EXCEPT ![reg] = c[reg]][reg] = c[reg]
         /\ \A reg, r \in DOMAIN g : r # reg => [g EXCEPT ![reg] = c[reg]][r] = g[r]
         /\ {"reg0", "reg1", "gain", "offset", "csr", "start", "end", "dna", "tdo", "ctl"} \subseteq DOMAIN g
  BY DEF Card

(* The direction register is written once.                                 *)
LEMMA DdrFollows ==
  ASSUME NEW c \in Card, NEW g \in Card, NEW a \in Promise, NEW w \in Promise, NEW s, NEW fn,
         DdrPlace(fn, c, a, s, g, w)
  PROVE  Follows("ddr", fn, c, a, s, g, w)
  <1>. DEFINE d == [c EXCEPT !.ddr = a.ddr]
  <1>1. d.ddr = a.ddr
    BY DEF Card
  <1>2. Head(s) = Write("ddr", a.ddr) /\ Tail(s) = <<>> /\ fn = "set_port_direction"
    BY Rests DEF DdrPlace
  <1>3. After(c, Head(s), g) = d
    <2>1. Head(s).k = "write" /\ Head(s).reg = "ddr" /\ Head(s).val = a.ddr
      BY <1>2 DEF Write, Transfer
    <2>. QED
      BY <2>1 DEF After
  <1>. HIDE DEF d
  <1>4. Holds("ddr", d, a)
    BY <1>1 DEF Holds
  <1>5. Brought(fn, Taken(g, c, Head(s)), w)
    BY <1>2 DEF Brought
  <1>. QED
    BY <1>2, <1>3, <1>4, <1>5 DEF Follows

(* A field is written back with the other field as it was read, which is   *)
(* as it is: nobody else has a call on the register.                       *)
LEMMA ParamFollows ==
  ASSUME NEW c \in Card, NEW g \in Card, NEW a \in Promise, NEW w \in Promise, NEW s, NEW fn,
         NEW reg \in {"reg0", "reg1"}, ParamPlace(reg, fn, c, a, s, g, w)
  PROVE  Follows(reg, fn, c, a, s, g, w)
  <1>1. c[reg] \in Word /\ c["reg1"] = c.reg1 /\ reg \in DOMAIN g
    BY DEF Card
  <1>2. Holds(reg, c, a) <=> get_avg(c[reg]) = a[reg] /\ (reg = "reg1" => get_trig(c.reg1) = a.trig)
    BY DEF Holds
  <1>3. ASSUME NEW f, NEW x \in Card
        PROVE  /\ Place(reg, f, x, a, Tail(s), Taken(g, c, Head(s)), w)
                    <=> ParamPlace(reg, f, x, a, Tail(s), Taken(g, c, Head(s)), w)
               /\ f \in {"set_avg", "set_trig"} => Brought(f, Taken(g, c, Head(s)), w)
    BY DEF Place, Brought
  <1>4. CASE fn = "set_avg"
    <2>1. PICK v \in 0 .. AvgTop :
            /\ v + 1 = a[reg]
            /\ \/ s = <<Read(reg), Transfer("avg", reg, v)>>
               \/ s = <<Transfer("avg", reg, v)>> /\ g[reg] = c[reg]
      BY <1>4 DEF ParamPlace
    <2>2. reg = "reg1" => get_trig(c.reg1) = a.trig
      BY <1>4 DEF ParamPlace
    <2>3. CASE s = <<Read(reg), Transfer("avg", reg, v)>>
      <3>1. /\ Tail(s) = <<Transfer("avg", reg, v)>> /\ Tail(s) # <<>>
            /\ After(c, Head(s), g) = c /\ Taken(g, c, Head(s)) = [g EXCEPT ![reg] = c[reg]]
        <4>1. /\ Head(s).k = "read" /\ Head(s).reg = reg
              /\ Tail(s) = <<Transfer("avg", reg, v)>> /\ Tail(s) # <<>>
          BY <2>3 DEF Read, Transfer
        <4>. QED
          BY <4>1 DEF After, Taken
      <3>2. Taken(g, c, Head(s))[reg] = c[reg]
        BY <1>1, <3>1, TakenWords
      <3>3. ParamPlace(reg, fn, c, a, Tail(s), Taken(g, c, Head(s)), w)
        BY <1>4, <2>1, <2>2, <3>1, <3>2 DEF ParamPlace
      <3>. QED
        BY <1>3, <3>1, <3>3 DEF Follows
    <2>4. CASE s = <<Transfer("avg", reg, v)>> /\ g[reg] = c[reg]
      <3>. DEFINE x == with_avg(c[reg], v)
      <3>1. Tail(s) = <<>> /\ After(c, Head(s), g) = [c EXCEPT ![reg] = x]
        <4>1. /\ Head(s).k = "avg" /\ Head(s).reg = reg /\ Head(s).val = v /\ Tail(s) = <<>>
          BY <2>4 DEF Transfer
        <4>2. After(c, Head(s), g) = [c EXCEPT ![reg] = with_avg(g[reg], v)]
          BY <4>1 DEF After
        <4>. QED
          BY <2>4, <4>1, <4>2
      <3>2. get_avg(x) = v + 1 /\ get_trig(x) = get_trig(c[reg])
        BY <1>1, AvgChanged
      <3>. HIDE DEF x
      <3>3. [c EXCEPT ![reg] = x][reg] = x /\ (reg = "reg1" => [c EXCEPT ![reg] = x].reg1 = x)
        BY DEF Card
      <3>4. reg = "reg0" => [c EXCEPT ![reg] = x].reg0 = x
        BY DEF Card
      <3>5. Holds(reg, [c EXCEPT ![reg] = x], a)
        BY <1>1, <2>1, <2>2, <3>2, <3>3, <3>4 DEF Holds
      <3>. QED
        BY <1>3, <1>4, <3>1, <3>5 DEF Follows
    <2>. QED
      BY <2>1, <2>3, <2>4
  <1>5. CASE fn = "set_trig"
    <2>1. reg = "reg1" /\ get_avg(c.reg1) = a.reg1
      BY <1>5 DEF ParamPlace
    <2>2. PICK v \in Int \X Int :
            /\ <<v[1] % ByteMod, v[2] % ByteMod>> = a.trig
            /\ \/ s = <<Read(reg), Transfer("trig", reg, v)>>
               \/ s = <<Transfer("trig", reg, v)>> /\ g[reg] = c[reg]
      BY <1>5 DEF ParamPlace
    <2>3. CASE s = <<Read(reg), Transfer("trig", reg, v)>>
      <3>1. /\ Tail(s) = <<Transfer("trig", reg, v)>> /\ Tail(s) # <<>>
            /\ After(c, Head(s), g) = c /\ Taken(g, c, Head(s)) = [g EXCEPT ![reg] = c[reg]]
        <4>1. /\ Head(s).k = "read" /\ Head(s).reg = reg
              /\ Tail(s) = <<Transfer("trig", reg, v)>> /\ Tail(s) # <<>>
          BY <2>3 DEF Read, Transfer
        <4>. QED
          BY <4>1 DEF After, Taken
      <3>2. Taken(g, c, Head(s))[reg] = c[reg]
        BY <1>1, <3>1, TakenWords
      <3>3. ParamPlace(reg, fn, c, a, Tail(s), Taken(g, c, Head(s)), w)
        BY <1>5, <2>1, <2>2, <3>1, <3>2 DEF ParamPlace
      <3>. QED
        BY <1>3, <3>1, <3>3 DEF Follows
    <2>4. CASE s = <<Transfer("trig", reg, v)>> /\ g[reg] = c[reg]
      <3>. DEFINE x == with_trig(c.reg1, v[1], v[2])
      <3>1. Tail(s) = <<>> /\ After(c, Head(s), g) = [c EXCEPT !.reg1 = x]
        <4>1. /\ Head(s).k = "trig" /\ Head(s).reg = reg /\ Head(s).val = v /\ Tail(s) = <<>>
          BY <2>4 DEF Transfer
        <4>2. After(c, Head(s), g) = [c EXCEPT ![reg] = with_trig(g[reg], v[1], v[2])]
          BY <4>1 DEF After
        <4>. QED
          BY <2>1, <2>4, <4>1, <4>2
      <3>2. get_avg(x) = get_avg(c.reg1) /\ get_trig(x) = a.trig
        <4>1. c.reg1 \in Word /\ v[1] \in Int /\ v[2] \in Int
          BY <1>1, <2>1
        <4>. QED
          BY <2>2, <4>1, TrigChanged
      <3>. HIDE DEF x
      <3>3. [c EXCEPT !.reg1 = x].reg1 = x
        BY DEF Card
      <3>5. Holds(reg, [c EXCEPT !.reg1 = x], a)
        BY <2>1, <3>2, <3>3 DEF Holds
      <3>. QED
        BY <1>3, <1>5, <3>1, <3>5 DEF Follows
    <2>. QED
      BY <2>2, <2>3, <2>4
  <1>. QED
    BY <1>4, <1>5 DEF ParamPlace

(* Gain and offset are written, or read, one after the other.              *)
LEMMA CalibFollows ==
  ASSUME NEW c \in Card, NEW g \in Card, NEW a \in Promise, NEW w \in Promise, NEW s, NEW fn,
         CalibPlace(fn, c, a, s, g, w)
  PROVE  Follows("calib", fn, c, a, s, g, w)
  <1>1. ASSUME NEW f, NEW x, NEW r, NEW h
        PROVE  /\ Place("calib", f, x, a, r, h, w) <=> CalibPlace(f, x, a, r, h, w)
               /\ Holds("calib", x, a) <=> CalibAs(x, a)
    BY DEF Place, Holds
  <1>2. CASE fn = "set_calib"
    <2>1. PICK gain \in Word, offset \in Word :
            /\ a.calib = <<gain, int16(offset)>>
            /\ \/ s = <<Write("gain", gain), Write("offset", offset)>>
               \/ s = <<Write("offset", offset)>> /\ c.gain = gain
      BY <1>2 DEF CalibPlace
    <2>2. CASE s = <<Write("gain", gain), Write("offset", offset)>>
      <3>1. /\ Tail(s) = <<Write("offset", offset)>> /\ Tail(s) # <<>>
            /\ After(c, Head(s), g) = [c EXCEPT !.gain = gain] /\ Taken(g, c, Head(s)) = g
        <4>1. /\ Head(s).k = "write" /\ Head(s).reg = "gain" /\ Head(s).val = gain
              /\ Tail(s) = <<Write("offset", offset)>> /\ Tail(s) # <<>>
          BY <2>2 DEF Write, Transfer
        <4>. QED
          BY <4>1 DEF After, Taken
      <3>2. [c EXCEPT !.gain = gain].gain = gain
        BY DEF Card
      <3>3. CalibPlace(fn, [c EXCEPT !.gain = gain], a, Tail(s), g, w)
        BY <1>2, <2>1, <3>1, <3>2 DEF CalibPlace
      <3>. QED
        BY <1>1, <3>1, <3>3 DEF Follows
    <2>3. CASE s = <<Write("offset", offset)>> /\ c.gain = gain
      <3>1. Tail(s) = <<>> /\ After(c, Head(s), g) = [c EXCEPT !.offset = offset]
        BY <2>3 DEF After, Taken, Read, Write, Transfer
      <3>2. [c EXCEPT !.offset = offset].offset = offset /\ [c EXCEPT !.offset = offset].gain = gain
        BY <2>3 DEF Card
      <3>3. CalibAs([c EXCEPT !.offset = offset], a)
        BY <2>1, <3>2 DEF CalibAs
      <3>4. Brought(fn, Taken(g, c, Head(s)), w)
        BY <1>2 DEF Brought
      <3>. QED
        BY <1>1, <3>1, <3>3, <3>4 DEF Follows
    <2>. QED
      BY <2>1, <2>2, <2>3
  <1>3. CASE fn = "get_calib"
    <2>1. /\ CalibAs(c, a) /\ w.calib = a.calib
          /\ \/ s = <<Read("gain"), Read("offset")>>
             \/ s = <<Read("offset")>> /\ g.gain = c.gain
      BY <1>3 DEF CalibPlace
    <2>2. CASE s = <<Read("gain"), Read("offset")>>
      <3>1. /\ Tail(s) = <<Read("offset")>> /\ Tail(s) # <<>> /\ After(c, Head(s), g) = c
            /\ Taken(g, c, Head(s)) = [g EXCEPT !.gain = c.gain]
        BY <2>2 DEF After, Taken, Read, Write, Transfer
      <3>2. [g EXCEPT !.gain = c.gain].gain = c.gain
        BY DEF Card
      <3>3. CalibPlace(fn, c, a, Tail(s), Taken(g, c, Head(s)), w)
        BY <1>3, <2>1, <3>1, <3>2 DEF CalibPlace
      <3>. QED
        BY <1>1, <3>1, <3>3 DEF Follows
    <2>3. CASE s = <<Read("offset")>> /\ g.gain = c.gain
      <3>1. /\ Tail(s) = <<>> /\ After(c, Head(s), g) = c
            /\ Taken(g, c, Head(s)) = [g EXCEPT !.offset = c.offset]
        BY <2>3 DEF After, Taken, Read, Write, Transfer
      <3>2. [g EXCEPT !.offset = c.offset].offset = c.offset /\ [g EXCEPT !.offset = c.offset].gain = c.gain
        BY <2>3 DEF Card
      <3>3. Brought(fn, Taken(g, c, Head(s)), w)
        BY <1>3, <2>1, <3>1, <3>2 DEF Brought, CalibAs
      <3>. QED
        BY <1>1, <2>1, <3>1, <3>3 DEF Follows
    <2>. QED
      BY <2>1, <2>2, <2>3
  <1>. QED
    BY <1>2, <1>3 DEF CalibPlace

(* A stop or a reset with a mode puts the scope to rest, and a second     *)
(* write arms it.                                                          *)
LEMMA ScopeWrites ==
  ASSUME NEW c \in Card, NEW g \in Card, NEW t, NEW mode
  PROVE  LET d == After(c, t, g) IN
           /\ t \in {Rested(mode), Armed(mode)} =>
                d.start = c.start /\ d.end = c.end /\ d.csr.mode = mode
           /\ t = Rested(mode) => d.csr.state = "idle"
           /\ t = Armed(mode) => d.csr.state = "armed"
  <1>. DEFINE v == [mode |-> mode, state |-> "idle"]
              w == [mode |-> mode, state |-> "armed"]
  <1>1. /\ t = Rested(mode) => t.k = "write" /\ t.reg = "csr" /\ t.val = v
        /\ t = Armed(mode) => t.k = "write" /\ t.reg = "csr" /\ t.val = w
    BY DEF Rested, Armed, ScopeCsr, Write, Transfer
  <1>2. v.mode = mode /\ v.state = "idle" /\ w.mode = mode /\ w.state = "armed"
    OBVIOUS
  <1>. HIDE DEF v, w
  <1>3. /\ t = Rested(mode) => After(c, t, g) = [c EXCEPT !.csr = v]
        /\ t = Armed(mode) => After(c, t, g) = [c EXCEPT !.csr = w]
    BY <1>1 DEF After
  <1>4. \A x : /\ [c EXCEPT !.csr = x].csr = x /\ [c EXCEPT !.csr = x].start = c.start
              /\ [c EXCEPT !.csr = x].end = c.end
    BY DEF Card
  <1>. QED
    BY <1>2, <1>3, <1>4

(* A download reads what nobody else has a call on.                        *)
LEMMA DownloadFollows ==
  ASSUME NEW c \in Card, NEW g \in Card, NEW a \in Promise, NEW w \in Promise, NEW s,
         NEW fn \in {"registers_download", "set_address_range"}, Downloading(c, a, s, g, w)
  PROVE  Follows("scope", fn, c, a, s, g, w)
  <1>1. ASSUME NEW x, NEW r, NEW h
        PROVE  /\ Downloading(x, a, r, h, w) => Place("scope", fn, x, a, r, h, w)
               /\ Holds("scope", x, a) <=> CsrAs(x, a) /\ RangeAs(x, a)
    BY DEF Place, Holds, ScopePlace
  <1>2. CsrAs(c, a) /\ RangeAs(c, a) /\ w.range = a.range
    BY DEF Downloading
  <1>3. CASE s = <<Read("csr"), Read("start"), Read("end")>>
    <2>1. Head(s).k = "read" /\ Tail(s) = <<Read("start"), Read("end")>> /\ Tail(s) # <<>>
      BY <1>3 DEF Read, Transfer
    <2>2. After(c, Head(s), g) = c
      BY <2>1 DEF After
    <2>3. Downloading(c, a, Tail(s), Taken(g, c, Head(s)), w)
      BY <1>2, <2>1 DEF Downloading
    <2>. QED
      BY <1>1, <2>1, <2>2, <2>3 DEF Follows
  <1>4. CASE s = <<Read("start"), Read("end")>>
    <2>1. /\ Head(s).k = "read" /\ Head(s).reg = "start"
          /\ Tail(s) = <<Read("end")>> /\ Tail(s) # <<>>
      BY <1>4 DEF Read, Transfer
    <2>2. After(c, Head(s), g) = c /\ Taken(g, c, Head(s)) = [g EXCEPT !.start = c.start]
      BY <2>1 DEF After, Taken
    <2>3. [g EXCEPT !.start = c.start].start = c.start
      BY DEF Card
    <2>4. Downloading(c, a, Tail(s), Taken(g, c, Head(s)), w)
      BY <1>2, <2>1, <2>2, <2>3 DEF Downloading
    <2>. QED
      BY <1>1, <2>1, <2>2, <2>4 DEF Follows
  <1>5. CASE s = <<Read("end")>> /\ g.start = c.start
    <2>1. Head(s).k = "read" /\ Head(s).reg = "end" /\ Tail(s) = <<>>
      BY <1>5 DEF Read, Transfer
    <2>2. After(c, Head(s), g) = c /\ Taken(g, c, Head(s)) = [g EXCEPT !.end = c.end]
      BY <2>1 DEF After, Taken
    <2>3. [g EXCEPT !.end = c.end].end = c.end /\ [g EXCEPT !.end = c.end].start = c.start
      BY <1>5 DEF Card
    <2>4. Brought(fn, Taken(g, c, Head(s)), w)
      BY <1>2, <2>2, <2>3 DEF Brought, RangeAs
    <2>. QED
      BY <1>1, <1>2, <2>1, <2>2, <2>4 DEF Follows
  <1>. QED
    BY <1>3, <1>4, <1>5 DEF Downloading

(* The scope: its reset and arming, and its address range, which is two    *)
(* words, a stop and a download.                                           *)
LEMMA ScopeFollows ==
  ASSUME NEW c \in Card, NEW g \in Card, NEW a \in Promise, NEW w \in Promise, NEW s, NEW fn,
         ScopePlace(fn, c, a, s, g, w)
  PROVE  Follows("scope", fn, c, a, s, g, w)
  <1>1. ASSUME NEW x, NEW r, NEW h
        PROVE  /\ ScopePlace(fn, x, a, r, h, w) => Place("scope", fn, x, a, r, h, w)
               /\ Holds("scope", x, a) <=> CsrAs(x, a) /\ RangeAs(x, a)
    BY DEF Place, Holds
  <1>2. a.mode \in Modes /\ "multi" \in Modes /\ a.armed \in BOOLEAN
    BY DEF Promise, Modes
  <1>. DEFINE d == After(c, Head(s), g)
              h == Taken(g, c, Head(s))
  <1>3. CASE fn = "shot"
    <2>1. /\ a.armed /\ RangeAs(c, a)
          /\ \/ s = <<Rested(a.mode), Armed(a.mode)>>
             \/ s = <<Armed(a.mode)>>
      BY <1>3 DEF ScopePlace
    <2>2. Brought(fn, h, w)
      BY <1>3 DEF Brought
    <2>3. CASE s = <<Rested(a.mode), Armed(a.mode)>>
      <3>1. Head(s) = Rested(a.mode) /\ Tail(s) = <<Armed(a.mode)>> /\ Tail(s) # <<>>
        BY <2>3, Rests
      <3>2. d.start = c.start /\ d.end = c.end
        BY <3>1, ScopeWrites
      <3>3. ScopePlace(fn, d, a, Tail(s), h, w)
        BY <1>3, <2>1, <3>1, <3>2 DEF ScopePlace, RangeAs
      <3>. QED
        BY <1>1, <3>1, <3>3 DEF Follows
    <2>4. CASE s = <<Armed(a.mode)>>
      <3>1. Head(s) = Armed(a.mode) /\ Tail(s) = <<>>
        BY <2>4
      <3>2. d.start = c.start /\ d.end = c.end /\ d.csr.mode = a.mode /\ d.csr.state = "armed"
        BY <3>1, ScopeWrites
      <3>3. CsrAs(d, a) /\ RangeAs(d, a)
        BY <2>1, <3>2 DEF CsrAs, RangeAs
      <3>. QED
        BY <1>1, <2>2, <3>1, <3>3 DEF Follows
    <2>. QED
      BY <2>1, <2>3, <2>4
  <1>4. CASE fn = "stop"
    <2>1. a.mode = "multi" /\ ~ a.armed /\ RangeAs(c, a) /\ s = <<Stop>>
      BY <1>4 DEF ScopePlace
    <2>2. Head(s) = Rested("multi") /\ Tail(s) = <<>>
      BY <2>1 DEF Stop
    <2>3. d.start = c.start /\ d.end = c.end /\ d.csr.mode = "multi" /\ d.csr.state = "idle"
      BY <2>2, ScopeWrites
    <2>4. CsrAs(d, a) /\ RangeAs(d, a)
      BY <2>1, <2>3 DEF CsrAs, RangeAs
    <2>5. Brought(fn, h, w)
      BY <1>4 DEF Brought
    <2>. QED
      BY <1>1, <2>2, <2>4, <2>5 DEF Follows
  <1>5. CASE fn \in {"registers_download", "set_address_range"} /\ Downloading(c, a, s, g, w)
    BY <1>5, DownloadFollows
  <1>6. CASE fn = "set_address_range" /\ ~ Downloading(c, a, s, g, w)
    <2>. DEFINE start == a.range[1]
                end == a.range[2]
                rest == <<Stop, Read("csr"), Read("start"), Read("end")>>
    <2>1. /\ a.mode = "multi" /\ ~ a.armed /\ w.range = a.range
          /\ \/ s = <<Write("start", start), Write("end", end), Stop,
                      Read("csr"), Read("start"), Read("end")>>
             \/ /\ s = <<Write("end", end), Stop, Read("csr"), Read("start"), Read("end")>>
                /\ c.start = start
             \/ s = rest /\ RangeAs(c, a)
      BY <1>6 DEF ScopePlace
    <2>2. a.range = <<start, end>>
      BY DEF Promise
    <2>3. CASE s = <<Write("start", start), Write("end", end), Stop,
                     Read("csr"), Read("start"), Read("end")>>
      <3>1. /\ Head(s) = Write("start", start)
            /\ Tail(s) = <<Write("end", end), Stop, Read("csr"), Read("start"), Read("end")>>
            /\ Tail(s) # <<>>
        BY <2>3, RestOfSix
      <3>2. Head(s).k = "write" /\ Head(s).reg = "start" /\ Head(s).val = start
        BY <3>1 DEF Write, Transfer
      <3>3. d = [c EXCEPT !.start = start]
        BY <3>2 DEF After
      <3>4. d.start = start
        BY <3>3 DEF Card
      <3>. HIDE DEF d, h
      <3>5. ScopePlace(fn, d, a, Tail(s), h, w)
        BY <1>6, <2>1, <3>1, <3>4 DEF ScopePlace
      <3>. QED
        BY <1>1, <3>1, <3>5 DEF Follows, d, h
    <2>4. CASE s = <<Write("end", end), Stop, Read("csr"), Read("start"), Read("end")>> /\ c.start = start
      <3>1. Head(s) = Write("end", end) /\ Tail(s) = rest /\ Tail(s) # <<>>
        BY <2>4, RestOfFive
      <3>2. Head(s).k = "write" /\ Head(s).reg = "end" /\ Head(s).val = end
        BY <3>1 DEF Write, Transfer
      <3>3. d = [c EXCEPT !.end = end]
        BY <3>2 DEF After
      <3>4. d.end = end /\ d.start = start
        BY <2>4, <3>3 DEF Card
      <3>. HIDE DEF d, h
      <3>5. RangeAs(d, a)
        BY <2>2, <3>4 DEF RangeAs
      <3>6. ScopePlace(fn, d, a, Tail(s), h, w)
        BY <1>6, <2>1, <3>1, <3>5 DEF ScopePlace
      <3>. QED
        BY <1>1, <3>1, <3>6 DEF Follows, d, h
    <2>5. CASE s = rest /\ RangeAs(c, a)
      <3>1. /\ Head(s) = Rested("multi")
            /\ Tail(s) = <<Read("csr"), Read("start"), Read("end")>> /\ Tail(s) # <<>>
        BY <2>5, RestOfFour DEF Stop
      <3>2. d.start = c.start /\ d.end = c.end /\ d.csr.mode = "multi" /\ d.csr.state = "idle"
        BY <3>1, ScopeWrites
      <3>. HIDE DEF d, h
      <3>3. CsrAs(d, a) /\ RangeAs(d, a)
        BY <2>1, <2>5, <3>2 DEF CsrAs, RangeAs
      <3>4. Downloading(d, a, Tail(s), h, w)
        BY <2>1, <3>1, <3>3 DEF Downloading
      <3>5. ScopePlace(fn, d, a, Tail(s), h, w)
        BY <1>6, <3>4 DEF ScopePlace
      <3>. QED
        BY <1>1, <3>1, <3>5 DEF Follows, d, h
    <2>. QED
      BY <2>1, <2>3, <2>4, <2>5
  <1>. QED
    BY <1>3, <1>4, <1>5, <1>6 DEF ScopePlace

(* The enable bit is one transfer.                                         *)
LEMMA CsrFollows ==
  ASSUME NEW c \in Card, NEW g \in Card, NEW a \in Promise, NEW w \in Promise, NEW s, NEW fn,
         CsrPlace(fn, c, a, s, g, w)
  PROVE  Follows("fmc_csr", fn, c, a, s, g, w)
  <1>. DEFINE v == IF a.enabled THEN 16 ELSE 0
  <1>1. /\ Head(s).k = "write" /\ Head(s).reg = "ctl1" /\ Head(s).val = v /\ Tail(s) = <<>>
        /\ fn = "enable"
    BY DEF CsrPlace, Write, Transfer
  <1>2. v # 0 <=> a.enabled
    BY DEF Promise
  <1>. HIDE DEF v
  <1>3. After(c, Head(s), g) = [c EXCEPT !.ctl1 = v]
    BY <1>1 DEF After
  <1>4. [c EXCEPT !.ctl1 = v].ctl1 = v
    BY DEF Card
  <1>5. Holds("fmc_csr", After(c, Head(s), g), a)
    BY <1>2, <1>3, <1>4 DEF Holds
  <1>6. Brought(fn, Taken(g, c, Head(s)), w)
    BY <1>1 DEF Brought
  <1>. QED
    BY <1>1, <1>5, <1>6 DEF Follows

(* So is the identification, which never changes.                          *)
LEMMA DnaFollows ==
  ASSUME NEW c \in Card, NEW g \in Card, NEW a \in Promise, NEW w \in Promise, NEW s, NEW fn,
         DnaPlace(fn, c, a, s, g, w)
  PROVE  Follows("dna", fn, c, a, s, g, w)
  <1>1. /\ Head(s).k = "read" /\ Head(s).reg = "dna" /\ Tail(s) = <<>>
        /\ fn = "dna_download" /\ c.dna = Dna
    BY DEF DnaPlace, Read, Transfer
  <1>2. After(c, Head(s), g) = c /\ Taken(g, c, Head(s)) = [g EXCEPT !.dna = c.dna]
    BY <1>1 DEF After, Taken
  <1>3. [g EXCEPT !.dna = c.dna].dna = Dna
    BY <1>1 DEF Card
  <1>4. Holds("dna", c, a)
    BY <1>1 DEF Holds
  <1>5. Brought(fn, Taken(g, c, Head(s)), w)
    BY <1>1, <1>2, <1>3 DEF Brought
  <1>. QED
    BY <1>1, <1>2, <1>4, <1>5 DEF Follows

(* A shift is set up word by word, started, and read back.  Its words stay *)
(* in the core until it is over, so an upload does not disturb it.         *)
LEMMA JtagFollows ==
  ASSUME NEW c \in Card, NEW g \in Card, NEW a \in Promise, NEW w \in Promise, NEW s, NEW fn,
         JtagPlace(fn, c, a, s, g, w)
  PROVE  Follows("jtag", fn, c, a, s, g, w)
  <1>1. ASSUME NEW x, NEW r, NEW h
        PROVE  /\ JtagPlace(fn, x, a, r, h, w) => Place("jtag", fn, x, a, r, h, w)
               /\ Holds("jtag", x, a) <=> JtagAs(x, a)
    BY DEF Place, Holds
  <1>. DEFINE d == After(c, Head(s), g)
              h == Taken(g, c, Head(s))
              cnt == a.jtag[1]
              tms == a.jtag[2]
              tdi == a.jtag[3]
  <1>2. a.jtag = <<cnt, tms, tdi>>
    BY DEF Promise
  <1>3. CASE fn = "jtag_upload"
    <2>1. /\ c.ctl = 0 => c.tdo = a.shifted
          /\ c.ctl = 1 => c.shifting = a.shifted
          /\ \/ s = <<Write("cnt", cnt), Write("tms", tms), Write("tdi", tdi)>>
             \/ s = <<Write("tms", tms), Write("tdi", tdi)>> /\ c.cnt = cnt
             \/ s = <<Write("tdi", tdi)>> /\ c.cnt = cnt /\ c.tms = tms
      BY <1>3 DEF JtagPlace
    <2>2. CASE s = <<Write("cnt", cnt), Write("tms", tms), Write("tdi", tdi)>>
      <3>1. /\ Head(s).k = "write" /\ Head(s).reg = "cnt" /\ Head(s).val = cnt
            /\ Tail(s) = <<Write("tms", tms), Write("tdi", tdi)>> /\ Tail(s) # <<>>
        BY <2>2 DEF Write, Transfer
      <3>2. d = [c EXCEPT !.cnt = cnt]
        BY <3>1 DEF After
      <3>3. d.cnt = cnt /\ d.ctl = c.ctl /\ d.tdo = c.tdo /\ d.shifting = c.shifting
        BY <3>2 DEF Card
      <3>. HIDE DEF d, h
      <3>4. JtagPlace(fn, d, a, Tail(s), h, w)
        BY <1>3, <2>1, <3>1, <3>3 DEF JtagPlace
      <3>. QED
        BY <1>1, <3>1, <3>4 DEF Follows, d, h
    <2>3. CASE s = <<Write("tms", tms), Write("tdi", tdi)>> /\ c.cnt = cnt
      <3>1. /\ Head(s).k = "write" /\ Head(s).reg = "tms" /\ Head(s).val = tms
            /\ Tail(s) = <<Write("tdi", tdi)>> /\ Tail(s) # <<>>
        BY <2>3 DEF Write, Transfer
      <3>2. d = [c EXCEPT !.tms = tms]
        BY <3>1 DEF After
      <3>3. d.cnt = c.cnt /\ d.tms = tms /\ d.ctl = c.ctl /\ d.tdo = c.tdo /\ d.shifting = c.shifting
        BY <3>2 DEF Card
      <3>. HIDE DEF d, h
      <3>4. JtagPlace(fn, d, a, Tail(s), h, w)
        BY <1>3, <2>1, <2>3, <3>1, <3>3 DEF JtagPlace
      <3>. QED
        BY <1>1, <3>1, <3>4 DEF Follows, d, h
    <2>4. CASE s = <<Write("tdi", tdi)>> /\ c.cnt = cnt /\ c.tms = tms
      <3>1. Head(s).k = "write" /\ Head(s).reg = "tdi" /\ Head(s).val = tdi /\ Tail(s) = <<>>
        BY <2>4 DEF Write, Transfer
      <3>2. d = [c EXCEPT !.tdi = tdi]
        BY <3>1 DEF After
      <3>3. /\ d.cnt = c.cnt /\ d.tms = c.tms /\ d.tdi = tdi
            /\ d.ctl = c.ctl /\ d.tdo = c.tdo /\ d.shifting = c.shifting
        BY <3>2 DEF Card
      <3>4. Brought(fn, h, w)
        BY <1>3 DEF Brought
      <3>. HIDE DEF d, h
      <3>5. JtagAs(d, a)
        BY <1>2, <2>1, <2>4, <3>3 DEF JtagAs
      <3>. QED
        BY <1>1, <3>1, <3>4, <3>5 DEF Follows, d, h
    <2>. QED
      BY <2>1, <2>2, <2>3, <2>4
  <1>4. CASE fn = "jtag_start"
    <2>1. <<c.cnt, c.tms, c.tdi>> = a.jtag /\ a.shifted = a.jtag /\ s = <<Transfer("start", "ctl", {})>>
      BY <1>4 DEF JtagPlace
    <2>2. Head(s).k = "start" /\ Tail(s) = <<>>
      BY <2>1 DEF Transfer
    <2>3. d = [c EXCEPT !.ctl = 1, !.shifting = <<c.cnt, c.tms, c.tdi>>]
      BY <2>2 DEF After
    <2>4. d.cnt = c.cnt /\ d.tms = c.tms /\ d.tdi = c.tdi /\ d.ctl = 1 /\ d.shifting = a.jtag
      BY <2>1, <2>3 DEF Card
    <2>5. Brought(fn, h, w)
      BY <1>4 DEF Brought
    <2>. HIDE DEF d, h
    <2>6. JtagAs(d, a)
      BY <2>1, <2>4 DEF JtagAs
    <2>. QED
      BY <1>1, <2>2, <2>5, <2>6 DEF Follows, d, h
  <1>5. CASE fn = "jtag_download"
    <2>1. /\ JtagAs(c, a) /\ (w.settled => c.ctl = 0 /\ w.shifted = a.shifted)
          /\ \/ s = <<Read("tdo"), Read("ctl")>>
             \/ s = <<Read("ctl")>> /\ (w.settled => g.tdo = c.tdo)
      BY <1>5 DEF JtagPlace
    <2>2. CASE s = <<Read("tdo"), Read("ctl")>>
      <3>1. /\ Head(s).k = "read" /\ Head(s).reg = "tdo"
            /\ Tail(s) = <<Read("ctl")>> /\ Tail(s) # <<>>
        <4>1. \A x, y : Head(<<x, y>>) = x /\ Tail(<<x, y>>) = <<y>>
          OBVIOUS
        <4>2. Head(s) = Read("tdo") /\ Tail(s) = <<Read("ctl")>>
          BY <2>2, <4>1
        <4>. QED
          BY <4>2 DEF Read, Transfer
      <3>2. d = c /\ h = [g EXCEPT !.tdo = c.tdo]
        BY <3>1 DEF After, Taken
      <3>3. h.tdo = c.tdo
        BY <3>2 DEF Card
      <3>. HIDE DEF d, h
      <3>4. JtagPlace(fn, c, a, Tail(s), h, w)
        BY <1>5, <2>1, <3>1, <3>3 DEF JtagPlace
      <3>. QED
        BY <1>1, <3>1, <3>2, <3>4 DEF Follows, d, h
    <2>3. CASE s = <<Read("ctl")>> /\ (w.settled => g.tdo = c.tdo)
      <3>1. Head(s).k = "read" /\ Head(s).reg = "ctl" /\ Tail(s) = <<>>
        BY <2>3 DEF Read, Transfer
      <3>2. d = c /\ h = [g EXCEPT !.ctl = c.ctl]
        BY <3>1 DEF After, Taken
      <3>3. h.ctl = c.ctl /\ h.tdo = g.tdo
        BY <3>2 DEF Card
      <3>. HIDE DEF d, h
      <3>4. w.settled => <<h.tdo, h.ctl>> = <<w.shifted, 0>>
        BY <2>1, <2>3, <3>3 DEF JtagAs
      <3>5. Brought(fn, h, w)
        BY <1>5, <3>4 DEF Brought
      <3>. QED
        BY <1>1, <2>1, <3>1, <3>2, <3>5 DEF Follows, d, h
    <2>. QED
      BY <2>1, <2>2, <2>3
  <1>. QED
    BY <1>3, <1>4, <1>5 DEF JtagPlace

(* Every call goes from place to place, and when it has none left all is   *)
(* as asked.                                                               *)
LEMMA PlaceFollows ==
  ASSUME NEW c \in Card, NEW g \in Card, NEW a \in Promise, NEW w \in Promise, NEW s, NEW fn,
         NEW core \in Cores, Place(core, fn, c, a, s, g, w)
  PROVE  Follows(core, fn, c, a, s, g, w)
  <1>1. CASE core = "port"
    <2>1. fn = "set_port_value"
      BY <1>1 DEF Place
    <2>2. \A x, r, h : Holds(core, x, a) /\ Brought(fn, h, w) /\ Place(core, fn, x, a, r, h, w)
      BY <1>1, <2>1 DEF Holds, Brought, Place
    <2>. QED
      BY <2>2 DEF Follows
  <1>2. CASE core = "ddr"
    BY <1>2, DdrFollows DEF Place
  <1>3. CASE core \in {"reg0", "reg1"}
    BY <1>3, ParamFollows DEF Place
  <1>4. CASE core = "calib"
    BY <1>4, CalibFollows DEF Place
  <1>5. CASE core = "scope"
    BY <1>5, ScopeFollows DEF Place
  <1>6. CASE core = "fmc_csr"
    BY <1>6, CsrFollows DEF Place
  <1>7. CASE core = "dna"
    BY <1>7, DnaFollows DEF Place
  <1>8. CASE core = "jtag"
    BY <1>8, JtagFollows DEF Place
  <1>. QED
    BY <1>1, <1>2, <1>3, <1>4, <1>5, <1>6, <1>7, <1>8 DEF Cores

---------------------------------------------------------------------------
(* Cores do not touch each other. *)

(* What holds of a core depends on its registers and on what was asked of  *)
(* it.                                                                     *)
LEMMA SameCore ==
  ASSUME NEW core \in Cores, NEW c \in Card, NEW d \in Card, NEW a \in Promise, NEW b \in Promise,
         \A r \in RegsOf(core) : d[r] = c[r], \A f \in AsksOf(core) : b[f] = a[f]
  PROVE  /\ Holds(core, c, a) => Holds(core, d, b)
         /\ \A fn, s, g, w : Place(core, fn, c, a, s, g, w) => Place(core, fn, d, b, s, g, w)
  <1>1. CASE core = "port"
    BY <1>1 DEF Holds, Place
  <1>2. CASE core = "ddr"
    <2>1. d.ddr = c.ddr /\ b.ddr = a.ddr
      BY <1>2 DEF RegsOf, AsksOf
    <2>. QED
      BY <1>2, <2>1 DEF Holds, Place, DdrPlace
  <1>3. CASE core = "reg0"
    <2>1. d["reg0"] = c["reg0"] /\ d.reg0 = c.reg0 /\ b["reg0"] = a["reg0"] /\ b.reg0 = a.reg0
      BY <1>3 DEF RegsOf, AsksOf
    <2>. QED
      BY <1>3, <2>1 DEF Holds, Place, ParamPlace
  <1>4. CASE core = "reg1"
    <2>1. /\ d["reg1"] = c["reg1"] /\ d.reg1 = c.reg1 /\ b["reg1"] = a["reg1"] /\ b.reg1 = a.reg1
          /\ b.trig = a.trig
      BY <1>4 DEF RegsOf, AsksOf
    <2>. QED
      BY <1>4, <2>1 DEF Holds, Place, ParamPlace
  <1>5. CASE core = "calib"
    <2>1. d.gain = c.gain /\ d.offset = c.offset /\ b.calib = a.calib
      BY <1>5 DEF RegsOf, AsksOf
    <2>. QED
      BY <1>5, <2>1 DEF Holds, Place, CalibPlace, CalibAs
  <1>6. CASE core = "scope"
    <2>1. /\ d.csr = c.csr /\ d.start = c.start /\ d.end = c.end
          /\ b.mode = a.mode /\ (b.armed <=> a.armed) /\ b.range = a.range
      BY <1>6 DEF RegsOf, AsksOf
    <2>2. (CsrAs(d, b) <=> CsrAs(c, a)) /\ (RangeAs(d, b) <=> RangeAs(c, a))
      BY <2>1 DEF CsrAs, RangeAs
    <2>3. \A s, g, w : Downloading(c, a, s, g, w) => Downloading(d, b, s, g, w)
      BY <2>1, <2>2 DEF Downloading
    <2>4. \A fn, s, g, w : ScopePlace(fn, c, a, s, g, w) => ScopePlace(fn, d, b, s, g, w)
      BY <2>1, <2>2, <2>3 DEF ScopePlace
    <2>. QED
      BY <1>6, <2>2, <2>4 DEF Holds, Place
  <1>7. CASE core = "fmc_csr"
    <2>1. d.ctl1 = c.ctl1 /\ (b.enabled <=> a.enabled)
      BY <1>7 DEF RegsOf, AsksOf
    <2>. QED
      BY <1>7, <2>1 DEF Holds, Place, CsrPlace
  <1>8. CASE core = "dna"
    <2>1. d.dna = c.dna
      BY <1>8 DEF RegsOf, AsksOf
    <2>. QED
      BY <1>8, <2>1 DEF Holds, Place, DnaPlace
  <1>9. CASE core = "jtag"
    <2>1. /\ d.cnt = c.cnt /\ d.tms = c.tms /\ d.tdi = c.tdi /\ d.tdo = c.tdo /\ d.ctl = c.ctl
          /\ d.shifting = c.shifting /\ b.jtag = a.jtag /\ b.shifted = a.shifted
      BY <1>9 DEF RegsOf, AsksOf
    <2>. QED
      BY <1>9, <2>1 DEF Holds, Place, JtagPlace, JtagAs
  <1>. QED
    BY <1>1, <1>2, <1>3, <1>4, <1>5, <1>6, <1>7, <1>8, <1>9 DEF Cores

(* A transfer to a register of one core changes the registers of no other. *)
LEMMA OtherCores ==
  ASSUME NEW c \in Card, NEW g \in Card, NEW t \in Elsewhere \cup OnPort,
         NEW home \in Cores, t.reg \in RegsOf(home), NEW core \in Cores, core # home
  PROVE  \A r \in RegsOf(core) : After(c, t, g)[r] = c[r]
  <1>. SUFFICES ASSUME NEW r \in RegsOf(core) PROVE After(c, t, g)[r] = c[r]
    OBVIOUS
  <1>1. r # t.reg /\ (t.reg = "ctl" => r # "shifting") /\ r \in DOMAIN c
    BY SMTT(30) DEF RegsOf, Cores, Card
  <1>2. \A x : t.reg # "ctl" => [c EXCEPT ![t.reg] = x][r] = c[r]
    BY <1>1 DEF Card
  <1>3. CASE t \in Reads
    <2>1. After(c, t, g) = c
      BY <1>3 DEF Reads, After
    <2>. QED
      BY <2>1
  <1>4. CASE t \in Writes
    <2>1. After(c, t, g) = [c EXCEPT ![t.reg] = t.val] /\ t.reg # "ctl"
      BY <1>4 DEF Writes, After
    <2>. QED
      BY <1>2, <2>1
  <1>5. CASE t \in Fields
    <2>1. /\ t.reg # "ctl"
          /\ \/ After(c, t, g) = [c EXCEPT ![t.reg] = with_avg(g[t.reg], t.val)]
             \/ After(c, t, g) = [c EXCEPT ![t.reg] = with_trig(g[t.reg], t.val[1], t.val[2])]
      BY <1>5 DEF Fields, After
    <2>. QED
      BY <1>2, <2>1
  <1>6. CASE t \in Start
    <2>1. After(c, t, g) = [c EXCEPT !.ctl = 1, !.shifting = <<c.cnt, c.tms, c.tdi>>] /\ t.reg = "ctl"
      BY <1>6 DEF Start, After
    <2>2. r # "ctl" /\ r # "shifting"
      BY <1>1, <2>1
    <2>. QED
      BY <1>1, <2>1, <2>2 DEF Card
  <1>7. CASE t \in OnPort
    <2>1. /\ t.reg = "out"
          /\ \/ After(c, t, g) = [c EXCEPT !.out = c.out \cup t.val]
             \/ After(c, t, g) = [c EXCEPT !.out = c.out \ t.val]
      BY <1>7 DEF OnPort, After
    <2>. QED
      BY <1>2, <2>1
  <1>. QED
    BY <1>3, <1>4, <1>5, <1>6, <1>7 DEF Elsewhere

---------------------------------------------------------------------------
(* Every step keeps what was asked. *)

(* A register of zeros stands for an average of one and no trigger.        *)
LEMMA NothingSet == get_avg(0) = 1 /\ get_trig(0) = <<0, 0>>
  BY Constants DEF get_avg, get_trig

(* At the start the registers are those the first promise names.           *)
LEMMA InitPromised == Init => Promised
  <1>. SUFFICES ASSUME Init PROVE Promised
    OBVIOUS
  <1>1. card = [out |-> {}, ddr |-> {}, gain |-> 0, offset |-> 0, start |-> 0, end |-> 0,
                reg0 |-> 0, reg1 |-> 0,
                csr |-> [mode |-> "multi", state |-> "idle"], ctl1 |-> 0, dna |-> Dna,
                cnt |-> 0, tms |-> 0, tdi |-> 0, tdo |-> NoShift, ctl |-> 0,
                shifting |-> NoShift]
    BY DEF Init
  <1>2. asked = [ddr |-> {}, reg0 |-> 1, reg1 |-> 1, trig |-> <<0, 0>>, calib |-> <<0, 0>>,
                 mode |-> "multi", armed |-> FALSE, range |-> <<0, 0>>,
                 enabled |-> FALSE, jtag |-> NoShift, shifted |-> NoShift, settled |-> TRUE]
    BY DEF Init
  <1>3. int16(0) = 0
    <2>1. 0 % Half = 0
      BY Constants
    <2>. QED
      BY <2>1, Constants DEF int16
  <1>4. /\ CalibAs(card, asked) /\ CsrAs(card, asked) /\ RangeAs(card, asked)
        /\ JtagAs(card, asked)
    BY <1>1, <1>2, <1>3 DEF CalibAs, CsrAs, RangeAs, JtagAs, NoShift
  <1>5. \A core : Holds(core, card, asked)
    <2>. USE NothingSet
    <2>1. /\ card.ddr = asked.ddr /\ get_avg(card.reg0) = asked.reg0
          /\ get_avg(card.reg1) = asked.reg1 /\ get_trig(card.reg1) = asked.trig
          /\ (card.ctl1 # 0 <=> asked.enabled) /\ card.dna = Dna
      BY <1>1, <1>2
    <2>. QED
      BY <1>4, <2>1 DEF Holds
  <1>6. \A p \in Procs : script[p] = <<>> /\ call[p].fn = "none"
    BY DEF Init
  <1>7. AtHome
    BY <1>6 DEF AtHome, Homed
  <1>8. Settled /\ OneCall
    BY <1>5, <1>6 DEF Settled, OneCall, Busy
  <1>9. Answered
    BY <1>6 DEF Answered, Brought
  <1>. QED
    BY <1>7, <1>8, <1>9 DEF Promised

(* A program that was busy elsewhere, or on an overlapped core, moves      *)
(* nothing of a core; the one program on a core goes from place to place.  *)
LEMMA StepPromised ==
  ASSUME IInv, Promised, NEW p \in Procs, Step(p)
  PROVE  Promised'
  <1>. DEFINE t == Head(script[p])
              home == call[p].core
  <1>1. /\ script[p] # <<>>
        /\ script' = [script EXCEPT ![p] = Tail(@)]
        /\ card' = After(card, t, got[p])
        /\ got' = IF t.k = "read" THEN [got EXCEPT ![p][t.reg] = card[t.reg]] ELSE got
        /\ UNCHANGED <<calls, call, port, asked, overlapped>>
    BY DEF Step, history
  <1>2. script[p] \in Scripts /\ card \in Card /\ got[p] \in Card /\ home \in Cores /\ call[p].was \in Promise
    BY DEF IInv, Typed
  <1>3. card' \in Card /\ asked \in Promise
    <2>1. IInv'
      BY StepInv
    <2>. QED
      BY <2>1 DEF IInv, Typed
  <1>4. t \in Elsewhere \cup OnPort /\ t.reg \in RegsOf(home) /\ Homed(Tail(script[p]), home)
    <2>1. script[p] \in Seq(Elsewhere \cup OnPort)
      BY <1>2, SeqMonotonic DEF Scripts
    <2>2. /\ t \in Elsewhere \cup OnPort /\ Len(script[p]) \in Nat /\ Len(script[p]) >= 1
          /\ Tail(script[p]) \in Seq(Elsewhere \cup OnPort)
          /\ Len(Tail(script[p])) = Len(script[p]) - 1
          /\ \A i \in 1 .. Len(Tail(script[p])) : Tail(script[p])[i] = script[p][i + 1]
      BY <1>1, <2>1, HeadTailProperties, LenProperties, EmptySeq
    <2>3. Homed(script[p], home)
      BY DEF Promised, AtHome
    <2>4. t = script[p][1]
      BY <1>1, <2>1
    <2>5. \A i \in 1 .. Len(Tail(script[p])) : i + 1 \in 1 .. Len(script[p])
      BY <2>2
    <2>. QED
      BY <2>2, <2>3, <2>4, <2>5 DEF Homed
  <1>5. /\ script'[p] = Tail(script[p])
        /\ \A q \in Procs : q # p => script'[q] = script[q] /\ got'[q] = got[q]
        /\ got'[p] = Taken(got[p], card, t)
    <2>1. script'[p] = Tail(script[p]) /\ \A q \in Procs : q # p => script'[q] = script[q]
      BY <1>1 DEF IInv, Typed
    <2>2. CASE t.k = "read"
      <3>1. got' = [got EXCEPT ![p] = [got[p] EXCEPT ![t.reg] = card[t.reg]]]
        BY <1>1, <2>2
      <3>2. got'[p] = [got[p] EXCEPT ![t.reg] = card[t.reg]]
        BY <3>1 DEF IInv, Typed
      <3>3. \A q \in Procs : q # p => got'[q] = got[q]
        BY <3>1 DEF IInv, Typed
      <3>. QED
        BY <2>1, <2>2, <3>2, <3>3 DEF Taken
    <2>3. CASE t.k # "read"
      BY <1>1, <2>1, <2>3 DEF Taken
    <2>. QED
      BY <2>2, <2>3
  <1>. HIDE DEF t
  <1>6. AtHome'
    BY <1>1, <1>4, <1>5 DEF Promised, AtHome
  <1>7. ASSUME NEW core \in Cores, core # home
        PROVE  /\ Holds(core, card, asked) => Holds(core, card', asked')
               /\ \A fn, s, g, w : Place(core, fn, card, asked, s, g, w)
                                     => Place(core, fn, card', asked', s, g, w)
    <2>1. \A r \in RegsOf(core) : card'[r] = card[r]
      BY <1>1, <1>2, <1>4, <1>7, OtherCores
    <2>2. asked' = asked
      BY <1>1
    <2>. QED
      BY <1>2, <1>3, <2>1, <2>2, SameCore
  <1>8. \A q \in Procs, core \in Cores : (q # p \/ core # home) => (Busy(q, core)' <=> Busy(q, core))
    BY <1>1, <1>5 DEF Busy
  <1>9. ASSUME home \notin overlapped
        PROVE  /\ \A q \in Procs : Busy(q, home) => q = p
               /\ IF script'[p] = <<>>
                  THEN Holds(home, card', asked') /\ Brought(call[p].fn, got'[p], call[p].was)
                  ELSE Place(home, call[p].fn, card', asked', script'[p], got'[p], call[p].was)
    <2>1. Busy(p, home)
      BY <1>1 DEF Busy
    <2>2. PlaceOf(p) /\ \A q \in Procs : Busy(q, home) => q = p
      BY <1>2, <1>9, <2>1 DEF Promised, OneCall
    <2>3. Follows(home, call[p].fn, card, asked, script[p], got[p], call[p].was)
      BY <1>2, <1>3, <2>2, PlaceFollows DEF PlaceOf
    <2>4. asked' = asked
      BY <1>1
    <2>. QED
      BY <1>1, <1>5, <2>2, <2>3, <2>4 DEF Follows, t
  <1>10. Settled'
    <2>. SUFFICES ASSUME NEW core \in Cores \ overlapped, \A q \in Procs : ~ Busy(q, core)'
                  PROVE  Holds(core, card', asked')
      BY <1>1 DEF Settled
    <2>1. CASE core # home
      <3>1. \A q \in Procs : ~ Busy(q, core)
        BY <1>8, <2>1
      <3>. QED
        BY <1>7, <2>1, <3>1 DEF Promised, Settled
    <2>2. CASE core = home
      <3>1. script'[p] = <<>>
        BY <1>1, <2>2 DEF Busy
      <3>. QED
        BY <1>9, <2>2, <3>1
    <2>. QED
      BY <2>1, <2>2
  <1>11. OneCall'
    <2>. SUFFICES ASSUME NEW core \in Cores \ overlapped, NEW q \in Procs, Busy(q, core)'
                  PROVE  PlaceOf(q)' /\ \A r \in Procs : Busy(r, core)' => r = q
      BY <1>1 DEF OneCall
    <2>1. CASE core # home
      <3>1. Busy(q, core) /\ \A r \in Procs : Busy(r, core)' => Busy(r, core)
        BY <1>8, <2>1
      <3>2. PlaceOf(q) /\ call[q].core = core /\ \A r \in Procs : Busy(r, core) => r = q
        BY <3>1 DEF Promised, OneCall, Busy
      <3>3. q # p
        BY <2>1, <3>2
      <3>4. PlaceOf(q)'
        BY <1>1, <1>5, <1>7, <2>1, <3>2, <3>3 DEF PlaceOf
      <3>. QED
        BY <3>1, <3>2, <3>4
    <2>2. CASE core = home
      <3>1. home \notin overlapped
        BY <2>2
      <3>2. \A r \in Procs : r # p => ~ Busy(r, core)'
        BY <1>8, <1>9, <2>2, <3>1
      <3>3. q = p
        BY <3>2
      <3>4. script'[p] # <<>>
        BY <3>3 DEF Busy
      <3>5. PlaceOf(p)'
        BY <1>1, <1>9, <3>1, <3>4 DEF PlaceOf
      <3>. QED
        BY <3>2, <3>3, <3>5
    <2>. QED
      BY <2>1, <2>2
  <1>12. Answered'
    <2>. SUFFICES ASSUME NEW q \in Procs, script'[q] = <<>>, call[q].core \notin overlapped
                  PROVE  Brought(call[q].fn, got'[q], call[q].was)
      BY <1>1 DEF Answered
    <2>1. CASE q = p
      BY <1>9, <2>1
    <2>2. CASE q # p
      BY <1>5, <2>2 DEF Promised, Answered
    <2>. QED
      BY <2>1, <2>2
  <1>. QED
    BY <1>6, <1>10, <1>11, <1>12 DEF Promised

(* What is asked and who is busy stays, and so do the places: then so does *)
(* the rest.                                                               *)
LEMMA CoresAlone ==
  ASSUME IInv, Promised, UNCHANGED <<calls, call, script, got, port, asked, overlapped>>,
         \A core \in Cores :
           /\ Holds(core, card, asked) => Holds(core, card', asked)
           /\ \A fn, s, g, w : Place(core, fn, card, asked, s, g, w)
                                 => Place(core, fn, card', asked, s, g, w)
  PROVE  Promised'
  <1>1. AtHome' /\ Answered'
    BY DEF Promised, AtHome, Answered
  <1>2. Settled'
    BY DEF Promised, Settled, Busy
  <1>3. ASSUME NEW core \in Cores \ overlapped, NEW p \in Procs, Busy(p, core)'
        PROVE  PlaceOf(p)' /\ \A q \in Procs : Busy(q, core)' => q = p
    <2>1. Busy(p, core) /\ \A q \in Procs : Busy(q, core)' <=> Busy(q, core)
      BY <1>3 DEF Busy
    <2>2. PlaceOf(p) /\ (\A q \in Procs : Busy(q, core) => q = p)
      BY <2>1 DEF Promised, OneCall
    <2>3. call[p].core \in Cores
      BY DEF IInv, Typed
    <2>. QED
      BY <2>1, <2>2, <2>3 DEF PlaceOf
  <1>4. OneCall'
    BY <1>3 DEF OneCall
  <1>. QED
    BY <1>1, <1>2, <1>4 DEF Promised

(* A trigger leaves a scope that is armed armed or triggered, and the end  *)
(* of a shift puts into TDO what was shifted.                              *)
LEMMA CorePromised ==
  ASSUME IInv, Promised, Trigger \/ ShiftDone
  PROVE  Promised'
  <1>1. UNCHANGED <<calls, call, script, got, port, asked, overlapped>>
    BY DEF Trigger, ShiftDone, history
  <1>2. card \in Card /\ asked \in Promise /\ card' \in Card
    <2>1. IInv'
      BY CoreInv
    <2>. QED
      BY <2>1 DEF IInv, Typed
  <1>3. ASSUME NEW core \in Cores, \A r \in RegsOf(core) : card'[r] = card[r]
        PROVE  /\ Holds(core, card, asked) => Holds(core, card', asked)
               /\ \A fn, s, g, w : Place(core, fn, card, asked, s, g, w)
                                     => Place(core, fn, card', asked, s, g, w)
    BY <1>2, <1>3, SameCore
  <1>4. CASE Trigger
    <2>1. card' = [card EXCEPT !.csr = [card.csr EXCEPT !.state = "triggered"]] /\ card.csr.state = "armed"
      BY <1>4 DEF Trigger
    <2>. DEFINE v == [card.csr EXCEPT !.state = "triggered"]
    <2>2. v.mode = card.csr.mode /\ v.state = "triggered"
      <3>1. card.csr \in Csr
        BY <1>2 DEF Card
      <3>. QED
        BY <3>1 DEF Csr
    <2>. HIDE DEF v
    <2>3. card' = [card EXCEPT !.csr = v]
      BY <2>1 DEF v
    <2>4. card'.csr = v /\ card'.start = card.start /\ card'.end = card.end
      BY <1>2, <2>3 DEF Card
    <2>5. \A core \in Cores : core # "scope" => \A r \in RegsOf(core) : card'[r] = card[r]
      <3>1. \A r \in DOMAIN card : r # "csr" => card'[r] = card[r]
        BY <2>3
      <3>2. \A core \in Cores : RegsOf(core) \subseteq DOMAIN card
        BY <1>2, SMTT(30) DEF Card, RegsOf, Cores
      <3>3. \A core \in Cores : core # "scope" => "csr" \notin RegsOf(core)
        BY DEF RegsOf, Cores
      <3>. QED
        BY <3>1, <3>2, <3>3
    <2>6. (CsrAs(card, asked) <=> CsrAs(card', asked)) /\ (RangeAs(card, asked) <=> RangeAs(card', asked))
      BY <2>1, <2>2, <2>4 DEF CsrAs, RangeAs
    <2>7. \A fn, s, g, w : ScopePlace(fn, card, asked, s, g, w) => ScopePlace(fn, card', asked, s, g, w)
      <3>1. \A s, g, w : Downloading(card, asked, s, g, w) => Downloading(card', asked, s, g, w)
        BY <2>4, <2>6 DEF Downloading
      <3>. QED
        BY <2>4, <2>6, <3>1 DEF ScopePlace
    <2>8. /\ Holds("scope", card, asked) => Holds("scope", card', asked)
          /\ \A fn, s, g, w : Place("scope", fn, card, asked, s, g, w)
                                => Place("scope", fn, card', asked, s, g, w)
      BY <2>6, <2>7 DEF Holds, Place
    <2>. QED
      BY <1>1, <1>3, <2>5, <2>8, CoresAlone
  <1>5. CASE ShiftDone
    <2>1. card' = [card EXCEPT !.ctl = 0, !.tdo = card.shifting] /\ card.ctl = 1
      BY <1>5 DEF ShiftDone
    <2>2. /\ card'.cnt = card.cnt /\ card'.tms = card.tms /\ card'.tdi = card.tdi
          /\ card'.ctl = 0 /\ card'.tdo = card.shifting /\ card'.shifting = card.shifting
      BY <1>2, <2>1 DEF Card
    <2>3. \A core \in Cores : core # "jtag" => \A r \in RegsOf(core) : card'[r] = card[r]
      <3>1. \A r \in DOMAIN card : r \notin {"ctl", "tdo"} => card'[r] = card[r]
        BY <2>1
      <3>2. \A core \in Cores : RegsOf(core) \subseteq DOMAIN card
        BY <1>2, SMTT(30) DEF Card, RegsOf, Cores
      <3>3. \A core \in Cores : core # "jtag" => RegsOf(core) \cap {"ctl", "tdo"} = {}
        BY DEF RegsOf, Cores
      <3>. QED
        BY <3>1, <3>2, <3>3
    <2>4. JtagAs(card, asked) => JtagAs(card', asked)
      BY <2>1, <2>2 DEF JtagAs
    <2>5. \A fn, s, g, w : JtagPlace(fn, card, asked, s, g, w) => JtagPlace(fn, card', asked, s, g, w)
      BY <2>1, <2>2, <2>4 DEF JtagPlace
    <2>6. /\ Holds("jtag", card, asked) => Holds("jtag", card', asked)
          /\ \A fn, s, g, w : Place("jtag", fn, card, asked, s, g, w)
                                => Place("jtag", fn, card', asked, s, g, w)
      BY <2>4, <2>5 DEF Holds, Place
    <2>. QED
      BY <1>1, <1>3, <2>3, <2>6, CoresAlone
  <1>. QED
    BY <1>4, <1>5

(* What is asked of one core is asked of no other.                         *)
LEMMA OtherAsks ==
  ASSUME NEW home \in Cores, NEW a, NEW b,
         \A f \in {"ddr", "reg0", "reg1", "trig", "calib", "mode", "armed", "range", "enabled",
                   "jtag", "shifted", "settled"} \ AsksOf(home) : b[f] = a[f],
         NEW core \in Cores, core # home
  PROVE  \A f \in AsksOf(core) : b[f] = a[f]
  BY DEF AsksOf, Cores

(* A call begins at its first place if nothing is under way on its core,   *)
(* and otherwise overlaps the call that is.                                *)
LEMMA BeginPromised ==
  ASSUME IInv, Promised, IInv', NEW p \in Procs, NEW fn \in Functions, NEW core \in Cores,
         NEW transfers, transfers # <<>>, Homed(transfers, core), NEW bits, NEW promise,
         Begin(p, fn, core, transfers, bits, promise),
         \A f \in {"ddr", "reg0", "reg1", "trig", "calib", "mode", "armed", "range", "enabled",
                   "jtag", "shifted", "settled"} \ AsksOf(core) : promise[f] = asked[f],
         Holds(core, card, asked) => Place(core, fn, card, promise, transfers, got[p], promise)
  PROVE  Promised'
  <1>1. /\ script[p] = <<>> /\ asked' = promise
        /\ call' = [call EXCEPT ![p] = [fn |-> fn, core |-> core, was |-> promise]]
        /\ script' = [script EXCEPT ![p] = transfers]
        /\ overlapped' = IF \E q \in Procs : Busy(q, core) THEN overlapped \cup {core} ELSE overlapped
        /\ UNCHANGED <<card, got>>
    BY DEF Begin
  <1>2. /\ call'[p].fn = fn /\ call'[p].core = core /\ call'[p].was = promise /\ script'[p] = transfers
        /\ \A q \in Procs : q # p => call'[q] = call[q] /\ script'[q] = script[q]
    BY <1>1 DEF IInv, Typed
  <1>3. card \in Card /\ asked \in Promise /\ promise \in Promise
    BY <1>1 DEF IInv, Typed
  <1>4. ASSUME NEW other \in Cores, other # core
        PROVE  /\ Holds(other, card, asked) => Holds(other, card, promise)
               /\ \A f, s, g, w : Place(other, f, card, asked, s, g, w)
                                    => Place(other, f, card, promise, s, g, w)
    <2>1. \A f \in AsksOf(other) : promise[f] = asked[f]
      BY <1>4, OtherAsks
    <2>. QED
      BY <1>3, <2>1, SameCore
  <1>5. /\ ~ Busy(p, core) /\ \A other : ~ Busy(p, other)
        /\ Busy(p, core)' /\ \A other : other # core => ~ Busy(p, other)'
        /\ \A q \in Procs : q # p => \A other : Busy(q, other)' <=> Busy(q, other)
    BY <1>1, <1>2 DEF Busy
  <1>6. AtHome'
    BY <1>2 DEF Promised, AtHome
  <1>7. Settled'
    <2>. SUFFICES ASSUME NEW other \in Cores, other \notin overlapped', \A q \in Procs : ~ Busy(q, other)'
                  PROVE  Holds(other, card', asked')
      BY DEF Settled
    <2>1. other # core /\ other \notin overlapped /\ \A q \in Procs : ~ Busy(q, other)
      BY <1>1, <1>5
    <2>2. Holds(other, card, asked)
      BY <2>1 DEF Promised, Settled
    <2>. QED
      BY <1>1, <1>4, <2>1, <2>2
  <1>8. OneCall'
    <2>. SUFFICES ASSUME NEW other \in Cores, other \notin overlapped', NEW q \in Procs, Busy(q, other)'
                  PROVE  PlaceOf(q)' /\ \A r \in Procs : Busy(r, other)' => r = q
      BY DEF OneCall
    <2>1. CASE other = core
      <3>1. core \notin overlapped /\ \A r \in Procs : ~ Busy(r, core)
        BY <1>1, <2>1
      <3>2. q = p /\ \A r \in Procs : Busy(r, other)' => r = q
        BY <1>5, <2>1, <3>1
      <3>3. Holds(core, card, asked)
        BY <3>1 DEF Promised, Settled
      <3>4. Place(core, fn, card, promise, transfers, got[p], promise)
        BY <3>3
      <3>5. PlaceOf(p)'
        BY <1>1, <1>2, <3>4 DEF PlaceOf
      <3>. QED
        BY <3>2, <3>5
    <2>2. CASE other # core
      <3>1. other \notin overlapped /\ q # p /\ Busy(q, other)
        BY <1>1, <1>5, <2>2
      <3>2. PlaceOf(q) /\ call[q].core = other /\ \A r \in Procs : Busy(r, other) => r = q
        BY <3>1 DEF Promised, OneCall, Busy
      <3>3. \A r \in Procs : Busy(r, other)' => r = q
        BY <1>5, <2>2, <3>2
      <3>4. PlaceOf(q)'
        BY <1>1, <1>2, <1>4, <2>2, <3>1, <3>2 DEF PlaceOf
      <3>. QED
        BY <3>3, <3>4
    <2>. QED
      BY <2>1, <2>2
  <1>9. Answered'
    <2>. SUFFICES ASSUME NEW q \in Procs, script'[q] = <<>>, call'[q].core \notin overlapped'
                  PROVE  Brought(call'[q].fn, got'[q], call'[q].was)
      BY DEF Answered
    <2>1. q # p /\ call'[q] = call[q] /\ script[q] = <<>> /\ call[q].core \notin overlapped
      BY <1>1, <1>2
    <2>. QED
      BY <1>1, <2>1 DEF Promised, Answered
  <1>. QED
    BY <1>6, <1>7, <1>8, <1>9 DEF Promised

---------------------------------------------------------------------------
(* Every call begins at its first place. *)

(* A remainder from quotient and rest.                                     *)
LEMMA Remainder ==
  ASSUME NEW b \in Nat \ {0}, NEW q \in Int, NEW e \in 0 .. b - 1
  PROVE  (b * q + e) % b = e
  OBVIOUS

(* An offset that was cut to 16 bits keeps its value when its sign is      *)
(* spread over a word and taken back from the lower half of it.            *)
LEMMA OffsetRead ==
  ASSUME NEW x \in Int
  PROVE  /\ gain_fix(x) \in Word /\ gain_fix(x) = Clamp(x, 0, Half - 1)
         /\ offset_fix(x) % WordMod \in Word
         /\ int16(offset_fix(x) % WordMod) = Clamp(x, -Fix, Fix - 1)
  <1>1. gain_fix(x) \in Word /\ gain_fix(x) = Clamp(x, 0, Half - 1)
    BY Constants DEF gain_fix, Clamp, Word
  <1>. DEFINE o == offset_fix(x)
              b == Half
              k == WordMod \div b
  <1>2. o \in Int /\ -Fix <= o /\ o < Fix /\ o = Clamp(x, -Fix, Fix - 1)
    BY Constants DEF offset_fix, Clamp
  <1>3. b \in Nat \ {0} /\ WordMod \in Nat /\ WordMod > b /\ b = Fix + Fix /\ Fix \in Nat
    BY Constants
  <1>4. k \in Int /\ WordMod = b * k
    <2>. HIDE DEF b
    <2>1. WordMod % b = 0
      BY CardAssumption DEF b
    <2>. QED
      BY <1>3, <2>1
  <1>. HIDE DEF o, b, k
  <1>5. CASE o >= 0
    <2>1. o % WordMod = o
      BY <1>2, <1>3, <1>5
    <2>2. o % b = o
      BY <1>2, <1>3, <1>5
    <2>3. int16(o % WordMod) = o
      BY <1>2, <1>3, <2>1, <2>2 DEF int16, b
    <2>4. o \in Word
      BY <1>2, <1>3, <1>5 DEF Word
    <2>. QED
      BY <1>1, <1>2, <2>1, <2>3, <2>4 DEF o
  <1>6. CASE o < 0
    <2>1. o + WordMod \in 0 .. WordMod - 1 /\ o + WordMod \in Word
      BY <1>2, <1>3, <1>6 DEF Word
    <2>2. o % WordMod = o + WordMod
      <3>1. o = WordMod * (-1) + (o + WordMod) /\ WordMod \in Nat \ {0}
        BY <1>2, <1>3
      <3>. QED
        BY <2>1, <3>1, Remainder
    <2>3. (o + WordMod) % b = o + b
      <3>1. o + WordMod = b * (k - 1) + (o + b)
        BY <1>2, <1>3, <1>4
      <3>2. o + b \in 0 .. b - 1 /\ k - 1 \in Int
        BY <1>2, <1>3, <1>4, <1>6
      <3>3. (b * (k - 1) + (o + b)) % b = o + b
        BY <1>3, <3>2, Remainder
      <3>. QED
        BY <3>1, <3>3
    <2>4. int16(o % WordMod) = o
      <3>1. ~ (o + b < Fix) /\ (o + b) - b = o
        BY <1>2, <1>3
      <3>. QED
        BY <2>2, <2>3, <3>1 DEF int16, b
    <2>. QED
      BY <1>1, <1>2, <2>1, <2>2, <2>4 DEF o
  <1>. QED
    BY <1>2, <1>5, <1>6

(* The average field is one less than the average it stands for.           *)
LEMMA AverageField ==
  ASSUME NEW a \in Int
  PROVE  AvgField(a) \in 0 .. AvgTop /\ AvgField(a) + 1 = Clamp(a, 1, AvgTop + 1)
  BY Constants DEF AvgField, Clamp

(* Two, one and three transfers are six.                                   *)
LEMMA SixInAll ==
  ASSUME NEW x, NEW y, NEW z, NEW u, NEW v, NEW m
  PROVE  (<<x, y>> \o <<z>>) \o <<u, v, m>> = <<x, y, z, u, v, m>>
  <1>. DEFINE S == {x, y, z, u, v, m}
              a == <<x, y>>
              b == <<z>>
              c == <<u, v, m>>
              e == <<x, y, z, u, v, m>>
  <1>1. /\ a \in Seq(S) /\ b \in Seq(S) /\ c \in Seq(S) /\ e \in Seq(S)
        /\ Len(a) = 2 /\ Len(b) = 1 /\ Len(c) = 3 /\ Len(e) = 6
        /\ a[1] = x /\ a[2] = y /\ b[1] = z /\ c[1] = u /\ c[2] = v /\ c[3] = m
        /\ e[1] = x /\ e[2] = y /\ e[3] = z /\ e[4] = u /\ e[5] = v /\ e[6] = m
    OBVIOUS
  <1>. HIDE DEF S, a, b, c, e
  <1>. DEFINE d == a \o b
  <1>2. d \in Seq(S) /\ Len(d) = 3 /\ d[1] = x /\ d[2] = y /\ d[3] = z
    <2>1. /\ d \in Seq(S) /\ Len(d) = Len(a) + Len(b)
          /\ \A i \in 1 .. Len(a) + Len(b) : d[i] = IF i <= Len(a) THEN a[i] ELSE b[i - Len(a)]
      BY <1>1, ConcatProperties
    <2>2. \A i \in 1 .. 3 : d[i] = IF i <= 2 THEN a[i] ELSE b[i - 2]
      BY <1>1, <2>1
    <2>. QED
      BY <1>1, <2>1, <2>2
  <1>. HIDE DEF d
  <1>. DEFINE f == d \o c
  <1>3. f \in Seq(S) /\ Len(f) = 6 /\ \A i \in 1 .. 6 : f[i] = IF i <= 3 THEN d[i] ELSE c[i - 3]
    <2>1. /\ f \in Seq(S) /\ Len(f) = Len(d) + Len(c)
          /\ \A i \in 1 .. Len(d) + Len(c) : f[i] = IF i <= Len(d) THEN d[i] ELSE c[i - Len(d)]
      BY <1>1, <1>2, ConcatProperties
    <2>. QED
      BY <1>1, <1>2, <2>1
  <1>. HIDE DEF f
  <1>4. \A i \in 1 .. 6 : f[i] = e[i]
    <2>1. f[1] = x /\ f[2] = y /\ f[3] = z
      BY <1>2, <1>3
    <2>2. f[4] = u /\ f[5] = v /\ f[6] = m
      <3>1. /\ 4 \in 1 .. 6 /\ ~ (4 <= 3) /\ 4 - 3 = 1
            /\ 5 \in 1 .. 6 /\ ~ (5 <= 3) /\ 5 - 3 = 2
            /\ 6 \in 1 .. 6 /\ ~ (6 <= 3) /\ 6 - 3 = 3
        OBVIOUS
      <3>2. f[4] = c[4 - 3] /\ f[5] = c[5 - 3] /\ f[6] = c[6 - 3]
        BY <1>3, <3>1
      <3>. QED
        BY <1>1, <3>1, <3>2
    <2>3. \A i \in 1 .. 6 : i = 1 \/ i = 2 \/ i = 3 \/ i = 4 \/ i = 5 \/ i = 6
      OBVIOUS
    <2>. QED
      BY <1>1, <2>1, <2>2, <2>3
  <1>5. f = e
    BY <1>1, <1>3, <1>4, SeqEqual
  <1>. QED
    BY <1>5 DEF a, b, c, d, e, f

(* An address range is written, the scope stopped, and all read back.      *)
LEMMA RangeScript ==
  ASSUME NEW start, NEW size
  PROVE  set_address_range(start, size) =
           <<Write("start", start), Write("end", (start + size - 1) % WordMod), Stop,
             Read("csr"), Read("start"), Read("end")>>
  <1>1. set_address_range(start, size)
          = (<<Write("start", start), Write("end", (start + size - 1) % WordMod)>> \o <<Stop>>)
              \o <<Read("csr"), Read("start"), Read("end")>>
    BY Zenon DEF set_address_range, stop, registers_download, Stop, Rested
  <1>. DEFINE x == Write("start", start)
              y == Write("end", (start + size - 1) % WordMod)
              u == Read("csr")
              v == Read("start")
              m == Read("end")
  <1>2. set_address_range(start, size) = (<<x, y>> \o <<Stop>>) \o <<u, v, m>>
    BY <1>1
  <1>. HIDE DEF x, y, u, v, m
  <1>3. set_address_range(start, size) = <<x, y, Stop, u, v, m>>
    BY <1>2, SixInAll
  <1>. QED
    BY <1>3 DEF x, y, u, v, m

(* The transfers of each call are to its own core.                         *)
LEMMA HomedCalls ==
  /\ \A v, mask : Homed(set_port_value(v, mask), "port")
  /\ \A v : Homed(set_port_direction(v), "ddr")
  /\ \A reg \in {"reg0", "reg1"} : \A a : Homed(set_avg(reg, a), reg)
  /\ \A trig, rf : Homed(set_trig(trig, rf), "reg1")
  /\ \A x, y : Homed(set_calib(x, y), "calib")
  /\ Homed(get_calib, "calib")
  /\ \A mode : Homed(shot(mode), "scope")
  /\ Homed(stop, "scope") /\ Homed(registers_download, "scope")
  /\ \A x, y : Homed(set_address_range(x, y), "scope")
  /\ \A flag \in BOOLEAN : Homed(fmc_csr_enable(flag), "fmc_csr")
  /\ Homed(dna_registers_download, "dna")
  /\ \A x, y, z : Homed(jtag_registers_upload(x, y, z), "jtag")
  /\ Homed(jtag_start, "jtag") /\ Homed(jtag_registers_download, "jtag")
  <1>1. /\ \A core, x : x.reg \in RegsOf(core) => Homed(<<x>>, core)
        /\ \A core, x, y : x.reg \in RegsOf(core) /\ y.reg \in RegsOf(core) => Homed(<<x, y>>, core)
        /\ \A core, x, y, z : x.reg \in RegsOf(core) /\ y.reg \in RegsOf(core) /\ z.reg \in RegsOf(core)
                                => Homed(<<x, y, z>>, core)
    BY DEF Homed
  <1>2. \A core, x, y, z, u, v, m :
          /\ x.reg \in RegsOf(core) /\ y.reg \in RegsOf(core) /\ z.reg \in RegsOf(core)
          /\ u.reg \in RegsOf(core) /\ v.reg \in RegsOf(core) /\ m.reg \in RegsOf(core)
          => Homed(<<x, y, z, u, v, m>>, core)
    BY DEF Homed
  <1>3. \A k, reg, v : Transfer(k, reg, v).reg = reg /\ Read(reg).reg = reg /\ Write(reg, v).reg = reg
    BY DEF Transfer, Read, Write
  <1>4. \A mode : Rested(mode).reg = "csr" /\ Armed(mode).reg = "csr"
    BY <1>3 DEF Rested, Armed, ScopeCsr
  <1>5. /\ RegsOf("port") = {"out"} /\ RegsOf("ddr") = {"ddr"} /\ RegsOf("reg0") = {"reg0"}
        /\ RegsOf("reg1") = {"reg1"} /\ RegsOf("calib") = {"gain", "offset"}
        /\ RegsOf("scope") = {"csr", "start", "end"} /\ RegsOf("fmc_csr") = {"ctl1"}
        /\ RegsOf("dna") = {"dna"}
        /\ RegsOf("jtag") = {"cnt", "tms", "tdi", "tdo", "ctl", "shifting"}
    BY DEF RegsOf
  <1>6. /\ \A v, mask : Homed(set_port_value(v, mask), "port")
        /\ \A v : Homed(set_port_direction(v), "ddr")
    BY <1>1, <1>3, <1>5 DEF set_port_value, set_port_direction
  <1>7. /\ \A reg \in {"reg0", "reg1"} : \A a : Homed(set_avg(reg, a), reg)
        /\ \A trig, rf : Homed(set_trig(trig, rf), "reg1")
    BY <1>1, <1>3, <1>5 DEF set_avg, set_trig
  <1>8. (\A x, y : Homed(set_calib(x, y), "calib")) /\ Homed(get_calib, "calib")
    BY <1>1, <1>3, <1>5 DEF set_calib, get_calib
  <1>9. (\A mode : Homed(shot(mode), "scope")) /\ Homed(stop, "scope")
    <2>1. \A mode : shot(mode) = <<Rested(mode), Armed(mode)>> /\ stop = <<Rested("multi")>>
      BY DEF shot, stop, Rested, Armed
    <2>. QED
      BY <1>1, <1>4, <1>5, <2>1
  <1>10. Homed(registers_download, "scope")
    BY <1>1, <1>3, <1>5 DEF registers_download
  <1>11. \A x, y : Homed(set_address_range(x, y), "scope")
    BY <1>2, <1>3, <1>4, <1>5, RangeScript DEF Stop
  <1>12. /\ \A flag \in BOOLEAN : Homed(fmc_csr_enable(flag), "fmc_csr")
         /\ Homed(dna_registers_download, "dna")
    BY <1>1, <1>3, <1>5 DEF fmc_csr_enable, dna_registers_download
  <1>13. /\ \A x, y, z : Homed(jtag_registers_upload(x, y, z), "jtag")
         /\ Homed(jtag_start, "jtag") /\ Homed(jtag_registers_download, "jtag")
    BY <1>1, <1>3, <1>5 DEF jtag_registers_upload, jtag_start, jtag_registers_download
  <1>. QED
    BY <1>6, <1>7, <1>8, <1>9, <1>10, <1>11, <1>12, <1>13

(* The calls, each at its first place with all its transfers to make.      *)
LEMMA CallPromised ==
  ASSUME IInv, Promised, NEW p \in Procs, Gpio(p) \/ BpmParams(p) \/ XwbScope(p) \/ SmallCores(p)
  PROVE  Promised'
  <1>1. IInv'
    BY CallInv
  <1>2. card \in Card /\ asked \in Promise
    BY DEF IInv, Typed
  <1>3. ASSUME NEW fn \in Functions, NEW core \in Cores, NEW transfers, transfers # <<>>,
               Homed(transfers, core), NEW bits, NEW promise,
               Begin(p, fn, core, transfers, bits, promise),
               \A f \in {"ddr", "reg0", "reg1", "trig", "calib", "mode", "armed", "range", "enabled",
                         "jtag", "shifted", "settled"} \ AsksOf(core) : promise[f] = asked[f],
               Holds(core, card, asked) => Place(core, fn, card, promise, transfers, got[p], promise)
        PROVE  Promised'
    BY <1>1, <1>3, BeginPromised
  <1>4. /\ {"port", "ddr", "reg0", "reg1", "calib", "scope", "fmc_csr", "dna", "jtag"} \subseteq Cores
        /\ Functions = {"none", "set_port_value", "set_port_direction", "set_avg", "set_trig",
                        "set_calib", "get_calib", "shot", "stop", "registers_download",
                        "set_address_range", "enable", "dna_download", "jtag_upload", "jtag_start",
                        "jtag_download"}
    BY DEF Cores, Functions
  <1>5. CASE Gpio(p)
    <2>1. PICK v \in PortValues :
            \/ \E mask \in SUBSET Mine[p] :
                 Begin(p, "set_port_value", "port", set_port_value(v, mask),
                       (port[p] \ mask) \cup (v \cap mask), asked)
            \/ Begin(p, "set_port_direction", "ddr", set_port_direction(v), port[p],
                     [asked EXCEPT !.ddr = v])
      BY <1>5 DEF Gpio
    <2>2. ASSUME NEW mask \in SUBSET Mine[p],
                 Begin(p, "set_port_value", "port", set_port_value(v, mask),
                       (port[p] \ mask) \cup (v \cap mask), asked)
          PROVE  Promised'
      <3>1. set_port_value(v, mask) # <<>> /\ Homed(set_port_value(v, mask), "port")
        BY HomedCalls DEF set_port_value
      <3>2. Place("port", "set_port_value", card, asked, set_port_value(v, mask), got[p], asked)
        BY DEF Place
      <3>. QED
        BY <1>3, <1>4, <2>2, <3>1, <3>2
    <2>3. ASSUME Begin(p, "set_port_direction", "ddr", set_port_direction(v), port[p],
                       [asked EXCEPT !.ddr = v])
          PROVE  Promised'
      <3>. DEFINE b == [asked EXCEPT !.ddr = v]
      <3>1. set_port_direction(v) # <<>> /\ Homed(set_port_direction(v), "ddr")
        BY HomedCalls DEF set_port_direction
      <3>2. /\ b.ddr = v
            /\ \A f \in {"ddr", "reg0", "reg1", "trig", "calib", "mode", "armed", "range", "enabled",
                         "jtag", "shifted", "settled"} \ AsksOf("ddr") : b[f] = asked[f]
        BY <1>2 DEF Promise, AsksOf
      <3>. HIDE DEF b
      <3>3. Place("ddr", "set_port_direction", card, b, set_port_direction(v), got[p], b)
        BY <3>2 DEF Place, DdrPlace, set_port_direction
      <3>4. Begin(p, "set_port_direction", "ddr", set_port_direction(v), port[p], b)
        BY <2>3 DEF b
      <3>. QED
        BY <1>3, <1>4, <3>1, <3>2, <3>3, <3>4
    <2>. QED
      BY <2>1, <2>2, <2>3
  <1>6. CASE BpmParams(p)
    <2>1. ASSUME NEW reg \in {"reg0", "reg1"}, NEW a \in Avgs,
                 Begin(p, "set_avg", reg, set_avg(reg, a), port[p],
                       [asked EXCEPT ![reg] = Clamp(a, 1, AvgTop + 1)])
          PROVE  Promised'
      <3>. DEFINE x == Clamp(a, 1, AvgTop + 1)
                  b == [asked EXCEPT ![reg] = x]
      <3>1. set_avg(reg, a) # <<>> /\ Homed(set_avg(reg, a), reg)
        BY HomedCalls DEF set_avg
      <3>2. AvgField(a) \in 0 .. AvgTop /\ AvgField(a) + 1 = x
        BY CardAssumption, AverageField
      <3>3. Begin(p, "set_avg", reg, set_avg(reg, a), port[p], b)
        BY <2>1
      <3>. HIDE DEF x
      <3>4. /\ b[reg] = x /\ b.trig = asked.trig
            /\ \A f \in {"ddr", "reg0", "reg1", "trig", "calib", "mode", "armed", "range", "enabled",
                         "jtag", "shifted", "settled"} \ AsksOf(reg) : b[f] = asked[f]
        BY <1>2 DEF Promise, AsksOf
      <3>. HIDE DEF b
      <3>5. Holds(reg, card, asked) => (reg = "reg1" => get_trig(card.reg1) = b.trig)
        BY <3>4 DEF Holds
      <3>6. Holds(reg, card, asked) => ParamPlace(reg, "set_avg", card, b, set_avg(reg, a), got[p], b)
        BY <3>2, <3>4, <3>5 DEF ParamPlace, set_avg
      <3>7. Holds(reg, card, asked) => Place(reg, "set_avg", card, b, set_avg(reg, a), got[p], b)
        BY <3>6 DEF Place
      <3>. QED
        BY <1>3, <1>4, <3>1, <3>3, <3>4, <3>7
    <2>2. ASSUME NEW trig \in Trigs, NEW rf \in Trigs,
                 Begin(p, "set_trig", "reg1", set_trig(trig, rf), port[p],
                       [asked EXCEPT !.trig = <<trig % ByteMod, rf % ByteMod>>])
          PROVE  Promised'
      <3>. DEFINE v == <<trig, rf>>
                  x == <<trig % ByteMod, rf % ByteMod>>
                  b == [asked EXCEPT !.trig = x]
      <3>1. set_trig(trig, rf) # <<>> /\ Homed(set_trig(trig, rf), "reg1")
        BY HomedCalls DEF set_trig
      <3>2. set_trig(trig, rf) = <<Read("reg1"), Transfer("trig", "reg1", v)>>
        BY DEF set_trig
      <3>3. Begin(p, "set_trig", "reg1", set_trig(trig, rf), port[p], b)
        BY <2>2
      <3>4. v \in Int \X Int /\ <<v[1] % ByteMod, v[2] % ByteMod>> = x
        BY Constants
      <3>. HIDE DEF x, v
      <3>5. /\ b.trig = x /\ b.reg1 = asked.reg1
            /\ \A f \in {"ddr", "reg0", "reg1", "trig", "calib", "mode", "armed", "range", "enabled",
                         "jtag", "shifted", "settled"} \ AsksOf("reg1") : b[f] = asked[f]
        BY <1>2 DEF Promise, AsksOf
      <3>. HIDE DEF b
      <3>6. Holds("reg1", card, asked)
              => ParamPlace("reg1", "set_trig", card, b, set_trig(trig, rf), got[p], b)
        BY <3>2, <3>5, <3>4 DEF Holds, ParamPlace
      <3>7. Holds("reg1", card, asked)
              => Place("reg1", "set_trig", card, b, set_trig(trig, rf), got[p], b)
        BY <3>6 DEF Place
      <3>. QED
        BY <1>3, <1>4, <3>1, <3>3, <3>5, <3>7
    <2>3. ASSUME NEW c \in Calibs,
                 Begin(p, "set_calib", "calib", set_calib(c[1], c[2]), port[p],
                       [asked EXCEPT !.calib = <<Clamp(c[1], 0, Half - 1),
                                                 Clamp(c[2], -Fix, Fix - 1)>>])
          PROVE  Promised'
      <3>. DEFINE x == <<Clamp(c[1], 0, Half - 1), Clamp(c[2], -Fix, Fix - 1)>>
                  b == [asked EXCEPT !.calib = x]
                  gain == gain_fix(c[1])
                  offset == offset_fix(c[2]) % WordMod
      <3>1. set_calib(c[1], c[2]) # <<>> /\ Homed(set_calib(c[1], c[2]), "calib")
        BY HomedCalls DEF set_calib
      <3>2. set_calib(c[1], c[2]) = <<Write("gain", gain), Write("offset", offset)>>
        BY DEF set_calib
      <3>3. gain \in Word /\ offset \in Word /\ x = <<gain, int16(offset)>>
        <4>1. c[1] \in Int /\ c[2] \in Int
          BY CardAssumption
        <4>2. gain \in Word /\ gain = Clamp(c[1], 0, Half - 1)
          BY <4>1, OffsetRead
        <4>3. offset \in Word /\ int16(offset) = Clamp(c[2], -Fix, Fix - 1)
          BY <4>1, OffsetRead
        <4>. QED
          BY <4>2, <4>3, Zenon
      <3>4. Begin(p, "set_calib", "calib", set_calib(c[1], c[2]), port[p], b)
        BY <2>3
      <3>. HIDE DEF x, gain, offset
      <3>5. /\ b.calib = x
            /\ \A f \in {"ddr", "reg0", "reg1", "trig", "calib", "mode", "armed", "range", "enabled",
                         "jtag", "shifted", "settled"} \ AsksOf("calib") : b[f] = asked[f]
        BY <1>2 DEF Promise, AsksOf
      <3>. HIDE DEF b
      <3>6. CalibPlace("set_calib", card, b, set_calib(c[1], c[2]), got[p], b)
        BY <3>2, <3>3, <3>5 DEF CalibPlace
      <3>7. Place("calib", "set_calib", card, b, set_calib(c[1], c[2]), got[p], b)
        BY <3>6 DEF Place
      <3>. QED
        BY <1>3, <1>4, <3>1, <3>4, <3>5, <3>7
    <2>4. ASSUME Begin(p, "get_calib", "calib", get_calib, port[p], asked)
          PROVE  Promised'
      <3>1. get_calib # <<>> /\ Homed(get_calib, "calib")
        BY HomedCalls DEF get_calib
      <3>2. Holds("calib", card, asked) => CalibPlace("get_calib", card, asked, get_calib, got[p], asked)
        BY DEF Holds, CalibPlace, get_calib
      <3>3. Holds("calib", card, asked) => Place("calib", "get_calib", card, asked, get_calib, got[p], asked)
        BY <3>2 DEF Place
      <3>. QED
        BY <1>3, <1>4, <2>4, <3>1, <3>3
    <2>. QED
      BY <1>6, <2>1, <2>2, <2>3, <2>4 DEF BpmParams
  <1>7. CASE XwbScope(p)
    <2>. DEFINE Others(b) ==
           \A f \in {"ddr", "reg0", "reg1", "trig", "calib", "mode", "armed", "range", "enabled",
                     "jtag", "shifted", "settled"} \ AsksOf("scope") : b[f] = asked[f]
    <2>1. Holds("scope", card, asked) <=> CsrAs(card, asked) /\ RangeAs(card, asked)
      BY DEF Holds
    <2>2. \A fn, b, s : ScopePlace(fn, card, b, s, got[p], b) => Place("scope", fn, card, b, s, got[p], b)
      BY DEF Place
    <2>3. ASSUME NEW mode \in Modes,
                 Begin(p, "shot", "scope", shot(mode), port[p],
                       [asked EXCEPT !.mode = mode, !.armed = TRUE])
          PROVE  Promised'
      <3>. DEFINE b == [asked EXCEPT !.mode = mode, !.armed = TRUE]
      <3>1. shot(mode) # <<>> /\ Homed(shot(mode), "scope")
        BY HomedCalls DEF shot
      <3>2. shot(mode) = <<Rested(mode), Armed(mode)>>
        BY DEF shot, Rested, Armed
      <3>3. b.mode = mode /\ b.armed /\ b.range = asked.range /\ Others(b)
        BY <1>2 DEF Promise, AsksOf
      <3>4. Begin(p, "shot", "scope", shot(mode), port[p], b)
        BY <2>3
      <3>. HIDE DEF b
      <3>5. RangeAs(card, asked) => RangeAs(card, b)
        BY <3>3 DEF RangeAs
      <3>6. Holds("scope", card, asked) => ScopePlace("shot", card, b, shot(mode), got[p], b)
        BY <2>1, <3>2, <3>3, <3>5 DEF ScopePlace
      <3>. QED
        BY <1>3, <1>4, <2>2, <3>1, <3>3, <3>4, <3>6
    <2>4. ASSUME Begin(p, "stop", "scope", stop, port[p],
                       [asked EXCEPT !.mode = "multi", !.armed = FALSE])
          PROVE  Promised'
      <3>. DEFINE b == [asked EXCEPT !.mode = "multi", !.armed = FALSE]
      <3>1. stop # <<>> /\ Homed(stop, "scope")
        BY HomedCalls DEF stop
      <3>2. stop = <<Stop>>
        BY DEF stop, Stop, Rested
      <3>3. b.mode = "multi" /\ ~ b.armed /\ b.range = asked.range /\ Others(b)
        BY <1>2 DEF Promise, AsksOf
      <3>4. Begin(p, "stop", "scope", stop, port[p], b)
        BY <2>4
      <3>. HIDE DEF b
      <3>5. RangeAs(card, asked) => RangeAs(card, b)
        BY <3>3 DEF RangeAs
      <3>6. Holds("scope", card, asked) => ScopePlace("stop", card, b, stop, got[p], b)
        BY <2>1, <3>2, <3>3, <3>5 DEF ScopePlace
      <3>. QED
        BY <1>3, <1>4, <2>2, <3>1, <3>3, <3>4, <3>6
    <2>5. ASSUME Begin(p, "registers_download", "scope", registers_download, port[p], asked)
          PROVE  Promised'
      <3>1. registers_download # <<>> /\ Homed(registers_download, "scope")
        BY HomedCalls DEF registers_download
      <3>2. Holds("scope", card, asked) => Downloading(card, asked, registers_download, got[p], asked)
        BY <2>1 DEF Downloading, registers_download
      <3>3. Holds("scope", card, asked)
              => ScopePlace("registers_download", card, asked, registers_download, got[p], asked)
        BY <3>2 DEF ScopePlace
      <3>. QED
        BY <1>3, <1>4, <2>2, <2>5, <3>1, <3>3
    <2>6. ASSUME NEW r \in Ranges,
                 Begin(p, "set_address_range", "scope", set_address_range(r[1], r[2]), port[p],
                       [asked EXCEPT !.mode = "multi", !.armed = FALSE,
                                     !.range = <<r[1], (r[1] + r[2] - 1) % WordMod>>])
          PROVE  Promised'
      <3>. DEFINE start == r[1]
                  end == (r[1] + r[2] - 1) % WordMod
                  x == <<start, end>>
                  b == [asked EXCEPT !.mode = "multi", !.armed = FALSE, !.range = x]
                  s == set_address_range(r[1], r[2])
      <3>1. s = <<Write("start", start), Write("end", end), Stop, Read("csr"), Read("start"), Read("end")>>
        BY RangeScript
      <3>2. Homed(s, "scope")
        BY HomedCalls
      <3>3. Begin(p, "set_address_range", "scope", s, port[p], b)
        BY <2>6
      <3>4. x[1] = start /\ x[2] = end
        OBVIOUS
      <3>. HIDE DEF x, start, end, s
      <3>5. b.mode = "multi" /\ ~ b.armed /\ b.range = x /\ Others(b)
        BY <1>2 DEF Promise, AsksOf
      <3>. HIDE DEF b
      <3>6. ScopePlace("set_address_range", card, b, s, got[p], b)
        BY <3>1, <3>4, <3>5 DEF ScopePlace
      <3>7. s # <<>>
        <4>1. \A c, d, e, f, g, h : <<c, d, e, f, g, h>> # <<>>
          OBVIOUS
        <4>. QED
          BY <3>1, <4>1
      <3>. QED
        BY <1>3, <1>4, <2>2, <3>2, <3>3, <3>5, <3>6, <3>7
    <2>. QED
      BY <1>7, <2>3, <2>4, <2>5, <2>6 DEF XwbScope
  <1>8. CASE SmallCores(p)
    <2>. DEFINE Others(core, b) ==
           \A f \in {"ddr", "reg0", "reg1", "trig", "calib", "mode", "armed", "range", "enabled",
                     "jtag", "shifted", "settled"} \ AsksOf(core) : b[f] = asked[f]
    <2>1. Holds("jtag", card, asked) <=> JtagAs(card, asked)
      BY DEF Holds
    <2>2. \A fn, b, s : JtagPlace(fn, card, b, s, got[p], b) => Place("jtag", fn, card, b, s, got[p], b)
      BY DEF Place
    <2>3. ASSUME NEW flag \in BOOLEAN,
                 Begin(p, "enable", "fmc_csr", fmc_csr_enable(flag), port[p],
                       [asked EXCEPT !.enabled = flag])
          PROVE  Promised'
      <3>. DEFINE b == [asked EXCEPT !.enabled = flag]
                  s == fmc_csr_enable(flag)
      <3>1. s # <<>> /\ Homed(s, "fmc_csr")
        BY HomedCalls DEF fmc_csr_enable
      <3>2. (b.enabled <=> flag) /\ Others("fmc_csr", b)
        BY <1>2 DEF Promise, AsksOf
      <3>3. Begin(p, "enable", "fmc_csr", s, port[p], b)
        BY <2>3
      <3>4. s = <<Write("ctl1", IF flag THEN 16 ELSE 0)>>
        BY DEF fmc_csr_enable
      <3>. HIDE DEF b, s
      <3>5. CsrPlace("enable", card, b, s, got[p], b)
        BY <3>2, <3>4 DEF CsrPlace
      <3>6. Place("fmc_csr", "enable", card, b, s, got[p], b)
        BY <3>5 DEF Place
      <3>. QED
        BY <1>3, <1>4, <3>1, <3>2, <3>3, <3>6
    <2>4. ASSUME Begin(p, "dna_download", "dna", dna_registers_download, port[p], asked)
          PROVE  Promised'
      <3>1. dna_registers_download # <<>> /\ Homed(dna_registers_download, "dna")
        BY HomedCalls DEF dna_registers_download
      <3>2. Holds("dna", card, asked)
              => Place("dna", "dna_download", card, asked, dna_registers_download, got[p], asked)
        BY DEF Holds, Place, DnaPlace, dna_registers_download
      <3>. QED
        BY <1>3, <1>4, <2>4, <3>1, <3>2
    <2>5. ASSUME NEW v \in Shifts,
                 Begin(p, "jtag_upload", "jtag", jtag_registers_upload(v[1], v[2], v[3]), port[p],
                       [asked EXCEPT !.jtag = v])
          PROVE  Promised'
      <3>. DEFINE b == [asked EXCEPT !.jtag = v]
                  s == jtag_registers_upload(v[1], v[2], v[3])
      <3>1. s # <<>> /\ Homed(s, "jtag")
        BY HomedCalls DEF jtag_registers_upload
      <3>2. b.jtag = v /\ b.shifted = asked.shifted /\ Others("jtag", b)
        BY <1>2 DEF Promise, AsksOf
      <3>3. Begin(p, "jtag_upload", "jtag", s, port[p], b)
        BY <2>5
      <3>4. s = <<Write("cnt", v[1]), Write("tms", v[2]), Write("tdi", v[3])>>
        BY DEF jtag_registers_upload
      <3>. HIDE DEF b, s
      <3>5. Holds("jtag", card, asked) => JtagPlace("jtag_upload", card, b, s, got[p], b)
        BY <2>1, <3>2, <3>4 DEF JtagPlace, JtagAs
      <3>. QED
        BY <1>3, <1>4, <2>2, <3>1, <3>2, <3>3, <3>5
    <2>6. ASSUME Begin(p, "jtag_start", "jtag", jtag_start, port[p],
                       [asked EXCEPT !.shifted = asked.jtag])
          PROVE  Promised'
      <3>. DEFINE b == [asked EXCEPT !.shifted = asked.jtag]
      <3>1. jtag_start # <<>> /\ Homed(jtag_start, "jtag")
        BY HomedCalls DEF jtag_start
      <3>2. b.jtag = asked.jtag /\ b.shifted = asked.jtag /\ Others("jtag", b)
        BY <1>2 DEF Promise, AsksOf
      <3>3. Begin(p, "jtag_start", "jtag", jtag_start, port[p], b)
        BY <2>6
      <3>. HIDE DEF b
      <3>4. Holds("jtag", card, asked) => JtagPlace("jtag_start", card, b, jtag_start, got[p], b)
        BY <2>1, <3>2 DEF JtagPlace, JtagAs, jtag_start
      <3>. QED
        BY <1>3, <1>4, <2>2, <3>1, <3>2, <3>3, <3>4
    <2>7. ASSUME Begin(p, "jtag_download", "jtag", jtag_registers_download, port[p],
                       [asked EXCEPT !.settled = (card.ctl = 0)])
          PROVE  Promised'
      <3>. DEFINE b == [asked EXCEPT !.settled = (card.ctl = 0)]
      <3>1. jtag_registers_download # <<>> /\ Homed(jtag_registers_download, "jtag")
        BY HomedCalls DEF jtag_registers_download
      <3>2. /\ b.jtag = asked.jtag /\ b.shifted = asked.shifted /\ (b.settled <=> card.ctl = 0)
            /\ Others("jtag", b)
        BY <1>2 DEF Promise, AsksOf
      <3>3. Begin(p, "jtag_download", "jtag", jtag_registers_download, port[p], b)
        BY <2>7
      <3>. HIDE DEF b
      <3>4. Holds("jtag", card, asked)
              => JtagPlace("jtag_download", card, b, jtag_registers_download, got[p], b)
        BY <2>1, <3>2 DEF JtagPlace, JtagAs, jtag_registers_download
      <3>. QED
        BY <1>3, <1>4, <2>2, <3>1, <3>2, <3>3, <3>4
    <2>. QED
      BY <1>8, <2>3, <2>4, <2>5, <2>6, <2>7 DEF SmallCores
  <1>. QED
    BY <1>5, <1>6, <1>7, <1>8

(* Every step keeps the promises.                                          *)
LEMMA NextPromised == IInv /\ Promised /\ [Next]_vars => Promised'
  <1>. SUFFICES ASSUME IInv, Promised, [Next]_vars PROVE Promised'
    OBVIOUS
  <1>1. CASE UNCHANGED vars
    BY <1>1 DEF Promised, AtHome, Settled, OneCall, Answered, PlaceOf, Busy, vars, history
  <1>2. CASE Next
    BY <1>2, CallPromised, StepPromised, CorePromised DEF Next
  <1>. QED
    BY <1>1, <1>2

(* Where no calls have overlapped, every call under way is at one of its   *)
(* places, and what is done is done as asked.                              *)
THEOREM AlwaysPromised == Spec => []Promised
  <1>1. Init => IInv /\ Promised
    BY InitInv, InitPromised
  <1>2. (IInv /\ Promised) /\ [Next]_vars => (IInv /\ Promised)'
    BY NextInv, NextPromised
  <1>. QED
    BY <1>1, <1>2, PTL DEF Spec

(* Registers shared by fields, pairs of words and sequences of writes keep *)
(* every call, and downloads return what was asked, as long as no two      *)
(* calls on one core overlapped, and whatever happens on other cores.      *)
THEOREM AlwaysAsAsked == Spec => []AsAsked
  <1>1. IInv /\ Promised => AsAsked
    <2>. SUFFICES ASSUME IInv, Promised, NEW core \in Cores \ overlapped,
                         \A p \in Procs : ~ Busy(p, core)
                  PROVE  /\ Says(core)
                         /\ \A p \in Procs : call[p].core = core /\ script[p] = <<>> =>
                              CASE call[p].fn = "get_calib" ->
                                     <<got[p].gain, int16(got[p].offset)>> = call[p].was.calib
                                [] call[p].fn \in {"registers_download", "set_address_range"} ->
                                     <<got[p].start, got[p].end>> = call[p].was.range
                                [] call[p].fn = "dna_download" -> got[p].dna = Dna
                                [] call[p].fn = "jtag_download" ->
                                     call[p].was.settled =>
                                       <<got[p].tdo, got[p].ctl>> = <<call[p].was.shifted, 0>>
                                [] OTHER -> TRUE
      BY DEF AsAsked
    <2>1. Holds(core, card, asked)
      BY DEF Promised, Settled
    <2>2. Says(core)
      BY <2>1 DEF Holds, Says, CalibAs, CsrAs, RangeAs, JtagAs, Cores
    <2>3. ASSUME NEW p \in Procs, call[p].core = core, script[p] = <<>>
          PROVE  CASE call[p].fn = "get_calib" ->
                        <<got[p].gain, int16(got[p].offset)>> = call[p].was.calib
                   [] call[p].fn \in {"registers_download", "set_address_range"} ->
                        <<got[p].start, got[p].end>> = call[p].was.range
                   [] call[p].fn = "dna_download" -> got[p].dna = Dna
                   [] call[p].fn = "jtag_download" ->
                        call[p].was.settled => <<got[p].tdo, got[p].ctl>> = <<call[p].was.shifted, 0>>
                   [] OTHER -> TRUE
      <3>1. Brought(call[p].fn, got[p], call[p].was)
        BY <2>3 DEF Promised, Answered
      <3>. QED
        BY <3>1 DEF Brought
    <2>. QED
      BY <2>2, <2>3
  <1>. QED
    BY <1>1, Invariance, AlwaysPromised, PTL

=============================================================================
