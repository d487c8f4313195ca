----------------------------- MODULE CardRegs -----------------------------
(***************************************************************************)
(* wb_gpio_raw.c, wb_bpm_params.c, xwb_scope.c, wb_fmc_csr.c,              *)
(* wb_xilinx_dna.c and wb_xvc_jtag.c: the register cores of a card.  A     *)
(* call is a few word transfers on the bus, some of which write back what  *)
(* an earlier one read.  Module WbBus is what the bus promises:            *)
(* each word is atomic, and nothing holds the words of a call together, so *)
(* the calls of several programs on one card overlap word by word.  What   *)
(* a core does with a word is external.                                    *)
(***************************************************************************)
EXTENDS Integers, Sequences

CONSTANTS
  Procs,       \* the programs that use the card
  Mine,        \* the port bits each program drives: nobody else's
  PortValues,  \* the values they give to set_port_value
  AvgTop,      \* largest average field, 1023 in the code
  Fix,         \* half the range of a 16-bit number, 32768 in the code
  ByteMod,     \* 256 in the code
  WordMod,     \* 2^32 in the code
  Avgs, Trigs, \* arguments of set_avg and set_trig
  Calibs,      \* arguments of set_calib: gain and offset in units of 1/Fix
  Ranges,      \* arguments of set_address_range: start and size
  Dna,         \* the words of the FPGA's identification
  Shifts,      \* arguments of the JTAG upload: cnt, tms and tdi
  MaxCalls     \* calls made (bound)

Bits == UNION {Mine[p] : p \in Procs}
Byte == 0 .. ByteMod - 1
Half == 2 * Fix           \* 2^16 in the code
Word == 0 .. WordMod - 1

ASSUME CardAssumption ==
  /\ \A p, q \in Procs : p # q => Mine[p] \cap Mine[q] = {}
  /\ PortValues \subseteq SUBSET Bits
  /\ AvgTop \in Nat /\ Fix \in Nat \ {0}
  /\ ByteMod \in Nat \ {0} /\ ByteMod * ByteMod = Half
  /\ WordMod \in Nat /\ WordMod > Half /\ WordMod % Half = 0
  /\ (AvgTop + 1) * Half <= WordMod
  /\ Avgs \subseteq Int /\ Trigs \subseteq Int
  /\ Calibs \subseteq Int \X Int /\ Ranges \subseteq Word \X Word
  /\ Dna \in Seq(Word) /\ Shifts \subseteq Word \X Word \X Word
  /\ MaxCalls \in Nat

VARIABLES
  card,        \* the registers of the cores
  calls,       \* calls made
  call,        \* what each program is doing, or did last
  script,      \* the word transfers its call has still to make
  got,         \* the words its calls have read: locals and scope->reg
  port,        \* history: the bits each program last asked to be on
  asked,       \* history: what the last calls asked of the other cores
  overlapped   \* history: the cores on which calls have overlapped

history == <<port, asked, overlapped>>
vars    == <<card, calls, call, script, got, history>>

Cores == {"port", "ddr", "reg0", "reg1", "calib", "scope", "fmc_csr", "dna", "jtag"}
Modes == {"multi", "single", "circular"}

Csr == [mode : Modes, state : {"idle", "armed", "triggered"}]

Card == [out : SUBSET Bits, ddr : SUBSET Bits, reg0 : Word, reg1 : Word,
         gain : Word, offset : Word, csr : Csr, start : Word, end : Word,
         ctl1 : {0, 16}, dna : Seq(Word),
         cnt : Word, tms : Word, tdi : Word, tdo : Word \X Word \X Word, ctl : {0, 1},
         shifting : Word \X Word \X Word]

Promise == [ddr : SUBSET Bits, reg0 : Int, reg1 : Int, trig : Byte \X Byte,
            calib : Int \X Int, mode : Modes, armed : BOOLEAN, range : Word \X Word,
            enabled : BOOLEAN, jtag : Word \X Word \X Word,
            shifted : Word \X Word \X Word, settled : BOOLEAN]

TypeOK ==
  /\ card \in Card
  /\ calls \in 0 .. MaxCalls
  /\ \A p \in Procs : Len(script[p]) <= 6 /\ got[p] \in Card /\ call[p].core \in Cores
  /\ port \in [Procs -> SUBSET Bits] /\ asked \in Promise /\ overlapped \subseteq Cores

(***************************************************************************)
(* The fields of a parameter register: the average in the upper half, and  *)
(* a byte each for the source and the RF trigger in the lower.             *)
(***************************************************************************)
get_avg(word)  == (word \div Half) + 1
get_trig(word) == <<word % ByteMod, (word \div ByteMod) % ByteMod>>

(* (avg << 16) | (data & 0xFFFF) *)
with_avg(word, field) == (field * Half) + (word % Half)

(* (data & 0xFFFF0000) | ((rf << 8) & 0xFF00) | (trig & 0xFF) *)
with_trig(word, trig, rf) ==
  ((word \div Half) * Half) + ((rf % ByteMod) * ByteMod) + (trig % ByteMod)

(***************************************************************************)
(* Word transfers, and what the cores make of them (external).             *)
(***************************************************************************)
Transfer(k, reg, val) == [k |-> k, reg |-> reg, val |-> val]
Read(reg)             == Transfer("read", reg, {})
Write(reg, val)       == Transfer("write", reg, val)

(* The card after transfer t of a program that has read the words w. *)
After(c, t, w) ==
  CASE t.k = "read"  -> c
    [] t.k = "write" -> [c EXCEPT ![t.reg] = t.val]
    [] t.k = "set"   -> [c EXCEPT !.out = @ \cup t.val]
    [] t.k = "clear" -> [c EXCEPT !.out = @ \ t.val]
    [] t.k = "start" -> [c EXCEPT !.ctl = 1, !.shifting = <<c.cnt, c.tms, c.tdi>>]
    [] t.k = "avg"   -> [c EXCEPT ![t.reg] = with_avg(w[t.reg], t.val)]
    [] t.k = "trig"  -> [c EXCEPT ![t.reg] = with_trig(w[t.reg], t.val[1], t.val[2])]

(* The reset bit of a scope stops it and clears itself. *)
ScopeCsr(mode, arm) ==
  Write("csr", [mode |-> mode, state |-> IF arm THEN "armed" ELSE "idle"])

(***************************************************************************)
(* The calls, as the transfers they make.                                  *)
(***************************************************************************)
(* Mutant: every bit that is not set is cleared. *)
ClearUnmasked(value, mask) ==
  <<Transfer("set", "out", value \cap mask), Transfer("clear", "out", Bits \ value)>>

(* SODR, then CODR. *)
set_port_value(value, mask) ==
  <<Transfer("set", "out", value \cap mask), Transfer("clear", "out", mask \ value)>>

(* Direction, termination and alternate functions are one register each. *)
set_port_direction(dirs) == <<Write("ddr", dirs)>>

Clamp(x, low, high) == IF x < low THEN low ELSE IF x > high THEN high ELSE x

AvgField(avg) == Clamp(avg - 1, 0, AvgTop)

(* Mutant: the other fields are as they were read some time before. *)
SetAvgStale(reg, avg) == <<Transfer("avg", reg, AvgField(avg))>>

(* Read the register, change a field, write it back. *)
set_avg(reg, avg)  == <<Read(reg), Transfer("avg", reg, AvgField(avg))>>
set_trig(trig, rf) == <<Read("reg1"), Transfer("trig", "reg1", <<trig, rf>>)>>

gain_fix(gain)     == Clamp(gain, 0, Half - 1)
offset_fix(offset) == Clamp(offset, -Fix, Fix - 1)

(* The offset fills a word with its sign. *)
set_calib(gain, offset) ==
  <<Write("gain", gain_fix(gain)), Write("offset", offset_fix(offset) % WordMod)>>

get_calib == <<Read("gain"), Read("offset")>>

(* (int16_t) (data & 0xFFFF) *)
int16(word) == LET low == word % Half IN IF low < Fix THEN low ELSE low - Half

(* Reset with the mode, then arm. *)
shot(mode) == <<ScopeCsr(mode, FALSE), ScopeCsr(mode, TRUE)>>

(* A single reset, or a zero. *)
stop == <<ScopeCsr("multi", FALSE)>>

registers_download == <<Read("csr"), Read("start"), Read("end")>>

set_address_range(start, size) ==
  <<Write("start", start), Write("end", (start + size - 1) % WordMod)>>
    \o stop \o registers_download

(* The identification, whose four words never change, in one transfer. *)
dna_registers_download == <<Read("dna")>>

fmc_csr_enable(flag) == <<Write("ctl1", IF flag THEN 16 ELSE 0)>>

jtag_registers_upload(cnt, tms, tdi) ==
  <<Write("cnt", cnt), Write("tms", tms), Write("tdi", tdi)>>

jtag_start == <<Transfer("start", "ctl", {})>>

(* TDO is read first, then the register that says whether it is complete. *)
jtag_registers_download == <<Read("tdo"), Read("ctl")>>

(***************************************************************************)
(* The steps of a program: enter a call, make its next transfer.           *)
(***************************************************************************)
Busy(p, core) == script[p] # <<>> /\ call[p].core = core

(* "promise" is asked once the call is done, "bits" its part of the port. *)
Begin(p, fn, core, transfers, bits, promise) ==
  /\ script[p] = <<>> /\ calls < MaxCalls
  /\ calls' = calls + 1
  /\ call' = [call EXCEPT ![p] = [fn |-> fn, core |-> core, was |-> promise]]
  /\ script' = [script EXCEPT ![p] = transfers]
  /\ port' = [port EXCEPT ![p] = bits]
  /\ asked' = promise
  /\ overlapped' = IF \E q \in Procs : Busy(q, core) THEN overlapped \cup {core} ELSE overlapped
  /\ UNCHANGED <<card, got>>

Gpio(p) ==
  \E v \in PortValues :
    \/ \E mask \in SUBSET Mine[p] :
         Begin(p, "set_port_value", "port", set_port_value(v, mask),
               (port[p] \ mask) \cup (v \cap mask), asked)
    \/ Begin(p, "set_port_direction", "ddr", set_port_direction(v), port[p],
             [asked EXCEPT !.ddr = v])

BpmParams(p) ==
  \/ \E reg \in {"reg0", "reg1"}, a \in Avgs :
       Begin(p, "set_avg", reg, set_avg(reg, a), port[p],
             [asked EXCEPT ![reg] = Clamp(a, 1, AvgTop + 1)])
  \/ \E trig, rf \in Trigs :
       Begin(p, "set_trig", "reg1", set_trig(trig, rf), port[p],
             [asked EXCEPT !.trig = <<trig % ByteMod, rf % ByteMod>>])
  \/ \E c \in Calibs :
       Begin(p, "set_calib", "calib", set_calib(c[1], c[2]), port[p],
             [asked EXCEPT !.calib = <<Clamp(c[1], 0, Half - 1), Clamp(c[2], -Fix, Fix - 1)>>])
  \/ Begin(p, "get_calib", "calib", get_calib, port[p], asked)

XwbScope(p) ==
  \/ \E mode \in Modes :
       Begin(p, "shot", "scope", shot(mode), port[p],
             [asked EXCEPT !.mode = mode, !.armed = TRUE])
  \/ Begin(p, "stop", "scope", stop, port[p], [asked EXCEPT !.mode = "multi", !.armed = FALSE])
  \/ Begin(p, "registers_download", "scope", registers_download, port[p], asked)
  \/ \E r \in Ranges :
       Begin(p, "set_address_range", "scope", set_address_range(r[1], r[2]), port[p],
             [asked EXCEPT !.mode = "multi", !.armed = FALSE,
                           !.range = <<r[1], (r[1] + r[2] - 1) % WordMod>>])

SmallCores(p) ==
  \/ \E flag \in BOOLEAN :
       Begin(p, "enable", "fmc_csr", fmc_csr_enable(flag), port[p],
             [asked EXCEPT !.enabled = flag])
  \/ Begin(p, "dna_download", "dna", dna_registers_download, port[p], asked)
  \/ \E s \in Shifts :
       Begin(p, "jtag_upload", "jtag", jtag_registers_upload(s[1], s[2], s[3]), port[p],
             [asked EXCEPT !.jtag = s])
  \/ Begin(p, "jtag_start", "jtag", jtag_start, port[p], [asked EXCEPT !.shifted = asked.jtag])
  \/ Begin(p, "jtag_download", "jtag", jtag_registers_download, port[p],
           [asked EXCEPT !.settled = (card.ctl = 0)])

Step(p) ==
  /\ script[p] # <<>>
  /\ script' = [script EXCEPT ![p] = Tail(@)]
  /\ LET t == Head(script[p]) IN
       /\ card' = After(card, t, got[p])
       /\ got' = IF t.k = "read" THEN [got EXCEPT ![p][t.reg] = card[t.reg]] ELSE got
  /\ UNCHANGED <<calls, call, history>>

(* An armed scope sees its trigger. *)
Trigger ==
  /\ card.csr.state = "armed"
  /\ card' = [card EXCEPT !.csr.state = "triggered"]
  /\ UNCHANGED <<calls, call, script, got, history>>

(* A shift that was started is over; TDO is named by what was shifted. *)
ShiftDone ==
  /\ card.ctl = 1
  /\ card' = [card EXCEPT !.ctl = 0, !.tdo = card.shifting]
  /\ UNCHANGED <<calls, call, script, got, history>>

NoShift == <<0, 0, 0>>

Init ==
  /\ card = [out |-> {}, ddr |-> {}, reg0 |-> 0, reg1 |-> 0, gain |-> 0, offset |-> 0,
             csr |-> [mode |-> "multi", state |-> "idle"], start |-> 0, end |-> 0,
             ctl1 |-> 0, dna |-> Dna, cnt |-> 0, tms |-> 0, tdi |-> 0, tdo |-> NoShift,
             ctl |-> 0, shifting |-> NoShift]
  /\ asked = [ddr |-> {}, reg0 |-> 1, reg1 |-> 1, trig |-> <<0, 0>>, calib |-> <<0, 0>>,
              mode |-> "multi", armed |-> FALSE, range |-> <<0, 0>>,
              enabled |-> FALSE, jtag |-> NoShift, shifted |-> NoShift, settled |-> TRUE]
  /\ calls = 0
  /\ call = [p \in Procs |-> [fn |-> "none", core |-> "port", was |-> asked]]
  /\ script = [p \in Procs |-> <<>>]
  /\ got = [p \in Procs |-> card]
  /\ port = [p \in Procs |-> {}]
  /\ overlapped = {}

Next ==
  \/ \E p \in Procs : Gpio(p) \/ BpmParams(p) \/ XwbScope(p) \/ SmallCores(p) \/ Step(p)
  \/ Trigger \/ ShiftDone

Spec == Init /\ [][Next]_vars

(***************************************************************************)
(* Properties.                                                             *)
(***************************************************************************)

(* The bits of the port a program drives are as it last asked, whatever    *)
(* other programs do to the port at the same time: set and clear registers *)
(* need no reading back (wb_gpio_raw.c:53-61).                             *)
PortKept ==
  \A p \in Procs : ~Busy(p, "port") => card.out \cap Mine[p] = port[p]

(* What the registers of a core say, in the terms of the calls. *)
Says(core) ==
  CASE core = "port"  -> TRUE
    [] core = "ddr"   -> card.ddr = asked.ddr
    [] core = "reg0"  -> get_avg(card.reg0) = asked.reg0
    [] core = "reg1"  -> get_avg(card.reg1) = asked.reg1 /\ get_trig(card.reg1) = asked.trig
    [] core = "calib" -> <<card.gain, int16(card.offset)>> = asked.calib
    [] core = "scope" -> /\ <<card.start, card.end>> = asked.range
                         /\ card.csr.mode = asked.mode
                         /\ card.csr.state # "idle" <=> asked.armed
    [] core = "fmc_csr" -> card.ctl1 # 0 <=> asked.enabled
    [] core = "dna"   -> card.dna = Dna
    [] core = "jtag"  -> /\ <<card.cnt, card.tms, card.tdi>> = asked.jtag
                         /\ card.ctl = 0 => card.tdo = asked.shifted

(* Registers that are shared by fields, pairs of words and sequences of    *)
(* writes keep every call, and a download returns what was asked, as long  *)
(* as no two calls on one core overlapped; a call on one core never harms  *)
(* another core (wb_bpm_params.c:28-112, xwb_scope.c:20-136).  The bits    *)
(* that came back on TDO are those of the last shift if its end was there  *)
(* when the download began: one that only sees it in its second word may   *)
(* have read TDO too early (wb_xvc_jtag.c:26-28).                          *)
AsAsked ==
  \A core \in Cores \ overlapped :
    (\A p \in Procs : ~Busy(p, core)) =>
      /\ Says(core)
      /\ \A p \in Procs : call[p].core = core /\ script[p] = <<>> =>
           CASE call[p].fn = "get_calib" -> <<got[p].gain, int16(got[p].offset)>> = call[p].was.calib
             [] call[p].fn \in {"registers_download", "set_address_range"} ->
                  <<got[p].start, got[p].end>> = call[p].was.range
             [] call[p].fn = "dna_download" -> got[p].dna = Dna
             [] call[p].fn = "jtag_download" ->
                  call[p].was.settled => <<got[p].tdo, got[p].ctl>> = <<call[p].was.shifted, 0>>
             [] OTHER -> TRUE

=============================================================================
