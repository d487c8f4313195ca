------------------------------- MODULE Si57x ------------------------------
(***************************************************************************)
(* chip_si57x.c: a programmable oscillator behind an I2C bus.  The driver  *)
(* reads the factory settings, searches a pair of dividers that puts the   *)
(* chip's internal oscillator into its range, and sends the settings while *)
(* the chip is frozen.  A call is carried out transfer by transfer; one    *)
(* may fail part of the way (WbI2c shows how), and no result is looked at; *)
(* or the program is killed and the next one finds the chip as it is left. *)
(*                                                                         *)
(* Frequencies are whole MHz, and the reference frequency rfreq is counted *)
(* in its last register bit (2^-28 in the code): the registers hold it in  *)
(* six bits and four digits to the base FracBase.                          *)
(***************************************************************************)
EXTENDS Integers, Sequences, FiniteSetsExt

CONSTANTS
  FracBase,    \* a register of rfreq has 256 values in the code
  Parts,       \* the parts: factory settings, and whether they are read at all
  Freqs,       \* the frequencies a program may be asked to set, in MHz
  Uninit,      \* what an uninitialized uint8_t may hold, 0 .. 255 in the code
  MaxCalls,    \* calls a program makes (bound)
  MaxFaults,   \* transfers that fail and programs that are killed (bound)
  FaultFreqs   \* the frequencies for which that happens (bound)

Byte  == 0 .. 255
Digit == 0 .. FracBase - 1

(* regs_raw[0 .. 5], counted from 1 here. *)
Raw == {r \in Seq(Byte) : Len(r) = 6 /\ \A k \in 3 .. 6 : r[k] \in Digit}

ASSUME Si57xAssumption ==
  /\ FracBase \in 2 .. 256
  /\ \A part \in Parts : /\ part.fout0 \in Nat \ {0}
                         /\ part.raw \in Raw
                         /\ part.fixed \in BOOLEAN
  /\ Freqs \subseteq Nat \ {0}
  /\ Uninit \subseteq Digit /\ Uninit # {}
  /\ MaxCalls \in Nat /\ MaxFaults \in Nat /\ FaultFreqs \subseteq Freqs

VALID_HS_DIV == {11, 9, 7, 6, 5, 4}
fdco_max == 5670
fdco_min == 4850
freq_min == 10       \* of both parts
freq_max == 280

VARIABLES
  fnew,        \* the frequency the program sets
  \* struct chip_si57x
  part,        \* the part number decoded
  reg_init, reg_current, reg_new,
  fxtal,       \* the crystal as a fraction: fout * hsdiv * n1 over rfreq
  \* the call under way
  call,        \* which one it is, or was
  script,      \* the I2C transfers it has still to make
  failed,      \* the transfers of it that failed
  calls,       \* calls the program has made
  faults,      \* transfers that have failed and programs killed
  trusted,     \* no transfer of the last reload failed
  sound,       \* nor of the one before the last search
  \* the chip
  config,      \* the six configuration registers
  frozenM,     \* register 135 bit 4
  frozenDCO,   \* register 136 bit 3
  locked       \* the chip runs as its registers say

driver == <<fnew, part, reg_init, reg_current, reg_new, fxtal>>
chip   == <<config, frozenM, frozenDCO, locked>>
vars   == <<driver, call, script, failed, calls, faults, trusted, sound, chip>>

(***************************************************************************)
(* Registers and values.                                                   *)
(***************************************************************************)
Reg == [raw : Raw, hsdiv : Byte, n1 : Byte, rfreq : Nat, fout : Nat]

TypeOK ==
  /\ fnew \in Freqs /\ part \in Parts
  /\ reg_init \in Reg /\ reg_current \in Reg /\ reg_new \in Reg
  /\ fxtal \in Nat \X Nat
  /\ call \in {"none", "reload", "find", "send_hard", "send_smooth", "download"}
  /\ Len(script) <= 4
  /\ failed \subseteq {"recall", "fetch", "freeze", "write", "unfreeze", "mark"}
  /\ calls \in 0 .. MaxCalls /\ faults \in 0 .. MaxFaults
  /\ trusted \in BOOLEAN /\ sound \in BOOLEAN
  /\ config \in Raw
  /\ frozenM \in BOOLEAN /\ frozenDCO \in BOOLEAN /\ locked \in BOOLEAN

Zero == [raw |-> [k \in 1 .. 6 |-> 0], hsdiv |-> 0, n1 |-> 0, rfreq |-> 0, fout |-> 0]

Rfreq(r) ==
  ((((r[2] % 64) * FracBase + r[3]) * FracBase + r[4]) * FracBase + r[5]) * FracBase + r[6]

(* An odd number other than 1 stands for the even one above it. *)
N1(n) == IF n = 0 THEN 1 ELSE n + (n % 2)

regs_to_val(reg) ==
  [reg EXCEPT !.hsdiv = (reg.raw[1] \div 32) + 4,
              !.n1    = N1(((reg.raw[1] % 32) * 4) + (reg.raw[2] \div 64)),
              !.rfreq = Rfreq(reg.raw)]

(* The crystal of a part, from its factory settings. *)
Factory(p)        == regs_to_val([Zero EXCEPT !.raw = p.raw])
FactoryCrystal(p) == <<p.fout0 * Factory(p).hsdiv * Factory(p).n1, Factory(p).rfreq>>

(* The reference has ten bits before the point: with any crystal of more   *)
(* than 5670 / 1024 MHz it fits its registers (the parts have 114 MHz).    *)
ASSUME CrystalAssumption ==
  \A p \in Parts : LET x == FactoryCrystal(p)
                  IN fdco_max * x[2] < x[1] * (64 * FracBase * FracBase * FracBase * FracBase)

HsdivCode(h) == ((h - 4) * 32) % 256

N1Code(n) == IF n = 1 THEN 0 ELSE IF n % 2 = 0 THEN (n - 1) % 256 ELSE n

(* Bits 6 and 7 of regs_raw[1] are or-ed with n1's. *)
Or2(a, b) == LET bit(x, k) == (x \div k) % 2
             IN 2 * Max({bit(a, 2), bit(b, 2)}) + Max({bit(a, 1), bit(b, 1)})

val_to_regs(reg) ==
  LET n  == N1Code(reg.n1)
      q0 == reg.rfreq
      q1 == q0 \div FracBase
      q2 == q1 \div FracBase
      q3 == q2 \div FracBase
      q4 == q3 \div FracBase
  IN [reg EXCEPT !.raw =
        << HsdivCode(reg.hsdiv) + ((n \div 4) % 32),
           (q4 % 64) + (64 * Or2((q4 \div 64) % 4, n % 4)),
           q3 % FracBase, q2 % FracBase, q1 % FracBase, q0 % FracBase >>]

(***************************************************************************)
(* chip_si57x_find_valid_combo: the dividers of a frequency.               *)
(***************************************************************************)
Divs(f) == ((fdco_min + f - 1) \div f) .. (fdco_max \div f)

(* A quotient that comes out whole is kept in n1, good or not. *)
Quotient(d, h) == (d \div h) % 256

(* Mutant: odd dividers are taken for good. *)
FitsOdd(d, h) == d % h = 0

Fits(d, h) == d % h = 0 /\ (Quotient(d, h) = 1 \/ Quotient(d, h) % 2 = 0)

(* What the two loops may leave in hsdiv and n1: the first combination, or *)
(* the last quotient tried, or what was on the stack.                      *)
Combos(f) ==
  LET good  == {d \in Divs(f) : \E h \in VALID_HS_DIV : Fits(d, h)}
      whole == {d \in Divs(f) : \E h \in VALID_HS_DIV : d % h = 0}
  IN IF good # {}
       THEN LET d == Min(good)
                h == Max({x \in VALID_HS_DIV : Fits(d, x)})
            IN {<<h, Quotient(d, h)>>}
     ELSE IF whole # {}
       THEN {<<4, Quotient(Max(whole), Min({x \in VALID_HS_DIV : Max(whole) % x = 0}))>>}
     ELSE (IF Divs(f) # {} THEN {4} ELSE Uninit) \X Uninit

(***************************************************************************)
(* The chip (external): a write of registers, complete or cut short.       *)
(***************************************************************************)
Bit(v, k) == (v \div k) % 2 = 1

Written(old, data) == [k \in 1 .. 6 |-> IF k <= Len(data) THEN data[k] ELSE old[k]]

ChipTakes(at, data) ==
  CASE data = <<>> -> UNCHANGED chip
    [] data # <<>> /\ at = "ctl" ->
         /\ config' = IF Bit(data[1], 1) THEN part.raw ELSE config
         /\ frozenM' = Bit(data[1], 16)
         /\ locked' = (\/ Bit(data[1], 1) \/ Bit(data[1], 32)
                       \/ frozenM /\ ~frozenM'
                       \/ locked)
         /\ UNCHANGED frozenDCO
    [] data # <<>> /\ at = "dco" ->
         /\ frozenDCO' = Bit(data[1], 8)
         /\ UNCHANGED <<config, frozenM, locked>>
    [] data # <<>> /\ at = "config" ->
         /\ config' = Written(config, data)
         /\ locked' = (locked /\ config' = config)
         /\ UNCHANGED <<frozenM, frozenDCO>>

(***************************************************************************)
(* The calls.                                                              *)
(***************************************************************************)
Write(what, at, data) == [what |-> what, at |-> at, data |-> data]
Fetch                 == [what |-> "fetch", at |-> "config", data |-> <<>>]

Returned == script = <<>>

Begin(what, transfers) ==
  /\ Returned /\ calls < MaxCalls
  /\ calls' = calls + 1
  /\ call' = what /\ script' = transfers /\ failed' = {}
  /\ UNCHANGED <<faults, chip>>

(* Mutant: the output divider is left out. *)
CrystalNoN1(reg) == <<reg.fout * reg.hsdiv, reg.rfreq>>

(* The crystal as the start-up registers give it. *)
Crystal(reg) == <<reg.fout * reg.hsdiv * reg.n1, reg.rfreq>>

Loaded(raw) ==
  LET reg == regs_to_val([reg_init EXCEPT !.raw = raw])
  IN reg_init' = reg /\ reg_current' = reg /\ fxtal' = Crystal(reg)

(* A recall, and for most parts a read of the recalled registers, into the *)
(* buffer that holds the register number (0 here) for the write before it. *)
reload_initial ==
  /\ Begin("reload", <<Write("recall", "ctl", <<1>>)>>
                       \o (IF part.fixed THEN <<>> ELSE <<Fetch>>))
  /\ trusted' = TRUE
  /\ IF part.fixed THEN Loaded(part.raw)
     ELSE /\ reg_init' = [reg_init EXCEPT !.raw[1] = 7]
          /\ UNCHANGED <<reg_current, fxtal>>
  /\ UNCHANGED <<fnew, part, reg_new, sound>>

(* Only after a reload, as every program does it: fxtal is 0 before. *)
find_valid_combo ==
  /\ fxtal # <<0, 0>>
  /\ Begin("find", <<>>)
  /\ \E combo \in Combos(fnew) :
       reg_new' = val_to_regs(
         [reg_new EXCEPT !.fout = fnew, !.hsdiv = combo[1], !.n1 = combo[2],
                         !.rfreq = (fnew * combo[2] * combo[1] * fxtal[2]) \div fxtal[1]])
  /\ sound' = trusted
  /\ UNCHANGED <<fnew, part, reg_init, reg_current, fxtal, trusted>>

(* Mutants: the freeze comes after the write; the release is forgotten. *)
FreezeLast(freeze, write, unfreeze) == <<write, freeze>> \o unfreeze

StillFrozen(freeze, write, unfreeze) == <<freeze, write>> \o Tail(unfreeze)

InOrder(freeze, write, unfreeze) == <<freeze, write>> \o unfreeze

(* Freeze the oscillator or the multiplier, write the registers, release. *)
SendTransfers(raw, hard) ==
  LET write == Write("write", "config", raw)
  IN IF hard
       THEN InOrder(Write("freeze", "dco", <<8>>), write,
              <<Write("unfreeze", "dco", <<0>>), Write("mark", "ctl", <<32>>)>>)
       ELSE InOrder(Write("freeze", "ctl", <<16>>), write,
              <<Write("unfreeze", "ctl", <<0>>)>>)

send_regs(hard) ==
  /\ Begin(IF hard THEN "send_hard" ELSE "send_smooth", SendTransfers(reg_new.raw, hard))
  /\ reg_current' = reg_new
  /\ UNCHANGED <<fnew, part, reg_init, reg_new, fxtal, trusted, sound>>

registers_download ==
  /\ Begin("download", <<Fetch>>)
  /\ UNCHANGED <<driver, trusted, sound>>

(* What a read that was refused returns. *)
Refused == <<255, 255, FracBase - 1, FracBase - 1, FracBase - 1, FracBase - 1>>

(* The buffer before a read: a download's is on the stack, with the        *)
(* register number first.                                                  *)
Buffers ==
  IF call = "reload" THEN {reg_init.raw} ELSE {<<7>> \o s : s \in [1 .. 5 -> Uninit]}

(* A read may stop after n bytes, or find no chip. *)
Received(ok) ==
  IF ok THEN {config}
  ELSE {Written(b, SubSeq(config, 1, n)) : b \in Buffers, n \in 0 .. 5} \cup {Refused}

Transfer(ok) ==
  /\ script # <<>>
  /\ script' = Tail(script)
  /\ LET t == Head(script) IN
       IF t.what = "fetch"
       THEN /\ \E raw \in Received(ok) :
                 IF call = "reload" THEN Loaded(raw)
                 ELSE /\ reg_current' = [reg_current EXCEPT !.raw = raw]
                      /\ UNCHANGED <<reg_init, fxtal>>
            /\ UNCHANGED <<fnew, part, reg_new, chip>>
       ELSE /\ \E n \in IF ok THEN {Len(t.data)} ELSE 0 .. Len(t.data) - 1 :
                 ChipTakes(t.at, SubSeq(t.data, 1, n))
            /\ UNCHANGED driver
  /\ UNCHANGED <<call, calls, sound>>

Done ==
  /\ Transfer(TRUE)
  /\ UNCHANGED <<failed, faults, trusted>>

Faulty == faults < MaxFaults /\ fnew \in FaultFreqs

Fail ==
  /\ Faulty
  /\ Transfer(FALSE)
  /\ faults' = faults + 1
  /\ failed' = failed \cup {Head(script).what}
  /\ trusted' = (trusted /\ call # "reload")

(* chip_si57x_init and chip_si57x_decode_part_number of a new program. *)
Unset(init, current, new, crystal) ==
  /\ init = [Zero EXCEPT !.fout = part.fout0]
  /\ current = Zero /\ new = Zero
  /\ crystal = <<0, 0>>

(* Killed before or inside a transfer: the next program starts with empty  *)
(* structs, and its start leaves the chip alone.                           *)
Kill ==
  /\ Faulty
  /\ \/ script = <<>> /\ UNCHANGED chip
     \/ /\ script # <<>>
        /\ \E n \in 0 .. Len(Head(script).data) :
             ChipTakes(Head(script).at, SubSeq(Head(script).data, 1, n))
  /\ Unset(reg_init', reg_current', reg_new', fxtal')
  /\ script' = <<>> /\ call' = "none" /\ failed' = {} /\ calls' = 0
  /\ trusted' = FALSE /\ sound' = FALSE
  /\ faults' = faults + 1
  /\ UNCHANGED <<fnew, part>>

Init ==
  /\ fnew \in Freqs /\ part \in Parts
  /\ Unset(reg_init, reg_current, reg_new, fxtal)
  /\ call = "none" /\ script = <<>> /\ failed = {}
  /\ calls = 0 /\ faults = 0 /\ trusted = FALSE /\ sound = FALSE
  /\ config \in {p.raw : p \in Parts}
  /\ frozenM = FALSE /\ frozenDCO = FALSE /\ locked = TRUE

Next ==
  \/ reload_initial
  \/ find_valid_combo
  \/ \E hard \in BOOLEAN : send_regs(hard)
  \/ registers_download
  \/ Done
  \/ Fail
  \/ Kill

Spec == Init /\ [][Next]_vars

(***************************************************************************)
(* Properties.                                                             *)
(***************************************************************************)
InRange(f) == f \in freq_min .. freq_max

(* For every frequency of the part the search finds a combination: it puts *)
(* the internal oscillator into its range, no smaller divider does, and of *)
(* those with the same product it has the highest speed divider.  So what  *)
(* the variables held before the loops is never used (104-148).            *)
SmallestDivider ==
  InRange(reg_new.fout) =>
    LET f == reg_new.fout
        h == reg_new.hsdiv
        n == reg_new.n1
        good == {g \in VALID_HS_DIV \X ({1} \cup {2 * k : k \in 1 .. 64}) :
                   f * g[1] * g[2] \in fdco_min .. fdco_max}
    IN /\ <<h, n>> \in good
       /\ \A g \in good :
            h * n < g[1] * g[2] \/ (h * n = g[1] * g[2] /\ g[1] <= h)

(* Once a frequency of the part was sent without a failed transfer, the    *)
(* chip's own registers give it: the crystal read at the reload, the       *)
(* search, the bit fields and the upload agree with what the chip decodes, *)
(* to the last bit of the reference (81-187, 221-282), wherever an earlier *)
(* program was killed.                                                     *)
TunedAsAsked ==
  /\ Returned /\ call \in {"send_hard", "send_smooth"} /\ failed = {}
  /\ sound /\ InRange(reg_new.fout)
  => LET now  == regs_to_val([Zero EXCEPT !.raw = config])
         fdco == reg_new.fout * now.hsdiv * now.n1
         x    == FactoryCrystal(part)
     IN /\ fdco \in fdco_min .. fdco_max
        /\ (fdco * x[2]) - (x[1] * now.rfreq) \in 0 .. x[1] - 1

(* The settings of a running oscillator change only under a freeze, unless *)
(* the very transfer that freezes failed, or a recall was asked for        *)
(* (237-250).                                                              *)
ChangesFrozen ==
  [][config' # config /\ call # "reload" =>
       frozenM \/ frozenDCO \/ "freeze" \in failed]_vars

(* A send of which no transfer failed leaves the chip running on what the  *)
(* driver believes it set, released from the freeze of its own method,     *)
(* whatever failed in the calls before (221-254).                          *)
SendSettles ==
  Returned /\ call \in {"send_hard", "send_smooth"} /\ failed = {} =>
    /\ config = reg_current.raw /\ locked /\ ~frozenM
    /\ call = "send_hard" => ~frozenDCO

=============================================================================
